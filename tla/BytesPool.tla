------------------------------ MODULE BytesPool ------------------------------
(***************************************************************************)
(* internal/xsync: a pool of byte slices (Bytes over Pool over sync.Pool)  *)
(* used for the base64 buffers of the streaming transports.  A user gets a *)
(* buffer, overwrites it, uses it and puts it back.  A buffer is an        *)
(* identity; its capacity is "small", "large" (above the pool's max) or    *)
(* "none" (no backing array yet); its data is what was last written to it, *)
(* so that reading somebody else's bytes shows.                            *)
(***************************************************************************)
CONSTANTS
  Threads,    \* goroutines that get and put
  Buffers,    \* identities of the slices
  Messages,   \* what is written to a buffer
  None        \* no buffer, no content

ASSUME PoolAssumption == None \notin Threads \cup Buffers \cup Messages

VARIABLES
  pooled,     \* buffers sync.Pool holds
  buf,        \* the buffer each user holds, or None
  cap,        \* capacity of each buffer
  data        \* what each buffer's backing array holds

poolVars == <<pooled, buf, cap, data>>

Sizes == {"small", "large"}

\* Whether a backing array of capacity c has room for a slice of size n.
Fits(c, n) == c = "large" \/ c = n

PoolInit ==
  /\ pooled = {}
  /\ buf = [u \in Threads |-> None]
  /\ cap = [b \in Buffers |-> "none"]
  /\ data = [b \in Buffers |-> None]

InUse == {buf[u] : u \in Threads}

\* Get leaves the buffer in the pool: the next Get may return it again.
GetN_NotRemoved(u, n) ==
  /\ buf[u] = None
  /\ \E b \in Buffers :
       /\ b \in pooled \/ b \notin InUse
       /\ buf' = [buf EXCEPT ![u] = b]
       /\ cap' = [cap EXCEPT ![b] = IF Fits(@, n) THEN @ ELSE n]
       /\ data' = [data EXCEPT ![b] = IF Fits(cap[b], n) THEN @ ELSE None]
  /\ UNCHANGED pooled

\* GetN: a pooled buffer (with whatever it held), or a new one, grown to n
\* when its backing array is too small.
GetN(u, n) ==
  /\ buf[u] = None
  /\ \E b \in Buffers :
       /\ b \in pooled \/ b \notin InUse
       /\ pooled' = pooled \ {b}
       /\ buf' = [buf EXCEPT ![u] = b]
       /\ cap' = [cap EXCEPT ![b] = IF Fits(@, n) THEN @ ELSE n]
       /\ data' = [data EXCEPT ![b] = IF Fits(cap[b], n) THEN @ ELSE None]

\* The holder overwrites its buffer.
Fill(u, c) ==
  /\ buf[u] # None
  /\ data' = [data EXCEPT ![buf[u]] = c]
  /\ UNCHANGED <<pooled, buf, cap>>

\* Put: an oversized backing array is released and the buffer forgotten,
\* any other buffer goes back to the pool as it is.
Put(u) ==
  /\ buf[u] # None
  /\ buf' = [buf EXCEPT ![u] = None]
  /\ IF cap[buf[u]] = "large"
     THEN /\ cap' = [cap EXCEPT ![buf[u]] = "none"]
          /\ data' = [data EXCEPT ![buf[u]] = None]
          /\ UNCHANGED pooled
     ELSE /\ pooled' = pooled \cup {buf[u]}
          /\ UNCHANGED <<cap, data>>

\* The garbage collector empties sync.Pool, one buffer at a time.
Collect ==
  /\ \E b \in pooled :
       /\ pooled' = pooled \ {b}
       /\ cap' = [cap EXCEPT ![b] = "none"]
       /\ data' = [data EXCEPT ![b] = None]
  /\ UNCHANGED buf

PoolNext ==
  \/ \E u \in Threads :
       \/ \E n \in Sizes : GetN(u, n)
       \/ \E c \in Messages : Fill(u, c)
       \/ Put(u)
  \/ Collect

PoolSpec == PoolInit /\ [][PoolNext]_poolVars

PoolTypeOK ==
  /\ pooled \subseteq Buffers
  /\ buf \in [Threads -> Buffers \cup {None}]
  /\ cap \in [Buffers -> Sizes \cup {"none"}]
  /\ data \in [Buffers -> Messages \cup {None}]

\* A buffer has one user at a time, and none while it is in the pool: the
\* bytes a user writes stay its own until it puts the buffer back.
ExclusiveBuffers ==
  \A u \in Threads :
    buf[u] # None =>
      /\ buf[u] \notin pooled
      /\ \A v \in Threads \ {u} : buf[v] # buf[u]

\* The pool never pins an oversized array.
NoLargePooled == \A b \in pooled : cap[b] # "large"

\* What is handed out is nobody else's, and what is kept is not oversized
\* (Pool.Get and Bytes.Put, whatever the collector takes meanwhile).
PoolIsSafe == ExclusiveBuffers /\ NoLargePooled
==============================================================================

-------------------------------- MODULE Policy --------------------------------
(***************************************************************************)
(* Who may call what: auth/jwt extracts and validates a token, auth/rbac   *)
(* evaluates a policy on the context of a request.  A principal or         *)
(* permission has a kind, the one field that is set; a claim is the set of *)
(* its strings, and a custom claim that is neither a string nor an array   *)
(* is empty.                                                               *)
(***************************************************************************)
EXTENDS Sequences, SequencesExt

CONSTANTS
  None,       \* no token, no claims
  Validator   \* [method, key, issuer, audience]; None: not required

-----------------------------------------------------------------------------
(* jwt *)

\* DefaultTokenExtractor: header, query, cookie.  A header of another scheme,
\* or without a token, is skipped.
ExtractToken(meta) ==
  IF meta.scheme = "Bearer" /\ meta.authorization # None THEN meta.authorization
  ELSE IF meta.token # None THEN meta.token ELSE meta.session

\* Validate; the claims of a token are its payload.
Validate(token) ==
  /\ token.method = Validator.method        \* the algorithm is not the token's choice
  /\ token.key = Validator.key
  /\ token.time = "valid"                   \* exp and nbf, with the leeway
  /\ Validator.issuer \in {None, token.claims.issuer}
  /\ Validator.audience = None \/ Validator.audience \in token.claims.audience

-----------------------------------------------------------------------------
(* rbac *)

HeaderEquals(ctx, name, value) == <<name, value>> \in ctx.meta.header

Authenticated(p, claims) ==
  /\ claims # None
  /\ IF p.subject # None THEN claims.subject = p.subject
     ELSE /\ p.claim \in DOMAIN claims.custom
          /\ p.value \in claims.custom[p.claim]

\* The procedure is a sequence of atoms, of which a prefix may be given.
RequestedPath(p, procedure) ==
  IF p.exact # <<>> THEN procedure = p.exact
  ELSE p.prefix # <<>> /\ IsPrefix(p.prefix, procedure)

\* Principal.matches and Permission.matches.
RECURSIVE Matches(_, _)
Matches(p, ctx) ==
  CASE p.kind = "authenticated"  -> Authenticated(p, ctx.claims)
    [] p.kind = "source_ip"      -> ctx.peer \in p.block
    [] p.kind = "requested_path" -> RequestedPath(p, ctx.procedure)
    [] p.kind = "header"         -> HeaderEquals(ctx, p.name, p.value)
    [] p.kind = "any"            -> TRUE
    [] p.kind = "not"            -> ~Matches(p.of, ctx)
    [] p.kind = "and"            -> p.all # {} /\ \A q \in p.all : Matches(q, ctx)
    [] p.kind = "or"             -> \E q \in p.all : Matches(q, ctx)
    [] OTHER                     -> FALSE

RuleMatches(rule, ctx) ==
  /\ \E p \in rule.principals : Matches(p, ctx)
  /\ \E p \in rule.permissions : Matches(p, ctx)

IsAuthorized(policy, ctx) ==
  /\ \A rule \in policy.deny : ~RuleMatches(rule, ctx)
  /\ \E rule \in policy.allow : RuleMatches(rule, ctx)
===============================================================================

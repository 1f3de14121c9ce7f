------------------------------- MODULE Catalogue -------------------------------
(***************************************************************************)
(* The catalogue of language models: which names LiteLLM publishes and by  *)
(* which backends, which names each key may ask for, and where a request   *)
(* falls back when a backend fails.  LiteLLM compares the key's scope with *)
(* the name a request asks for and with nothing it falls back to, so that  *)
(* validate-llm-catalogue.py has to refuse a catalogue in which it would   *)
(* matter.                                                                 *)
(*                                                                         *)
(* External: who edits and deploys the manifests, and LiteLLM.             *)
(***************************************************************************)
EXTENDS Naturals, Sequences, FiniteSets

CONSTANTS
  Names,        \* what may be published, or named by mistake
  Coordinator,  \* the name "coordinator"
  Roles,        \* expected_role_scopes: each role's key is for the name of the role
  KeyObjects,   \* the key objects in the order they are rendered, [object, role]
  Entries,      \* LiteLLMModel specifications: [underlying, service, tokens, preemptible, budgeted]
  Routers,      \* ModelRouter services and LiteLLM itself
  Backends,     \* InferenceServices that may be rendered
  Contexts,     \* their context lengths; 0 when not given
  MaxEdits      \* bound: edits of the manifests

\* A service is a backend, a router, or not in the cluster.
NoService == "none"

ASSUME CatalogueAssumption ==
  /\ Roles \subseteq Names /\ Coordinator \in Names /\ MaxEdits \in Nat
  /\ Contexts \subseteq Nat /\ \A e \in Entries : e.tokens \in Nat

VARIABLES
  draft,    \* the manifests in the working tree
  live,     \* the manifests deployed
  request,  \* a request in LiteLLM: [key, at], or none
  edits

catalogueVars == <<draft, live, request, edits>>

Objects == {KeyObjects[n].object : n \in DOMAIN KeyObjects}
NoRequest == [key |-> "none", at |-> "none"]

\* What collect finds: the entries of each name; the scope of each key, and the
\* keys without one; the names that fallbacks are listed for, even empty ones,
\* and the pairs listed; the names in consumers' variables; the backends rendered.
Manifests == [models : [Names -> SUBSET Entries], keys : SUBSET Objects,
  scope : [Objects -> SUBSET Names], open : SUBSET Objects, primaries : SUBSET Names,
  fallbacks : SUBSET (Names \X Names), env : SUBSET Names, rendered : SUBSET Backends,
  context : [Backends -> Contexts \union {e.tokens : e \in Entries}]]

CatalogueTypeOK ==
  /\ draft \in Manifests /\ live \in Manifests /\ edits \in 0..MaxEdits
  /\ request \in {NoRequest} \union [key : Objects, at : Names]

-----------------------------------------------------------------------------
(* check: the numbered points of the script. *)

Published(c) == {m \in Names : c.models[m] # {}}
Closed(c) == c.keys \ c.open
Listed(c, m) == {t \in Names : <<m, t>> \in c.fallbacks}

KeyScopesResolve(c) == \A k \in Closed(c) : c.scope[k] \subseteq Published(c)

FallbacksResolve(c) ==
  c.primaries \subseteq Published(c) /\ \A f \in c.fallbacks : f[2] \in Published(c)

\* A model may advertise less than its backend when that is marked as deliberate.
Mirrors(c, e) ==
  LET length == c.context[e.service]
  IN e.tokens = 0 \/ length = 0 \/ e.tokens = length \/ (e.tokens < length /\ e.budgeted)

BackendsMatch(c) ==
  \A m \in Names : \A e \in c.models[m] :
    \/ e.service \in Routers \union {NoService}
    \/ e.service \in c.rendered /\ Mirrors(c, e)

CoordinatorStays(c) == Coordinator \notin c.primaries

PreemptibleFallsBack(c) ==
  \A m \in Names : (\E e \in c.models[m] : e.preemptible) => m \in c.primaries

Underlying(c, m) == {e.underlying : e \in c.models[m]}
SameModel(c) ==
  \A f \in c.fallbacks :
    {f[1], f[2]} \subseteq Published(c) => Underlying(c, f[1]) \cap Underlying(c, f[2]) # {}

\* Mutant: the closure is looked for in the names asked for alone.
ScopesHoldFirst(c) ==
  \A k \in Closed(c) : c.scope[k] # {} =>
    \E m \in c.scope[k] : Listed(c, m) \subseteq c.scope[k]

ScopesHoldFallbacks(c) ==
  \A k \in Closed(c) : \A m \in c.scope[k] : Listed(c, m) \subseteq c.scope[k]

EnvResolves(c) == c.env \subseteq Published(c)

\* Of the keys of one role, the one rendered last is looked at.
KeysOf(c, role) ==
  {n \in DOMAIN KeyObjects : KeyObjects[n].role = role /\ KeyObjects[n].object \in c.keys}
RolesExact(c) ==
  \A role \in Roles : \E n \in KeysOf(c, role) :
    /\ \A later \in KeysOf(c, role) : later <= n
    /\ KeyObjects[n].object \notin c.open /\ c.scope[KeyObjects[n].object] = {role}

Valid(c) ==
  /\ KeyScopesResolve(c) /\ FallbacksResolve(c) /\ BackendsMatch(c)
  /\ CoordinatorStays(c) /\ PreemptibleFallsBack(c) /\ SameModel(c)
  /\ ScopesHoldFallbacks(c) /\ EnvResolves(c) /\ RolesExact(c)

-----------------------------------------------------------------------------
(* The manifests. *)

Toggle(set, x) == IF x \in set THEN set \ {x} ELSE set \union {x}

\* A valid catalogue without fallbacks, with one entry behind every name.
CatalogueInit ==
  /\ \E e \in Entries, scope \in [Objects -> SUBSET Names] :
       draft = [models |-> [m \in Names |-> {e}], keys |-> Objects, scope |-> scope,
         open |-> {}, primaries |-> {}, fallbacks |-> {}, env |-> {},
         rendered |-> Backends, context |-> [b \in Backends |-> e.tokens]]
  /\ Valid(draft)
  /\ live = draft /\ request = NoRequest /\ edits = 0

Edited(c) ==
  \/ \E m \in Names, e \in Entries : draft' = [c EXCEPT !.models[m] = Toggle(@, e)]
  \/ \E k \in Objects : draft' = [c EXCEPT !.keys = Toggle(@, k)]
  \/ \E k \in Objects, m \in Names : draft' = [c EXCEPT !.scope[k] = Toggle(@, m)]
  \/ \E k \in Objects : draft' = [c EXCEPT !.open = Toggle(@, k)]
  \/ \E m \in Names : draft' = [c EXCEPT !.primaries = @ \union {m}]
  \/ \E m, t \in Names :
       draft' = [c EXCEPT !.primaries = @ \union {m}, !.fallbacks = Toggle(@, <<m, t>>)]
  \/ \E m \in Names : draft' = [c EXCEPT !.env = Toggle(@, m)]
  \/ \E b \in Backends, n \in Contexts :
       draft' = [c EXCEPT !.rendered = Toggle(@, b), !.context[b] = n]

Edits ==
  /\ edits < MaxEdits /\ edits' = edits + 1
  /\ Edited(draft) /\ UNCHANGED <<live, request>>

\* What the script accepts is deployed; LiteLLM starts anew with it.
Deploys ==
  /\ Valid(draft) /\ live' = draft /\ request' = NoRequest
  /\ UNCHANGED <<draft, edits>>

-----------------------------------------------------------------------------
(* LiteLLM. *)

\* A key's request is for a published name in its scope, if it has one.
Asks(k, m) ==
  /\ request = NoRequest /\ k \in live.keys /\ m \in Published(live)
  /\ k \in live.open \/ m \in live.scope[k]
  /\ request' = [key |-> k, at |-> m] /\ UNCHANGED <<draft, live, edits>>

\* The backends of a name fail: the request goes to a name listed for it.
FallsBack ==
  /\ request # NoRequest
  /\ \E t \in Listed(live, request.at) : request' = [request EXCEPT !.at = t]
  /\ UNCHANGED <<draft, live, edits>>

IsServed == request # NoRequest /\ request' = NoRequest /\ UNCHANGED <<draft, live, edits>>

CatalogueNext ==
  \/ Edits \/ Deploys
  \/ \E k \in Objects, m \in Names : Asks(k, m)
  \/ FallsBack \/ IsServed

CatalogueSpec == CatalogueInit /\ [][CatalogueNext]_catalogueVars

-----------------------------------------------------------------------------
(* Properties. *)

\* However often a request falls back, the name it has come to is published,
\* in the scope of its key, if that has one; nothing compares them at that time.
ServedInScope ==
  request # NoRequest =>
    /\ request.at \in Published(live)
    /\ request.key \in live.open \/ request.at \in live.scope[request.key]
=============================================================================

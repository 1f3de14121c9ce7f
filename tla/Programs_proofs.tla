-------------------------- MODULE Programs_proofs ---------------------------
(***************************************************************************)
(* Proofs about the programs around the gateway and the scouts' threads.   *)
(* Each is about its own specification, for every value of its constants;  *)
(* the last two say that they hold of all the programs together, with      *)
(* those of the experiments, which have a module of their own.             *)
(***************************************************************************)
EXTENDS MCPrograms, Experiments_proofs, TLAPS

-----------------------------------------------------------------------------
(***************************************************************************)
(* Catalogue. For every set of names, keys and backends, and every number  *)
(* of edits: LiteLLM looks at a key's scope once, when a request arrives;  *)
(* what keeps the request in scope afterwards is that the deployed         *)
(* catalogue was accepted, and of that three of the nine points.           *)
(***************************************************************************)

\* What the deployed catalogue owes a request: what is listed behind a name is
\* published, and a closed scope holds what is listed behind its names.
Sound(c) == FallbacksResolve(c) /\ ScopesHoldFallbacks(c)

\* A request is of a key that is rendered.
Keyed == request = NoRequest \/ \E k \in live.keys, m \in Names : request = [key |-> k, at |-> m]

CatalogueInv == Sound(live) /\ ServedInScope /\ Keyed

-----------------------------------------------------------------------------
\* What check accepts is sound.
LEMMA ValidIsSound == ASSUME NEW c, Valid(c) PROVE Sound(c)
  BY DEF Valid, Sound

\* One step behind: a name listed behind a name in scope is published and in scope.
LEMMA ListedInScope ==
  ASSUME NEW c, Sound(c), NEW k \in c.keys, NEW m, NEW t \in Listed(c, m),
         k \in c.open \/ m \in c.scope[k]
  PROVE  t \in Published(c) /\ (k \in c.open \/ t \in c.scope[k])
<1>1. t \in Names /\ <<m, t>> \in c.fallbacks
  BY DEF Listed
<1>2. t \in Published(c)
  BY <1>1 DEF Sound, FallbacksResolve
<1>3. CASE k \notin c.open
  <2>1. k \in Closed(c) /\ m \in c.scope[k]
    BY <1>3 DEF Closed
  <2>2. Listed(c, m) \subseteq c.scope[k]
    BY <2>1 DEF Sound, ScopesHoldFallbacks
  <2> QED
    BY <1>2, <2>2
<1> QED
  BY <1>2, <1>3

\* No edit, deployment or request disturbs the invariant.
LEMMA CatalogueStep == CatalogueInv /\ [CatalogueNext]_catalogueVars => CatalogueInv'
<1> SUFFICES ASSUME CatalogueInv, [CatalogueNext]_catalogueVars PROVE CatalogueInv'
  OBVIOUS
<1>1. CASE Deploys
  <2>1. Sound(live')
    BY <1>1, ValidIsSound DEF Deploys
  <2>2. Sound(live)'
    BY <2>1 DEF Sound, FallbacksResolve, ScopesHoldFallbacks, Published, Closed, Listed
  <2> QED
    BY <1>1, <2>2 DEF Deploys, CatalogueInv, ServedInScope, Keyed
<1>2. CASE FallsBack
  <2>1. PICK t \in Listed(live, request.at) : request' = [request EXCEPT !.at = t]
    BY <1>2 DEF FallsBack
  <2>2. PICK k \in live.keys, m \in Names : request = [key |-> k, at |-> m]
    BY <1>2 DEF FallsBack, CatalogueInv, Keyed
  <2>3. t \in Names /\ t \in Published(live) /\ (k \in live.open \/ t \in live.scope[k])
    BY <1>2, <2>1, <2>2, ListedInScope DEF FallsBack, CatalogueInv, ServedInScope, Listed
  <2>4. request' = [key |-> k, at |-> t]
    BY <2>1, <2>2
  <2>5. UNCHANGED live
    BY <1>2 DEF FallsBack
  <2>6. Sound(live)' /\ ServedInScope' /\ Keyed'
    BY <2>3, <2>4, <2>5 DEF CatalogueInv, Sound, ServedInScope, Keyed
  <2> QED
    BY <2>6 DEF CatalogueInv
<1>3. CASE \E k \in Objects, m \in Names : Asks(k, m)
  BY <1>3 DEF Asks, CatalogueInv, ServedInScope, Keyed, Sound
<1>4. CASE IsServed
  BY <1>4 DEF IsServed, CatalogueInv, ServedInScope, Keyed, Sound
<1>5. CASE Edits
  BY <1>5 DEF Edits, CatalogueInv, ServedInScope, Keyed, Sound
<1>6. CASE UNCHANGED catalogueVars
  BY <1>6 DEF catalogueVars, CatalogueInv, ServedInScope, Keyed, Sound
<1> QED
  BY <1>1, <1>2, <1>3, <1>4, <1>5, <1>6 DEF CatalogueNext

\* A request never ends at a name that is not published or that its key may not
\* ask for, however long its chain of fallbacks and whatever is deployed meanwhile.
THEOREM ServedInScopeHolds == CatalogueSpec => []ServedInScope
<1>1. CatalogueInit => CatalogueInv
  BY ValidIsSound DEF CatalogueInit, CatalogueInv, ServedInScope, Keyed
<1>2. CatalogueInv => ServedInScope
  BY DEF CatalogueInv
<1> QED
  BY <1>1, <1>2, CatalogueStep, PTL DEF CatalogueSpec

-----------------------------------------------------------------------------
(* The types: an edit leaves every part of the manifests as it was, but    *)
(* for the one it edits.                                                   *)

\* The parts of the manifests.
ModelMaps == [Names -> SUBSET Entries]
KeySets == SUBSET Objects
ScopeMaps == [Objects -> SUBSET Names]
NameSets == SUBSET Names
FallbackSets == SUBSET (Names \X Names)
BackendSets == SUBSET Backends
ContextMaps == [Backends -> Contexts \union {e.tokens : e \in Entries}]

Catalogues ==
  [models : ModelMaps, keys : KeySets, scope : ScopeMaps, open : KeySets, primaries : NameSets,
   fallbacks : FallbackSets, env : NameSets, rendered : BackendSets, context : ContextMaps]

\* The manifests have these parts.
LEMMA ManifestsAreCatalogues == Manifests = Catalogues
  BY DEF Manifests, Catalogues, ModelMaps, KeySets, ScopeMaps, NameSets, FallbackSets, BackendSets, ContextMaps

\* One part is edited.
LEMMA PartEdited ==
  ASSUME NEW c \in Catalogues
  PROVE  /\ \A v \in ModelMaps : [c EXCEPT !.models = v] \in Catalogues
         /\ \A v \in KeySets : [c EXCEPT !.keys = v] \in Catalogues
         /\ \A v \in ScopeMaps : [c EXCEPT !.scope = v] \in Catalogues
         /\ \A v \in KeySets : [c EXCEPT !.open = v] \in Catalogues
         /\ \A v \in NameSets : [c EXCEPT !.primaries = v] \in Catalogues
         /\ \A v \in FallbackSets : [c EXCEPT !.fallbacks = v] \in Catalogues
         /\ \A v \in NameSets : [c EXCEPT !.env = v] \in Catalogues
         /\ \A v \in BackendSets : [c EXCEPT !.rendered = v] \in Catalogues
         /\ \A v \in ContextMaps : [c EXCEPT !.context = v] \in Catalogues
BY DEF Catalogues

\* What is toggled stays a part of its set.
LEMMA ToggleIsPart == ASSUME NEW S, NEW set \in SUBSET S, NEW x \in S PROVE Toggle(set, x) \in SUBSET S
  BY DEF Toggle

\* Every edit leaves manifests.
LEMMA EditedIsManifests ==
  ASSUME draft \in Manifests, Edited(draft)
  PROVE  draft' \in Manifests
<1>1. draft \in Catalogues
  BY ManifestsAreCatalogues
<1>2. /\ draft.models \in ModelMaps /\ draft.keys \in KeySets /\ draft.scope \in ScopeMaps
      /\ draft.open \in KeySets /\ draft.primaries \in NameSets /\ draft.fallbacks \in FallbackSets
      /\ draft.env \in NameSets /\ draft.rendered \in BackendSets /\ draft.context \in ContextMaps
  BY <1>1 DEF Catalogues
<1>3. ASSUME NEW m \in Names, NEW e \in Entries, draft' = [draft EXCEPT !.models[m] = Toggle(@, e)]
      PROVE  draft' \in Catalogues
  <2> DEFINE v == [draft.models EXCEPT ![m] = Toggle(draft.models[m], e)]
  <2>1. v \in ModelMaps
    BY <1>2, ToggleIsPart DEF ModelMaps
  <2>2. draft' = [draft EXCEPT !.models = v]
    BY <1>3
  <2> QED
    BY <1>1, <2>1, <2>2, PartEdited
<1>4. ASSUME NEW k \in Objects, draft' = [draft EXCEPT !.keys = Toggle(@, k)]
      PROVE  draft' \in Catalogues
  <2>1. Toggle(draft.keys, k) \in KeySets
    BY <1>2, ToggleIsPart DEF KeySets
  <2> QED
    BY <1>1, <1>4, <2>1, PartEdited
<1>5. ASSUME NEW k \in Objects, NEW m \in Names, draft' = [draft EXCEPT !.scope[k] = Toggle(@, m)]
      PROVE  draft' \in Catalogues
  <2> DEFINE v == [draft.scope EXCEPT ![k] = Toggle(draft.scope[k], m)]
  <2>1. v \in ScopeMaps
    BY <1>2, ToggleIsPart DEF ScopeMaps
  <2>2. draft' = [draft EXCEPT !.scope = v]
    BY <1>5
  <2> QED
    BY <1>1, <2>1, <2>2, PartEdited
<1>6. ASSUME NEW k \in Objects, draft' = [draft EXCEPT !.open = Toggle(@, k)]
      PROVE  draft' \in Catalogues
  <2>1. Toggle(draft.open, k) \in KeySets
    BY <1>2, ToggleIsPart DEF KeySets
  <2> QED
    BY <1>1, <1>6, <2>1, PartEdited
<1>7. \A m \in Names : draft.primaries \union {m} \in NameSets
  BY <1>2 DEF NameSets
<1>8. ASSUME NEW m \in Names, draft' = [draft EXCEPT !.primaries = @ \union {m}]
      PROVE  draft' \in Catalogues
  BY <1>1, <1>7, <1>8, PartEdited
<1>9. ASSUME NEW m \in Names, NEW t \in Names,
             draft' = [draft EXCEPT !.primaries = @ \union {m}, !.fallbacks = Toggle(@, <<m, t>>)]
      PROVE  draft' \in Catalogues
  <2> DEFINE c == [draft EXCEPT !.primaries = draft.primaries \union {m}]
             v == Toggle(draft.fallbacks, <<m, t>>)
  <2>1. <<m, t>> \in Names \X Names
    OBVIOUS
  <2>2. v \in FallbackSets
    <3>1. draft.fallbacks \in SUBSET (Names \X Names)
      BY <1>2 DEF FallbackSets
    <3> QED
      BY <2>1, <3>1 DEF FallbackSets, Toggle
  <2>3. c \in Catalogues
    BY <1>1, <1>7, PartEdited
  <2>4. draft' = [c EXCEPT !.fallbacks = v]
    BY <1>9
  <2> HIDE DEF c, v
  <2> QED
    BY <2>2, <2>3, <2>4, PartEdited
<1>10. ASSUME NEW m \in Names, draft' = [draft EXCEPT !.env = Toggle(@, m)]
       PROVE  draft' \in Catalogues
  <2>1. Toggle(draft.env, m) \in NameSets
    BY <1>2, ToggleIsPart DEF NameSets
  <2> QED
    BY <1>1, <1>10, <2>1, PartEdited
<1>11. ASSUME NEW b \in Backends, NEW n \in Contexts,
              draft' = [draft EXCEPT !.rendered = Toggle(@, b), !.context[b] = n]
       PROVE  draft' \in Catalogues
  <2> DEFINE c == [draft EXCEPT !.rendered = Toggle(draft.rendered, b)]
             v == [draft.context EXCEPT ![b] = n]
  <2>1. Toggle(draft.rendered, b) \in BackendSets /\ v \in ContextMaps
    BY <1>2, ToggleIsPart DEF BackendSets, ContextMaps
  <2>2. c \in Catalogues
    BY <1>1, <2>1, PartEdited
  <2>3. draft' = [c EXCEPT !.context = v]
    BY <1>11
  <2> HIDE DEF c, v
  <2> QED
    BY <2>1, <2>2, <2>3, PartEdited
<1>12. draft' \in Catalogues
  BY <1>3, <1>4, <1>5, <1>6, <1>8, <1>9, <1>10, <1>11 DEF Edited
<1> QED
  BY <1>12, ManifestsAreCatalogues

\* Edits, deployments and requests keep the types.
LEMMA CatalogueTypedStep == CatalogueTypeOK /\ [CatalogueNext]_catalogueVars => CatalogueTypeOK'
<1> SUFFICES ASSUME CatalogueTypeOK, [CatalogueNext]_catalogueVars PROVE CatalogueTypeOK'
  OBVIOUS
<1> USE DEF CatalogueTypeOK
<1>1. CASE Edits
  <2>1. edits' \in 0..MaxEdits
    BY <1>1, CatalogueAssumption DEF Edits
  <2>2. draft' \in Manifests
    BY <1>1, EditedIsManifests DEF Edits
  <2> QED
    BY <1>1, <2>1, <2>2 DEF Edits
<1>2. CASE Deploys
  BY <1>2 DEF Deploys
<1>3. ASSUME NEW k \in Objects, NEW m \in Names, Asks(k, m) PROVE CatalogueTypeOK'
  BY <1>3 DEF Asks
<1>4. CASE FallsBack
  <2>1. PICK t \in Listed(live, request.at) : request' = [request EXCEPT !.at = t]
    BY <1>4 DEF FallsBack
  <2>2. t \in Names /\ request \in [key : Objects, at : Names]
    BY <1>4 DEF FallsBack, Listed
  <2>3. request' \in [key : Objects, at : Names]
    BY <2>1, <2>2
  <2> QED
    BY <1>4, <2>3 DEF FallsBack
<1>5. CASE IsServed
  BY <1>5 DEF IsServed
<1>6. CASE UNCHANGED catalogueVars
  BY <1>6 DEF catalogueVars
<1> QED
  BY <1>1, <1>2, <1>3, <1>4, <1>5, <1>6 DEF CatalogueNext

\* Whatever is edited and deployed stays a catalogue, of the names, keys and
\* backends there are, and a request is of a key and at a name of them (collect).
THEOREM CatalogueTypeCorrect == CatalogueSpec => []CatalogueTypeOK
<1>1. CatalogueInit => CatalogueTypeOK
  <2> SUFFICES ASSUME CatalogueInit PROVE CatalogueTypeOK
    OBVIOUS
  <2>1. PICK e \in Entries, scope \in [Objects -> SUBSET Names] :
          draft = [models |-> [m \in Names |-> {e}], keys |-> Objects, scope |-> scope,
                   open |-> {}, primaries |-> {}, fallbacks |-> {}, env |-> {},
                   rendered |-> Backends, context |-> [b \in Backends |-> e.tokens]]
    BY DEF CatalogueInit
  <2>2. /\ [m \in Names |-> {e}] \in ModelMaps /\ Objects \in KeySets /\ scope \in ScopeMaps
        /\ {} \in KeySets /\ {} \in NameSets /\ {} \in FallbackSets /\ Backends \in BackendSets
        /\ [b \in Backends |-> e.tokens] \in ContextMaps
    BY DEF ModelMaps, KeySets, ScopeMaps, NameSets, FallbackSets, BackendSets, ContextMaps
  <2>3. draft \in Catalogues
    BY <2>1, <2>2 DEF Catalogues
  <2>4. edits \in 0..MaxEdits
    BY CatalogueAssumption DEF CatalogueInit
  <2> QED
    BY <2>3, <2>4, ManifestsAreCatalogues DEF CatalogueInit, CatalogueTypeOK
<1> QED
  BY <1>1, CatalogueTypedStep, PTL DEF CatalogueSpec

-----------------------------------------------------------------------------
(***************************************************************************)
(* Knowledge. For every number of requests and documents: what is stored   *)
(* is whole because one commit replaces both tables; the type invariant is *)
(* what tells a stored document from a missing row.                        *)
(***************************************************************************)

WorkSteps == {"embed", "compare", "store", "replace", "commit"}
Work == [pc : WorkSteps, uri : Uris, content : Lengths]
Ingest == {NoIngest} \union Work

Tabled ==
  /\ web \in [Uris -> Lengths]
  /\ sources \in [Uris -> Lengths \union {0}]
  /\ pieces \in [Uris -> SUBSET Piece]
  /\ writing \in [Uris -> Ingests \union {"none"}]

\* Who is at work has a document and a content of it.
Requested ==
  /\ ingests \in [Ingests -> Ingest]
  /\ ingested \in 0..MaxIngests

KnowledgeInv == Tabled /\ Requested /\ StoredIsWhole

-----------------------------------------------------------------------------
\* The pieces of a content are pieces.
LEMMA PiecesAreTyped == \A c \in Lengths : PiecesOf(c) \in SUBSET Piece
  BY KnowledgeAssumption DEF PiecesOf, Piece, IngestStarts

\* Whoever is not idle is at work on a document.
LEMMA AtWork ==
  ASSUME Requested, NEW t \in Ingests, NEW pc \in WorkSteps, IngestAt(t, pc)
  PROVE  ingests[t] \in Work /\ ingests[t].uri \in Uris /\ ingests[t].content \in Lengths
<1>1. NoIngest.pc # pc
  BY DEF NoIngest, WorkSteps
<1>2. ingests[t] \in Work
  BY <1>1 DEF Requested, Ingest, IngestAt
<1> QED
  BY <1>2 DEF Work

\* An ingest that goes on keeps its document and content.
LEMMA GoesOn ==
  ASSUME Requested, NEW t \in Ingests, NEW pc \in WorkSteps, ingests[t] \in Work, Moves(t, pc),
         UNCHANGED ingested
  PROVE  Requested'
<1> DEFINE after == [ingests[t] EXCEPT !.pc = pc]
<1>1. after \in Work
  BY DEF Work
<1>2. ingests' = [ingests EXCEPT ![t] = after]
  BY DEF Moves
<1> HIDE DEF after
<1> QED
  BY <1>1, <1>2 DEF Requested, Ingest

\* An ingest that ends has none.
LEMMA IsOver ==
  ASSUME Requested, NEW t \in Ingests, IngestEnds(t), UNCHANGED ingested
  PROVE  Requested'
  BY DEF Requested, IngestEnds, Ingest

\* Every step leaves the ingests typed.
LEMMA RequestedStep == Tabled /\ Requested /\ [KnowledgeNext]_knowledgeVars => Requested'
<1> SUFFICES ASSUME Tabled, Requested, [KnowledgeNext]_knowledgeVars PROVE Requested'
  OBVIOUS
<1>1. ASSUME NEW t \in Ingests, NEW u \in Uris, Takes(t, u) PROVE Requested'
  <2> DEFINE begun == [pc |-> "embed", uri |-> u, content |-> web[u]]
  <2>1. begun \in Work
    BY DEF Tabled, Work, WorkSteps
  <2>2. ingests' = [ingests EXCEPT ![t] = begun]
    BY <1>1 DEF Takes
  <2>3. ingested' \in 0..MaxIngests
    BY <1>1, KnowledgeAssumption DEF Takes, Requested
  <2> HIDE DEF begun
  <2> QED
    BY <2>1, <2>2, <2>3 DEF Requested, Ingest
<1>2. ASSUME NEW t \in Ingests, Embeds(t) \/ Compares(t) \/ Stores(t) \/ Replaces(t) PROVE Requested'
  <2>1. IngestAt(t, "embed") \/ IngestAt(t, "compare") \/ IngestAt(t, "store") \/ IngestAt(t, "replace")
    BY <1>2 DEF Embeds, Compares, Stores, Replaces
  <2>2. ingests[t] \in Work
    BY <2>1, AtWork DEF WorkSteps
  <2>3. IngestEnds(t) \/ \E pc \in WorkSteps : Moves(t, pc)
    BY <1>2 DEF Embeds, Compares, Stores, Replaces, WorkSteps
  <2>4. UNCHANGED ingested
    BY <1>2 DEF Embeds, Compares, Stores, Replaces
  <2> QED
    BY <2>2, <2>3, <2>4, GoesOn, IsOver
<1>3. ASSUME NEW t \in Ingests, Commits(t) \/ IngestFails(t) PROVE Requested'
  BY <1>3, IsOver DEF Commits, IngestFails
<1>4. CASE \E u \in Uris : DocumentChanges(u)
  BY <1>4 DEF DocumentChanges, Requested
<1>5. CASE UNCHANGED knowledgeVars
  BY <1>5 DEF knowledgeVars, Requested
<1> QED
  BY <1>1, <1>2, <1>3, <1>4, <1>5 DEF KnowledgeNext

\* The tables hold contents and pieces.
LEMMA TabledStep == Tabled /\ Requested /\ [KnowledgeNext]_knowledgeVars => Tabled'
<1> SUFFICES ASSUME Tabled, Requested, [KnowledgeNext]_knowledgeVars PROVE Tabled'
  OBVIOUS
<1>1. ASSUME NEW t \in Ingests, Commits(t) PROVE Tabled'
  <2>1. IngestAt(t, "commit") /\ "commit" \in WorkSteps
    BY <1>1 DEF Commits, WorkSteps
  <2>2. ingests[t].content \in Lengths /\ PiecesOf(ingests[t].content) \in SUBSET Piece
    BY <2>1, AtWork, PiecesAreTyped
  <2> QED
    BY <1>1, <2>2 DEF Commits, Tabled
<1>2. ASSUME NEW u \in Uris, DocumentChanges(u) PROVE Tabled'
  BY <1>2 DEF DocumentChanges, Tabled
<1>3. ASSUME NEW t \in Ingests, Stores(t) PROVE Tabled'
  BY <1>3 DEF Stores, Tabled
<1>4. ASSUME NEW t \in Ingests, IngestFails(t) PROVE Tabled'
  BY <1>4 DEF IngestFails, Tabled
<1>5. CASE UNCHANGED <<web, sources, pieces, writing>>
  BY <1>5 DEF Tabled
<1> QED
  BY <1>1, <1>2, <1>3, <1>4, <1>5 DEF KnowledgeNext, knowledgeVars, Takes, Embeds, Compares, Replaces

\* Only a commit writes the tables, and it writes both.
LEMMA WholeStep == KnowledgeInv /\ [KnowledgeNext]_knowledgeVars => StoredIsWhole'
<1> SUFFICES ASSUME KnowledgeInv, [KnowledgeNext]_knowledgeVars PROVE StoredIsWhole'
  OBVIOUS
<1>1. ASSUME NEW t \in Ingests, Commits(t) PROVE StoredIsWhole'
  <2> DEFINE u == ingests[t].uri
             c == ingests[t].content
  <2>1. u \in Uris /\ c \in Lengths /\ c # 0
    <3>1. IngestAt(t, "commit") /\ "commit" \in WorkSteps
      BY <1>1 DEF Commits, WorkSteps
    <3> QED
      BY <3>1, AtWork, KnowledgeAssumption DEF KnowledgeInv
  <2>2. sources'[u] = c /\ pieces'[u] = PiecesOf(c)
    BY <1>1, <2>1 DEF Commits, KnowledgeInv, Tabled
  <2>3. \A v \in Uris \ {u} : sources'[v] = sources[v] /\ pieces'[v] = pieces[v]
    BY <1>1 DEF Commits, KnowledgeInv, Tabled
  <2> QED
    BY <2>1, <2>2, <2>3 DEF KnowledgeInv, StoredIsWhole
<1>2. CASE UNCHANGED <<sources, pieces>>
  BY <1>2 DEF KnowledgeInv, StoredIsWhole
<1>3. (\A t \in Ingests : ~Commits(t)) => UNCHANGED <<sources, pieces>>
  BY DEF KnowledgeNext, knowledgeVars, Takes, Embeds, Compares, Stores, Replaces,
         IngestFails, DocumentChanges
<1> QED
  BY <1>1, <1>2, <1>3

\* The invariant of the service.
LEMMA KnowledgeInvariance == KnowledgeSpec => []KnowledgeInv
<1>1. KnowledgeInit => KnowledgeInv
  BY KnowledgeAssumption DEF KnowledgeInit, KnowledgeInv, Tabled, Requested, Ingest, StoredIsWhole
<1>2. KnowledgeInv /\ [KnowledgeNext]_knowledgeVars => KnowledgeInv'
  BY TabledStep, RequestedStep, WholeStep DEF KnowledgeInv
<1> QED
  BY <1>1, <1>2, PTL DEF KnowledgeSpec

\* The knowledge service never holds a fingerprint without all the pieces of the
\* content it is of, whatever requests run at once and wherever they fail.
THEOREM StoredIsWholeHolds == KnowledgeSpec => []StoredIsWhole
<1>1. KnowledgeInv => StoredIsWhole
  BY DEF KnowledgeInv
<1> QED
  BY <1>1, KnowledgeInvariance, PTL

\* The tables hold documents and pieces of them, and a request at work has a
\* document and a content of it (ingest), however many run at once.
THEOREM KnowledgeTypeCorrect == KnowledgeSpec => []KnowledgeTypeOK
<1>1. KnowledgeInv => KnowledgeTypeOK
  BY DEF KnowledgeInv, Tabled, Requested, KnowledgeTypeOK, Ingest, Work, WorkSteps
<1> QED
  BY <1>1, KnowledgeInvariance, PTL

-----------------------------------------------------------------------------
(***************************************************************************)
(* Bundle. Every write to the agent's home is looked at: but for the       *)
(* agent's own, each finds the place empty.                                *)
(***************************************************************************)

\* Every unit has a place in the home.
Housed == DOMAIN home = Units

\* Only the agent, or a copy where there was nothing, changes a unit.
LEMMA UnitKept ==
  ASSUME Housed, [BundleNext]_bundleVars
  PROVE  /\ Housed'
         /\ \A u \in Units : home'[u] # home[u] => home[u] = ABSENT \/ agentActs' = agentActs + 1
<1>1. ASSUME UNCHANGED home PROVE Housed' /\ \A u \in Units : home'[u] = home[u]
  BY <1>1 DEF Housed
<1>2. CASE UNCHANGED home
  BY <1>1, <1>2
<1>3. ASSUME NEW u \in Units, SeedUnit(u), home[u] = ABSENT, Copies(u)
      PROVE  Housed' /\ \A v \in Units : home'[v] # home[v] => home[v] = ABSENT
  <2>1. PICK n : home' = [home EXCEPT ![u] = n]
    BY <1>3 DEF Copies
  <2> QED
    BY <1>3, <2>1 DEF Housed
<1>4. ASSUME NEW u \in Units, SeedUnit(u), home[u] # ABSENT
      PROVE  UNCHANGED home
  BY <1>4 DEF SeedUnit
<1>5. CASE \E u \in Units : SeedUnit(u)
  BY <1>1, <1>3, <1>4, <1>5 DEF SeedUnit
<1>6. CASE \E u \in Units : AgentActs(u)
  BY <1>6 DEF AgentActs, Housed
<1>7. EditTree \/ Generate \/ Publish \/ PodStarts \/ SyncBundle \/ Finish \/ PodDies \/ UNCHANGED bundleVars
        => UNCHANGED home
  BY DEF EditTree, Generate, Publish, PodStarts, SyncBundle, Finish, PodDies, bundleVars
<1> QED
  BY <1>2, <1>5, <1>6, <1>7 DEF BundleNext

\* What the agent wrote in its home is changed by the agent alone: the sync at the
\* start of the pod copies a unit only where there is none (sync_bundle's comparison
\* with what it copied before).
THEOREM AgentOwnsHolds == BundleSpec => AgentOwns
<1>1. BundleInit => Housed
  BY DEF BundleInit, Housed
<1>2. Housed /\ [BundleNext]_bundleVars => Housed'
  BY UnitKept
<1>3. ASSUME Housed, [BundleNext]_bundleVars
      PROVE  [\A u \in Units : home[u] = OWN /\ home'[u] # OWN => agentActs' = agentActs + 1]_bundleVars
  <2>1. OWN # ABSENT
    BY DEF OWN, ABSENT
  <2>2. \A u \in Units : home'[u] # home[u] => home[u] = ABSENT \/ agentActs' = agentActs + 1
    BY <1>3, UnitKept
  <2> QED
    BY <2>1, <2>2
<1> QED
  BY <1>1, <1>2, <1>3, PTL DEF BundleSpec, AgentOwns

\* The repository, the pod, the home and the agent keep the types.
LEMMA BundleTypedStep == BundleTypeOK /\ [BundleNext]_bundleVars => BundleTypeOK'
<1> SUFFICES ASSUME BundleTypeOK, [BundleNext]_bundleVars PROVE BundleTypeOK'
  OBVIOUS
<1> USE BundleAssumption DEF BundleTypeOK, repoVars
<1>1. bundleFaults < MaxBundleFaults /\ bundleFaults' = bundleFaults + 1 => bundleFaults' \in 0..MaxBundleFaults
  OBVIOUS
<1>2. CASE UNCHANGED bundleVars
  BY <1>2 DEF bundleVars
<1>3. CASE EditTree
  <2>1. tree' \in 0..MaxTreeEdits
    BY <1>3 DEF EditTree
  <2> QED
    BY <1>3, <2>1 DEF EditTree
<1>4. CASE Generate
  BY <1>4 DEF Generate
<1>5. CASE Publish
  BY <1>5 DEF Publish
<1>6. CASE PodStarts
  BY <1>6 DEF PodStarts
<1>7. CASE SyncBundle
  BY <1>7 DEF SyncBundle
<1>8. ASSUME NEW u \in Units, SeedUnit(u) PROVE BundleTypeOK'
  <2>1. Seed(published.bundle) \in 0..(2 * MaxTreeEdits + 1) /\ Part(published.bundle) \in 0..(2 * MaxTreeEdits + 1)
    BY DEF Seed, Part
  <2>2. CASE Copies(u)
    BY <1>1, <1>8, <2>1, <2>2 DEF SeedUnit, Copies
  <2>3. CASE UNCHANGED <<home, cfgPc, bundleFaults>>
    BY <1>8, <2>3 DEF SeedUnit
  <2> QED
    BY <1>8, <2>2, <2>3 DEF SeedUnit
<1>9. CASE Finish
  BY <1>9 DEF Finish
<1>10. CASE PodDies
  BY <1>1, <1>10 DEF PodDies
<1>11. ASSUME NEW u \in Units, AgentActs(u) PROVE BundleTypeOK'
  <2>1. OWN \in 0..(2 * MaxTreeEdits + 1) /\ ABSENT \in 0..(2 * MaxTreeEdits + 1)
    BY DEF OWN, ABSENT
  <2>2. agentActs' \in 0..MaxAgentActs
    BY <1>11 DEF AgentActs
  <2>3. home' \in [Units -> 0..(2 * MaxTreeEdits + 1)]
    BY <1>11, <2>1 DEF AgentActs
  <2> QED
    BY <1>11, <2>2, <2>3 DEF AgentActs
<1> QED
  BY <1>2, <1>3, <1>4, <1>5, <1>6, <1>7, <1>8, <1>9, <1>10, <1>11 DEF BundleNext

\* What the home holds of a unit is of a version that was published, the agent's,
\* or nothing, through any number of versions, crashes and edits (sync_bundle).
THEOREM BundleTypeCorrect == BundleSpec => []BundleTypeOK
<1>1. BundleInit => BundleTypeOK
  BY BundleAssumption DEF BundleInit, BundleTypeOK, ABSENT
<1> QED
  BY <1>1, BundleTypedStep, PTL DEF BundleSpec

-----------------------------------------------------------------------------
(***************************************************************************)
(* Bootstrap. A stage of the script that was left was completed, whatever  *)
(* is added or fails meanwhile; the charts come after all of them.         *)
(***************************************************************************)

\* What the stages before have applied, and what the loop under way has.
Applied ==
  /\ stage = "namespaces" => Namespaces \ left \subseteq cluster
  /\ stage \in {"secrets", "crds", "charts"} => Namespaces \subseteq cluster
  /\ stage = "secrets" => files \ left \subseteq cluster
  /\ stage \in {"crds", "charts"} => files \subseteq cluster
  /\ files \subseteq Secrets

\* A stage that has nothing to do with the files or the cluster.
LEMMA AppliedStep == Applied /\ [BootNext]_bootVars => Applied'
<1> SUFFICES ASSUME Applied, [BootNext]_bootVars PROVE Applied'
  OBVIOUS
<1>1. CASE UNCHANGED bootVars
  BY <1>1 DEF bootVars, Applied
<1>2. CASE NodesChange
  BY <1>2 DEF NodesChange, Applied
<1>3. CASE AddsFile
  BY <1>3 DEF AddsFile, Applied
<1>4. CASE StartsScript
  BY <1>4 DEF StartsScript, Applied
<1>5. ASSUME BootEnds("failed") \/ BootEnds("congrats"), UNCHANGED files PROVE Applied'
  BY <1>5 DEF BootEnds, Applied
<1>6. CASE BootInterrupted
  BY <1>5, <1>6 DEF BootInterrupted
<1>7. CASE Checks
  BY <1>5, <1>7 DEF Checks, Errors, Applied
<1>8. CASE Waits
  BY <1>8 DEF Waits, Applied
<1>9. ASSUME NEW n \in Namespaces, AppliesNamespace(n) PROVE Applied'
  <2>1. stage = "namespaces" /\ UNCHANGED files
    BY <1>9 DEF AppliesNamespace
  <2>2. CASE cluster' = cluster \union {n} /\ left' = left \ {n} /\ UNCHANGED stage
    BY <2>1, <2>2 DEF Applied
  <2> QED
    BY <1>5, <1>9, <2>1, <2>2 DEF AppliesNamespace, Errors
<1>10. ASSUME NEW s \in Secrets, AppliesSecret(s) PROVE Applied'
  <2>1. stage = "secrets" /\ UNCHANGED files
    BY <1>10 DEF AppliesSecret
  <2>2. CASE /\ cluster' = (IF s \in files THEN cluster \union {s} ELSE cluster)
             /\ left' = left \ {s} /\ UNCHANGED stage
    BY <2>1, <2>2 DEF Applied
  <2> QED
    BY <1>5, <1>10, <2>1, <2>2 DEF AppliesSecret, Errors
<1>11. CASE LoopEnds
  BY <1>11 DEF LoopEnds, Applied
<1>12. CASE AppliesCrds
  BY <1>12 DEF AppliesCrds, Fatal, Applied
<1>13. CASE SyncsCharts
  BY <1>5, <1>13 DEF SyncsCharts, Errors
<1> QED
  BY <1>1, <1>2, <1>3, <1>4, <1>6, <1>7, <1>8, <1>9, <1>10, <1>11, <1>12, <1>13 DEF BootNext

\* The script congratulates after the charts only when every namespace and every
\* secret it has a file for is applied (bootstrap-apps.sh, whose stages follow each
\* other and end the script when one fails).
THEOREM ChartsComeLastHolds == BootSpec => ChartsComeLast
<1>1. BootInit => Applied
  BY DEF BootInit, Applied
<1>2. Applied /\ [BootNext]_bootVars =>
        [stage = "charts" /\ bootStatus' = "congrats" => Namespaces \union files \subseteq cluster]_bootVars
  BY DEF Applied
<1> QED
  BY <1>1, <1>2, AppliedStep, PTL DEF BootSpec, ChartsComeLast

\* A step of the script and of the world keeps the types of both.
LEMMA BootTypedStep == BootTypeOK /\ [BootNext]_bootVars => BootTypeOK'
<1> SUFFICES ASSUME BootTypeOK, [BootNext]_bootVars PROVE BootTypeOK'
  OBVIOUS
<1> USE DEF BootTypeOK
<1>1. Fault => bootFaults' \in 0..MaxBootFaults
  BY BootstrapAssumption DEF Fault
<1>2. \A how \in {"failed", "congrats"} : BootEnds(how) =>
        stage' = "down" /\ left' = {} /\ bootStatus' \in {"failed", "congrats"}
  BY DEF BootEnds
<1>3. CASE UNCHANGED bootVars
  BY <1>3 DEF bootVars
<1>4. CASE NodesChange
  BY <1>4 DEF NodesChange
<1>5. CASE AddsFile
  BY <1>5 DEF AddsFile
<1>6. CASE StartsScript
  <2>1. runs' \in 0..MaxRuns
    BY <1>6, BootstrapAssumption DEF StartsScript
  <2> QED
    BY <1>6, <2>1 DEF StartsScript
<1>7. CASE BootInterrupted
  <2>1. bootFaults' \in 0..MaxBootFaults
    BY <1>7, BootstrapAssumption DEF BootInterrupted
  <2> QED
    BY <1>2, <1>7, <2>1 DEF BootInterrupted
<1>8. CASE Checks
  BY <1>1, <1>2, <1>8 DEF Checks, Errors
<1>9. CASE Waits
  BY <1>9 DEF Waits
<1>10. ASSUME NEW n \in Namespaces, AppliesNamespace(n) PROVE BootTypeOK'
  BY <1>1, <1>2, <1>10 DEF AppliesNamespace, Errors
<1>11. ASSUME NEW s \in Secrets, AppliesSecret(s) PROVE BootTypeOK'
  BY <1>1, <1>2, <1>11 DEF AppliesSecret, Errors
<1>12. CASE LoopEnds
  BY <1>12 DEF LoopEnds
<1>13. CASE AppliesCrds
  BY <1>1, <1>13 DEF AppliesCrds, Fatal
<1>14. CASE SyncsCharts
  BY <1>1, <1>2, <1>14 DEF SyncsCharts, Errors
<1> QED
  BY <1>3, <1>4, <1>5, <1>6, <1>7, <1>8, <1>9, <1>10, <1>11, <1>12, <1>13, <1>14 DEF BootNext

\* The script is at one of its stages, has applied what there is to apply, and is
\* past a part of its loop, whatever fails (bootstrap-apps.sh).
THEOREM BootTypeCorrect == BootSpec => []BootTypeOK
<1>1. BootInit => BootTypeOK
  BY BootstrapAssumption DEF BootInit, BootTypeOK
<1> QED
  BY <1>1, BootTypedStep, PTL DEF BootSpec

-----------------------------------------------------------------------------
(***************************************************************************)
(* RoomLayout. While no request failed and nobody else changed the rooms,  *)
(* each part of the layout that the run is past is in place, and so are    *)
(* the rooms, accounts and messages of the part under way that the run is  *)
(* past. That the levels asked for fit those of the accounts is what the   *)
(* server's answer depends on.                                             *)
(***************************************************************************)

PowerLevels == [users : [Users -> Int], rest : BOOLEAN]
Welcome == {Owner} \union Untouchable \union Bots

LevelsFit(users) ==
  /\ users[Owner] = 100 /\ users[GatewayBot] = 100
  /\ \A u \in Bots : users[u] # Unlisted
  /\ \A u \in Dropped : users[u] = Unlisted

\* The run is past the i-th part.
Over(i) == at = 0 \/ i < at

LayoutTyped == at \in 0..7 /\ fits \subseteq Parts /\ levels \in PowerLevels /\ wanted \in PowerLevels

\* What a run of which no request failed has done so far.
DoneSoFar ==
  /\ \A i \in 1..7 : Order[i] \in Parts /\ Over(i) => Order[i] \in fits
  /\ Over(5) => LevelsFit(levels.users)
  /\ at = 5 /\ doing = "write" => LevelsFit(wanted.users)
  /\ at = 6 /\ doing = "kick" => members \ seen \subseteq Welcome
  /\ Over(6) => members \subseteq Welcome

SoFar == LayoutTyped /\ (clean => DoneSoFar)

\* The parts of the layout, in their order.
LEMMA OrderIs ==
  /\ Len(Order) = 7
  /\ Order[1] = "name" /\ Order[2] = "topic" /\ Order[3] = "alias" /\ Order[4] = "canonical alias"
  /\ Order[5] = "levels" /\ Order[6] = "members" /\ Order[7] = "child"
BY DEF Order

\* Where the run is says which part is under way.
LEMMA Places ==
  ASSUME LayoutTyped, NEW which, NEW what, On(which, what)
  PROVE  /\ at \in 1..7 /\ Order[at] = which /\ doing = what
         /\ which = "levels" <=> at = 5
         /\ which = "members" <=> at = 6
<1>1. at \in 1..7
  BY DEF LayoutTyped, On
<1>2. at = 1 \/ at = 2 \/ at = 3 \/ at = 4 \/ at = 5 \/ at = 6 \/ at = 7
  BY <1>1
<1> QED
  BY <1>1, <1>2, OrderIs DEF On

\* On to the next part: the one that was under way is over.
LEMMA Advances ==
  ASSUME at \in 1..7, Next1
  PROVE  at' \in 0..7 /\ doing' = "read" /\ \A i \in 1..7 : Over(i)' => Over(i) \/ i = at
<1>1. CASE at = 7
  <2>1. at' = 0 /\ doing' = "read"
    BY <1>1, OrderIs DEF Next1
  <2>2. \A i \in 1..7 : i < 7 \/ i = 7
    OBVIOUS
  <2> QED
    BY <1>1, <2>1, <2>2 DEF Over
<1>2. CASE at # 7
  <2>1. at' = at + 1 /\ doing' = "read"
    BY <1>2, OrderIs DEF Next1
  <2> QED
    BY <1>2, <2>1 DEF Over
<1> QED
  BY <1>1, <1>2

\* A request that failed, or another's change, ends the claim.
LEMMA Unclean ==
  ASSUME at' \in 0..7, fits' \subseteq Parts, levels' \in PowerLevels, wanted' \in PowerLevels, clean' = FALSE
  PROVE  SoFar'
BY DEF SoFar, LayoutTyped

\* The levels that the script asks for are the ones that fit.
LEMMA DesiredFits ==
  ASSUME NEW read \in PowerLevels
  PROVE  /\ Desired(read.users) \in [Users -> Int] /\ LevelsFit(Desired(read.users))
         /\ [read EXCEPT !.users = Desired(read.users)] \in PowerLevels
         /\ [read EXCEPT !.users = Desired(read.users)].users = Desired(read.users)
<1>1. read.users \in [Users -> Int]
  BY DEF PowerLevels
<1>2. Desired(read.users) \in [Users -> Int]
  BY <1>1 DEF Desired, Unlisted
<1>3. LevelsFit(Desired(read.users))
  <2>1. /\ Owner \in Users /\ GatewayBot \in Users /\ Bots \subseteq Users /\ Dropped \subseteq Users
        /\ \A u \in Dropped : u \notin Bots /\ u # Owner /\ u # GatewayBot
    BY LayoutAssumption
  <2>2. Desired(read.users)[Owner] = 100 /\ Desired(read.users)[GatewayBot] = 100
    BY <2>1 DEF Desired
  <2>3. \A u \in Bots : Desired(read.users)[u] # Unlisted
    BY <1>1, <2>1 DEF Desired, Unlisted
  <2>4. \A u \in Dropped : Desired(read.users)[u] = Unlisted
    BY <2>1 DEF Desired
  <2> QED
    BY <2>2, <2>3, <2>4 DEF LevelsFit
<1> DEFINE d == Desired(read.users)
<1> HIDE DEF d
<1>4. [read EXCEPT !.users = d] = [users |-> d, rest |-> read.rest]
  BY DEF PowerLevels
<1> QED
  BY <1>2, <1>3, <1>4 DEF PowerLevels, d

\* A part that is read and written at once.
LEMMA PartKeeps ==
  ASSUME SoFar, NEW p \in Parts, ReadsPart(p) \/ WritesPart(p)
  PROVE  SoFar'
<1>1. at \in 0..7 /\ levels \in PowerLevels /\ wanted \in PowerLevels /\ UNCHANGED <<levels, members, wanted, seen>>
      /\ fits \subseteq Parts /\ fits' \subseteq Parts
  BY DEF SoFar, LayoutTyped, ReadsPart, WritesPart, roomState
<1>2. at \in 1..7 /\ Order[at] = p /\ at # 5 /\ at # 6
  BY Places DEF SoFar, ReadsPart, WritesPart, Parts
<1>3. ASSUME p \in fits', Next1, fits \subseteq fits', fits' \subseteq Parts, clean' = clean PROVE SoFar'
  <2>1. at' \in 0..7 /\ doing' = "read" /\ \A i \in 1..7 : Over(i)' => Over(i) \/ i = at
    BY <1>2, <1>3, Advances
  <2>2. ASSUME clean PROVE DoneSoFar'
    <3>1. DoneSoFar
      BY <2>2 DEF SoFar
    <3>2. Over(5)' => Over(5)
      BY <1>2, <2>1
    <3>3. Over(6)' => Over(6)
      BY <1>2, <2>1
    <3>4. \A i \in 1..7 : Order[i] \in Parts /\ Over(i)' => Order[i] \in fits'
      BY <1>2, <1>3, <2>1, <3>1 DEF DoneSoFar
    <3> QED
      BY <1>1, <2>1, <3>1, <3>2, <3>3, <3>4 DEF DoneSoFar
  <2> QED
    BY <1>1, <1>3, <2>1, <2>2 DEF SoFar, LayoutTyped
<1>4. ASSUME LayoutAnswers, doing' = "write", UNCHANGED <<at, fits>> PROVE SoFar'
  BY <1>1, <1>2, <1>4 DEF LayoutAnswers, SoFar, LayoutTyped, DoneSoFar, Over
<1>5. ASSUME Fails, at' \in 0..7, fits' \subseteq Parts PROVE SoFar'
  BY <1>1, <1>5, Unclean DEF Fails
<1>6. CASE ReadsPart(p)
  BY <1>1, <1>2, <1>3, <1>4, <1>5, <1>6 DEF ReadsPart, LayoutAnswers, roomState
<1>7. CASE WritesPart(p)
  <2>1. at' \in 0..7 /\ Next1
    BY <1>2, <1>7, Advances DEF WritesPart
  <2> QED
    BY <1>1, <1>3, <1>5, <1>7, <2>1 DEF WritesPart, LayoutAnswers
<1> QED
  BY <1>6, <1>7

\* The levels: read, and written when they differ.
LEMMA LevelsKeep ==
  ASSUME SoFar, ReadsLevels \/ WritesLevels
  PROVE  SoFar'
<1>1. LayoutTyped /\ UNCHANGED <<fits, members, seen>> /\ Untold \in PowerLevels
  BY DEF SoFar, ReadsLevels, WritesLevels, roomState, Untold, PowerLevels, Unlisted
<1>2. at = 5
  BY Places DEF SoFar, ReadsLevels, WritesLevels
<1>3. Order[5] = "levels" /\ ~("levels" \in Parts)
  BY OrderIs DEF Parts
<1>4. ASSUME Next1, LevelsFit(levels'.users), clean' = clean, levels' \in PowerLevels, wanted' \in PowerLevels
      PROVE  SoFar'
  <2>1. at' \in 0..7 /\ doing' = "read" /\ \A i \in 1..7 : Over(i)' => Over(i) \/ i = at
    BY <1>2, <1>4, Advances
  <2>2. ASSUME clean PROVE DoneSoFar'
    <3>1. DoneSoFar
      BY <2>2 DEF SoFar
    <3>2. Over(6)' => Over(6)
      BY <1>2, <2>1
    <3>3. \A i \in 1..7 : Order[i] \in Parts /\ Over(i)' => Order[i] \in fits'
      BY <1>1, <1>2, <1>3, <2>1, <3>1 DEF DoneSoFar
    <3> QED
      BY <1>1, <1>4, <2>1, <3>1, <3>2, <3>3 DEF DoneSoFar
  <2> QED
    BY <1>1, <1>4, <2>1, <2>2 DEF SoFar, LayoutTyped
<1>5. CASE WritesLevels
  <2>1. Next1 /\ doing = "write" /\ wanted' = wanted
    BY <1>5 DEF WritesLevels, On
  <2>2. CASE levels' = wanted /\ LayoutAnswers
    <3>1. CASE clean
      <4>1. LevelsFit(wanted.users)
        BY <1>2, <2>1, <3>1 DEF SoFar, DoneSoFar
      <4> QED
        BY <1>1, <1>4, <2>1, <2>2, <4>1 DEF LayoutAnswers, LayoutTyped
    <3>2. CASE ~clean
      <4>1. at' \in 0..7
        BY <1>2, <2>1, Advances
      <4> QED
        BY <1>1, <2>1, <2>2, <3>2, <4>1 DEF LayoutAnswers, LayoutTyped, SoFar
    <3> QED
      BY <3>1, <3>2
  <2>3. CASE Fails /\ UNCHANGED levels
    <3>1. at' \in 0..7
      BY <1>2, <2>1, Advances
    <3> QED
      BY <1>1, <2>1, <2>3, <3>1, Unclean DEF Fails, LayoutTyped
  <2> QED
    BY <1>5, <2>2, <2>3 DEF WritesLevels
<1>6. CASE ReadsLevels
  <2>1. levels' = levels
    BY <1>6 DEF ReadsLevels, roomState
  <2>2. PICK told \in BOOLEAN : \E read :
          /\ read = IF told THEN levels ELSE Untold
          /\ IF told THEN LayoutAnswers ELSE Fails
          /\ wanted' = [read EXCEPT !.users = Desired(read.users)]
          /\ IF wanted'.users = read.users THEN Next1 ELSE doing' = "write" /\ UNCHANGED at
    BY <1>6 DEF ReadsLevels
  <2>3. PICK read :
          /\ read = IF told THEN levels ELSE Untold
          /\ IF told THEN LayoutAnswers ELSE Fails
          /\ wanted' = [read EXCEPT !.users = Desired(read.users)]
          /\ IF wanted'.users = read.users THEN Next1 ELSE doing' = "write" /\ UNCHANGED at
    BY <2>2
  <2>4. read \in PowerLevels
    BY <1>1, <2>3 DEF LayoutTyped
  <2>5. wanted' \in PowerLevels /\ wanted'.users = Desired(read.users) /\ LevelsFit(wanted'.users)
    BY <2>3, <2>4, DesiredFits
  <2>6. at' \in 0..7
    BY <1>2, <2>3, Advances
  <2>7. CASE ~told
    BY <1>1, <2>1, <2>3, <2>5, <2>6, <2>7, Unclean DEF Fails, LayoutTyped
  <2>8. CASE told
    <3>1. read = levels /\ clean' = clean
      BY <2>3, <2>8 DEF LayoutAnswers
    <3>2. CASE wanted'.users = read.users
      BY <1>1, <1>4, <2>1, <2>3, <2>5, <3>1, <3>2 DEF LayoutTyped
    <3>3. CASE wanted'.users # read.users
      <4>1. doing' = "write" /\ at' = at
        BY <2>3, <3>3
      <4>2. clean => DoneSoFar'
        BY <1>1, <1>2, <2>1, <2>5, <4>1 DEF SoFar, DoneSoFar, Over
      <4> QED
        BY <1>1, <2>1, <2>5, <2>6, <3>1, <4>2 DEF SoFar, LayoutTyped
    <3> QED
      BY <3>2, <3>3
  <2> QED
    BY <2>7, <2>8
<1> QED
  BY <1>5, <1>6

\* The members: read, invited, and the accounts that are not of the room removed.
LEMMA MembersKeep ==
  ASSUME SoFar, ReadsMembers \/ Invites \/ \E u \in Users : Kicks(u)
  PROVE  SoFar'
<1>1. LayoutTyped /\ UNCHANGED <<fits, levels, wanted>>
  BY DEF SoFar, ReadsMembers, Invites, Kicks, roomState
<1>2. at = 6
  BY Places DEF SoFar, ReadsMembers, Invites, Kicks
<1>3. Order[6] = "members" /\ ~("members" \in Parts)
  BY OrderIs DEF Parts
<1>4. ASSUME Fails, at' \in 0..7 PROVE SoFar'
  BY <1>1, <1>4, Unclean DEF Fails, LayoutTyped
<1>5. ASSUME at' = at, LayoutAnswers, doing' = "kick", clean => members' \ seen' \subseteq Welcome
      PROVE  SoFar'
  BY <1>1, <1>2, <1>5 DEF SoFar, LayoutTyped, DoneSoFar, Over, LayoutAnswers
<1>6. CASE ReadsMembers
  <2>1. at' = at /\ doing' = "kick" /\ members' = members
    BY <1>6 DEF ReadsMembers, roomState
  <2> QED
    BY <1>1, <1>4, <1>5, <1>6, <2>1 DEF ReadsMembers, LayoutTyped
<1>7. ASSUME NEW u \in Users, Kicks(u) PROVE SoFar'
  <2>1. at' = at /\ doing' = doing /\ doing = "kick" /\ seen' = seen \ {u}
    BY <1>7 DEF Kicks, On
  <2>2. clean => members \ seen \subseteq Welcome
    BY <1>2, <2>1 DEF SoFar, DoneSoFar
  <2> QED
    BY <1>1, <1>4, <1>5, <1>7, <2>1, <2>2 DEF Kicks, LayoutTyped
<1>8. CASE Invites
  <2>1. doing = "kick" /\ Strangers = {} /\ Next1 /\ seen' = seen
    BY <1>8 DEF Invites, On
  <2>2. at' \in 0..7 /\ doing' = "read" /\ \A i \in 1..7 : Over(i)' => Over(i) \/ i = at
    BY <1>2, <2>1, Advances
  <2>3. CASE Fails
    BY <1>4, <2>2, <2>3
  <2>4. CASE \E joined \in SUBSET (Bots \ seen) : members' = members \union joined /\ LayoutAnswers
    <3>1. members' \subseteq members \union Bots /\ clean' = clean
      BY <2>4 DEF LayoutAnswers
    <3>2. ASSUME clean PROVE DoneSoFar'
      <4>1. DoneSoFar
        BY <3>2 DEF SoFar
      <4>2. members' \subseteq Welcome
        BY <1>2, <2>1, <3>1, <4>1 DEF DoneSoFar, Strangers, Welcome
      <4>3. \A i \in 1..7 : Order[i] \in Parts /\ Over(i)' => Order[i] \in fits'
        BY <1>1, <1>2, <1>3, <2>2, <4>1 DEF DoneSoFar
      <4>4. Over(5)
        BY <1>2 DEF Over
      <4> QED
        BY <1>1, <2>2, <4>1, <4>2, <4>3, <4>4 DEF DoneSoFar
    <3> QED
      BY <1>1, <2>2, <3>1, <3>2 DEF SoFar, LayoutTyped
  <2> QED
    BY <1>8, <2>3, <2>4 DEF Invites
<1> QED
  BY <1>6, <1>7, <1>8

\* Every step of the run, and of whoever else changes the room.
LEMMA SoFarStep == SoFar /\ [LayoutNext]_layoutVars => SoFar'
<1> SUFFICES ASSUME SoFar, [LayoutNext]_layoutVars PROVE SoFar'
  OBVIOUS
<1>1. LayoutTyped /\ Untold \in PowerLevels
  BY DEF SoFar, Untold, PowerLevels, Unlisted
<1>2. CASE UNCHANGED layoutVars
  BY <1>2 DEF layoutVars, roomState, SoFar, LayoutTyped, DoneSoFar, Over
<1>3. CASE Limited
  BY <1>3 DEF Limited, roomState, SoFar, LayoutTyped, DoneSoFar, Over
<1>4. CASE StartsRun
  <2>1. at' = 1 /\ doing' = "read" /\ fits' = fits /\ levels' = levels /\ wanted' = Untold
    BY <1>4 DEF StartsRun, roomState
  <2>2. DoneSoFar'
    BY <2>1 DEF DoneSoFar, Over
  <2> QED
    BY <1>1, <2>1, <2>2 DEF SoFar, LayoutTyped
<1>5. CASE LayoutInterrupted
  <2>1. at' = 0 /\ clean' = FALSE /\ UNCHANGED <<fits, levels, wanted>>
    BY <1>5 DEF LayoutInterrupted, Fails, roomState
  <2>2. at' \in 0..7 /\ fits' \subseteq Parts /\ levels' \in PowerLevels /\ wanted' \in PowerLevels
    BY <1>1, <2>1 DEF LayoutTyped
  <2> QED
    BY <2>1, <2>2, Unclean
<1>6. CASE RoomChanges
  <2>1. clean' = FALSE /\ at' = at /\ wanted' = wanted
    BY <1>6 DEF RoomChanges
  <2>2. levels' \in PowerLevels
    <3>1. CASE levels' = levels
      BY <1>1, <3>1 DEF LayoutTyped
    <3>2. CASE \E u \in Users \ Untouchable, n \in {50, 100} : levels' = [levels EXCEPT !.users[u] = n]
      BY <1>1, <3>2 DEF LayoutTyped, PowerLevels
    <3> QED
      BY <1>6, <3>1, <3>2 DEF RoomChanges
  <2>3. fits' \subseteq Parts
    BY <1>1, <1>6 DEF RoomChanges, LayoutTyped
  <2> QED
    BY <1>1, <2>1, <2>2, <2>3, Unclean DEF LayoutTyped
<1> QED
  BY <1>2, <1>3, <1>4, <1>5, <1>6, PartKeeps, LevelsKeep, MembersKeep DEF LayoutNext

\* A run of which no request failed, and during which nobody else changed the room,
\* ends with every part in place, the levels that fit and no account that is to be
\* removed (apply_room and its parts).
THEOREM CleanRunLaysOutHolds == LayoutSpec => []CleanRunLaysOut
<1>1. LayoutInit => SoFar
  BY DEF LayoutInit, SoFar, LayoutTyped, PowerLevels, Untold, Unlisted
<1>2. SoFar => CleanRunLaysOut
  <2> SUFFICES ASSUME SoFar, at = 0, clean PROVE CleanRunLaysOut
    BY DEF CleanRunLaysOut
  <2>1. DoneSoFar /\ fits \subseteq Parts
    BY DEF SoFar, LayoutTyped
  <2>2. LevelsFit(levels.users) /\ members \subseteq Welcome
    BY <2>1 DEF DoneSoFar, Over
  <2>3. \A i \in 1..7 : Order[i] \in Parts => Order[i] \in fits
    BY <2>1 DEF DoneSoFar, Over
  <2>4. "name" \in fits /\ "topic" \in fits /\ "alias" \in fits /\ "canonical alias" \in fits /\ "child" \in fits
    <3>1. 1 \in 1..7 /\ 2 \in 1..7 /\ 3 \in 1..7 /\ 4 \in 1..7 /\ 7 \in 1..7
      OBVIOUS
    <3>2. Order[1] \in Parts /\ Order[2] \in Parts /\ Order[3] \in Parts /\ Order[4] \in Parts /\ Order[7] \in Parts
      BY OrderIs DEF Parts
    <3> QED
      BY <2>3, <3>1, <3>2, OrderIs
  <2>5. fits = Parts
    BY <2>1, <2>4 DEF Parts
  <2> QED
    BY <2>2, <2>5 DEF CleanRunLaysOut, LevelsFit, Welcome
<1> QED
  BY <1>1, <1>2, SoFarStep, PTL DEF LayoutSpec

\* The levels the script asks for are levels.
LEMMA DesiredIsLevels ==
  ASSUME NEW read \in Levels
  PROVE  [read EXCEPT !.users = Desired(read.users)] \in Levels
<1>1. Desired(read.users) \in [Users -> {Unlisted, 0, 50, 100}]
  BY DEF Levels, Desired
<1> DEFINE d == Desired(read.users)
<1> HIDE DEF d
<1>2. d \in [Users -> {Unlisted, 0, 50, 100}]
  BY <1>1 DEF d
<1>3. [read EXCEPT !.users = d] \in Levels
  BY <1>2 DEF Levels
<1> QED
  BY <1>3 DEF d

\* A level that somebody is given is one.
LEMMA GivenIsLevels ==
  ASSUME NEW u \in Users, NEW n \in {50, 100}, levels \in Levels
  PROVE  [levels EXCEPT !.users[u] = n] \in Levels
<1> DEFINE d == [levels.users EXCEPT ![u] = n]
<1>1. d \in [Users -> {Unlisted, 0, 50, 100}]
  BY DEF Levels
<1> HIDE DEF d
<1>2. [levels EXCEPT !.users = d] \in Levels
  BY <1>1 DEF Levels
<1> QED
  BY <1>2 DEF d

\* The bounds are numbers.
LEMMA LayoutBounds ==
  /\ Attempts \in Nat /\ Attempts >= 1
  /\ MaxLayoutRuns \in Nat /\ MaxLayoutFaults \in Nat /\ MaxChanges \in Nat
  BY LayoutAssumption

\* There are seven parts.
LEMMA OrderLength == Len(Order) = 7
  BY DEF Order

\* Where every run and request begins.
LEMMA LayoutZeros == 0 \in 0..(Attempts - 1) /\ 0 \in 0..Len(Order) /\ 1 \in 0..Len(Order)
  BY LayoutBounds, OrderLength

\* Requests, runs and the members keep the types.
LEMMA LayoutTypedStep == LayoutTypeOK /\ [LayoutNext]_layoutVars => LayoutTypeOK'
<1> SUFFICES ASSUME LayoutTypeOK, [LayoutNext]_layoutVars PROVE LayoutTypeOK'
  OBVIOUS
<1>1. LayoutAnswers => limited' \in 0..(Attempts - 1) /\ UNCHANGED <<clean, layoutRuns, layoutFaults, changes>>
  BY LayoutZeros DEF LayoutAnswers, bounds
<1>2. Fails => /\ limited' \in 0..(Attempts - 1) /\ clean' \in BOOLEAN
               /\ layoutFaults' \in 0..MaxLayoutFaults /\ UNCHANGED <<layoutRuns, changes>>
  <2>1. layoutFaults \in 0..MaxLayoutFaults
    BY DEF LayoutTypeOK
  <2>2. Fails => layoutFaults' \in 0..MaxLayoutFaults
    BY <2>1, LayoutBounds DEF Fails
  <2> QED
    BY <2>2, LayoutZeros DEF Fails
<1>3. Next1 => at' \in 0..Len(Order) /\ doing' = "read"
  <2>1. at \in 0..Len(Order)
    BY DEF LayoutTypeOK
  <2> QED
    BY <2>1, OrderLength DEF Next1
<1>4. Untold \in Levels
  BY DEF Untold, Levels
<1> USE DEF LayoutTypeOK, roomState
<1>6. CASE UNCHANGED layoutVars
  BY <1>6 DEF layoutVars, bounds
<1>7. CASE StartsRun
  <2>1. layoutRuns' \in 0..MaxLayoutRuns
    BY <1>7, LayoutBounds DEF StartsRun
  <2> QED
    BY <1>4, <1>7, <2>1, LayoutZeros DEF StartsRun
<1>8. CASE Limited
  <2>1. layoutFaults' \in 0..MaxLayoutFaults /\ limited' \in 0..(Attempts - 1)
    BY <1>8, LayoutBounds DEF Limited
  <2> QED
    BY <1>8, <2>1 DEF Limited
<1>9. ASSUME NEW p \in Parts, ReadsPart(p) PROVE LayoutTypeOK'
  BY <1>1, <1>2, <1>3, <1>9 DEF ReadsPart
<1>10. ASSUME NEW p \in Parts, WritesPart(p) PROVE LayoutTypeOK'
  BY <1>1, <1>2, <1>3, <1>10 DEF WritesPart
<1>11. CASE ReadsLevels
  <2>1. PICK told \in BOOLEAN : \E read :
          /\ read = IF told THEN levels ELSE Untold
          /\ IF told THEN LayoutAnswers ELSE Fails
          /\ wanted' = [read EXCEPT !.users = Desired(read.users)]
          /\ IF wanted'.users = read.users THEN Next1 ELSE doing' = "write" /\ UNCHANGED at
    BY <1>11 DEF ReadsLevels
  <2>2. wanted' \in Levels
    BY <1>4, <2>1, DesiredIsLevels
  <2>3. at' \in 0..Len(Order) /\ doing' \in {"read", "write", "kick"}
    BY <1>3, <2>1
  <2>4. LayoutAnswers \/ Fails
    BY <2>1
  <2> QED
    BY <1>1, <1>2, <1>11, <2>2, <2>3, <2>4 DEF ReadsLevels
<1>12. CASE WritesLevels
  BY <1>1, <1>2, <1>3, <1>12 DEF WritesLevels
<1>13. CASE ReadsMembers
  BY <1>1, <1>2, <1>13 DEF ReadsMembers
<1>14. ASSUME NEW u \in Users, Kicks(u) PROVE LayoutTypeOK'
  BY <1>1, <1>2, <1>14 DEF Kicks
<1>15. CASE Invites
  <2>1. members' \subseteq Users
    BY <1>15, LayoutAssumption DEF Invites
  <2> QED
    BY <1>1, <1>2, <1>3, <1>15, <2>1 DEF Invites
<1>16. CASE LayoutInterrupted
  BY <1>2, <1>16, LayoutZeros DEF LayoutInterrupted
<1>17. CASE RoomChanges
  <2>1. changes' \in 0..MaxChanges
    BY <1>17, LayoutBounds DEF RoomChanges
  <2>2. levels' \in Levels
    <3>1. levels \in Levels
      OBVIOUS
    <3>2. levels' = levels \/ \E u \in Users, n \in {50, 100} : levels' = [levels EXCEPT !.users[u] = n]
      BY <1>17 DEF RoomChanges
    <3> HIDE DEF LayoutTypeOK
    <3>3. CASE levels' # levels
      <4>1. PICK u \in Users, n \in {50, 100} : levels' = [levels EXCEPT !.users[u] = n]
        BY <3>2, <3>3
      <4>2. [levels EXCEPT !.users[u] = n] \in Levels
        BY <3>1, GivenIsLevels
      <4> QED
        BY <4>1, <4>2
    <3> QED
      BY <3>1, <3>3
  <2> QED
    BY <1>17, <2>1, <2>2 DEF RoomChanges
<1> QED
  BY <1>6, <1>7, <1>8, <1>9, <1>10, <1>11, <1>12, <1>13, <1>14, <1>15, <1>16, <1>17 DEF LayoutNext

\* The run is at a part of the layout, asks for levels an account may have, and gives
\* a limited request up after its attempts (call, reconcile_room).
THEOREM LayoutTypeCorrect == LayoutSpec => []LayoutTypeOK
<1>1. LayoutInit => LayoutTypeOK
  <2>1. 0 \in 0..(Attempts - 1) /\ 0 \in 0..MaxLayoutRuns /\ 0 \in 0..MaxLayoutFaults /\ 0 \in 0..MaxChanges
    BY LayoutBounds, LayoutZeros
  <2>2. 0 \in 0..Len(Order)
    BY LayoutZeros
  <2>3. Untold \in Levels /\ [users |-> [u \in Users |-> IF u \in Untouchable THEN Unlisted ELSE 50], rest |-> TRUE] \in Levels
    BY DEF Levels, Untold
  <2> QED
    BY <2>1, <2>2, <2>3 DEF LayoutInit, LayoutTypeOK
<1> QED
  BY <1>1, LayoutTypedStep, PTL DEF LayoutSpec

-----------------------------------------------------------------------------
(***************************************************************************)
(* Dashboard. The panels placed keep out of the line under way: those      *)
(* before it end above it, and those in it end where the next one begins.  *)
(***************************************************************************)

Place == [x : Nat, y : Nat, w : Nat \ {0}, h : Nat]

\* What is placed ends above the line under way, or is a chart on it, to the left.
OnGrid(g, isRow, x, y, height) ==
  /\ Bottom(g) <= y + height
  /\ Bottom(g) <= y \/ (g.y = y /\ g.x + g.w <= x /\ ~isRow)

IsRow(i) == panels[i].type = "row"

Laid ==
  /\ panels \in Seq(PanelSizes)
  /\ placed \in Seq(Place) /\ Len(placed) <= Len(panels)
  /\ gridX \in Nat /\ gridY \in Nat /\ line_h \in Nat
  /\ \A i \in DOMAIN placed : OnGrid(placed[i], IsRow(i), gridX, gridY, line_h)

\* One more panel that keeps its distance from the others.
LEMMA OneMore ==
  ASSUME Laid, BoardIsReadable, Len(placed) < Len(panels), NEW g \in Place, placed' = Append(placed, g),
         UNCHANGED panels, gridX' \in Nat, gridY' \in Nat, line_h' \in Nat,
         g.x + g.w <= Columns,
         OnGrid(g, IsRow(Len(placed) + 1), gridX', gridY', line_h'),
         \A f \in Place : \A isRow \in BOOLEAN : OnGrid(f, isRow, gridX, gridY, line_h) =>
           /\ OnGrid(f, isRow, gridX', gridY', line_h')
           /\ Apart(f, g) /\ (isRow \/ IsRow(Len(placed) + 1) => Bottom(f) <= g.y)
  PROVE  Laid' /\ BoardIsReadable'
<1> DEFINE n == Len(placed) + 1
<1>1. /\ Len(placed) \in Nat /\ DOMAIN placed = 1..Len(placed) /\ Len(panels) \in Nat
      /\ \A i \in DOMAIN placed : placed[i] \in Place /\ IsRow(i) \in BOOLEAN
  BY DEF Laid, IsRow
<1>2. /\ placed' \in Seq(Place) /\ Len(placed') = n /\ DOMAIN placed' = 1..n
      /\ placed'[n] = g /\ \A i \in DOMAIN placed : placed'[i] = placed[i]
  BY <1>1 DEF Laid
<1>3. \A i : IsRow(i)' = IsRow(i)
  BY DEF IsRow
<1>4. \A i \in DOMAIN placed :
        /\ OnGrid(placed[i], IsRow(i), gridX', gridY', line_h')
        /\ Apart(placed[i], g) /\ (IsRow(i) \/ IsRow(n) => Bottom(placed[i]) <= g.y)
  BY <1>1 DEF Laid
<1>5. \A i \in 1..n : i \in DOMAIN placed \/ i = n
  BY <1>1
<1>6. \A i \in DOMAIN placed' : OnGrid(placed'[i], IsRow(i), gridX', gridY', line_h')
  BY <1>2, <1>4, <1>5
<1>7. Laid'
  BY <1>1, <1>2, <1>3, <1>6 DEF Laid
<1>8. \A i \in DOMAIN placed' : placed'[i].x + placed'[i].w <= Columns
  BY <1>2, <1>5 DEF BoardIsReadable
<1>9. ASSUME NEW i \in DOMAIN placed', NEW j \in DOMAIN placed', i < j
      PROVE  /\ Apart(placed'[i], placed'[j])
             /\ IsRow(i) \/ IsRow(j) => Bottom(placed'[i]) <= placed'[j].y
  <2>1. i \in DOMAIN placed
    BY <1>1, <1>2, <1>9
  <2>2. CASE j = n
    BY <1>2, <1>4, <2>1, <2>2
  <2>3. CASE j \in DOMAIN placed
    BY <1>2, <1>9, <2>1, <2>3 DEF BoardIsReadable, IsRow
  <2> QED
    BY <1>2, <1>5, <2>2, <2>3
<1>10. BoardIsReadable'
  BY <1>8, <1>9 DEF BoardIsReadable, IsRow
<1> QED
  BY <1>7, <1>10

\* A row is placed below everything.
LEMMA RowStep ==
  ASSUME Laid, BoardIsReadable, PlaceRow
  PROVE  Laid' /\ BoardIsReadable'
<1> DEFINE g == [x |-> 0, y |-> gridY + line_h, w |-> Columns, h |-> 1]
<1>1. /\ Len(placed) < Len(panels) /\ placed' = Append(placed, g) /\ UNCHANGED panels
      /\ gridY' = gridY + line_h + 1 /\ gridX' = 0 /\ line_h' = 0
      /\ gridX \in Nat /\ gridY \in Nat /\ line_h \in Nat
  BY DEF PlaceRow, Laid
<1>2. g \in Place /\ Bottom(g) = gridY' /\ g.x + g.w = Columns /\ g.y = gridY + line_h
  BY <1>1 DEF Place, Bottom, Columns
<1> HIDE DEF g
<1>3. g.x + g.w <= Columns
  BY <1>2 DEF Columns
<1>4. OnGrid(g, IsRow(Len(placed) + 1), gridX', gridY', line_h')
  BY <1>1, <1>2 DEF OnGrid
<1>5. ASSUME NEW f \in Place, NEW isRow \in BOOLEAN, OnGrid(f, isRow, gridX, gridY, line_h)
      PROVE  Bottom(f) <= g.y /\ OnGrid(f, isRow, gridX', gridY', line_h')
  <2>1. Bottom(f) \in Nat
    BY DEF Place, Bottom
  <2> QED
    BY <1>1, <1>2, <1>5, <2>1 DEF OnGrid
<1>6. \A f \in Place : \A isRow \in BOOLEAN : OnGrid(f, isRow, gridX, gridY, line_h) =>
           /\ OnGrid(f, isRow, gridX', gridY', line_h')
           /\ Apart(f, g) /\ (isRow \/ IsRow(Len(placed) + 1) => Bottom(f) <= g.y)
  BY <1>5 DEF Apart
<1> QED
  BY <1>1, <1>2, <1>3, <1>4, <1>6, OneMore

\* A chart is placed right of the line under way, or below it.
LEMMA PlacedAt ==
  ASSUME Laid, BoardIsReadable, Len(placed) < Len(panels), UNCHANGED panels, NextPanel.type # "row",
         NEW x \in Nat, NEW y \in Nat, NEW before \in Nat, PlaceAt(x, y, before),
         x + NextPanel.w <= Columns,
         \A f \in Place, isRow \in BOOLEAN :
           OnGrid(f, isRow, gridX, gridY, line_h) => OnGrid(f, isRow, x, y, before)
  PROVE  Laid' /\ BoardIsReadable'
<1> DEFINE p == NextPanel
           g == [x |-> x, y |-> y, w |-> p.w, h |-> p.h]
           height == Taller(before, p)
<1>1. p \in PanelSizes
  <2>1. Len(placed) + 1 \in 1..Len(panels) /\ panels \in Seq(PanelSizes)
    BY DEF Laid
  <2> QED
    BY <2>1 DEF NextPanel
<1>2. p.w \in Nat /\ 1 <= p.w /\ p.h \in Nat /\ 1 <= p.h
  <2>1. p.w \in 1..24 /\ p.h \in Nat \ {0}
    BY <1>1 DEF PanelSizes, Columns
  <2>2. \A n \in 1..24 : n \in Nat /\ 1 <= n
    OBVIOUS
  <2>3. \A n \in Nat \ {0} : n \in Nat /\ 1 <= n
    OBVIOUS
  <2> QED
    BY <2>1, <2>2, <2>3
<1>3. IsRow(Len(placed) + 1) = FALSE
  BY DEF IsRow, NextPanel
<1>4. height \in Nat /\ p.h <= height /\ before <= height
  BY <1>2 DEF Taller
<1>5. /\ placed' = Append(placed, g)
      /\ x + p.w >= 24 => gridX' = 0 /\ gridY' = y + height /\ line_h' = 0
      /\ ~(x + p.w >= 24) => gridX' = x + p.w /\ gridY' = y /\ line_h' = height
  BY DEF PlaceAt, Columns
<1> HIDE DEF p, height
<1>6. /\ g \in Place /\ Bottom(g) = y + p.h /\ g.x = x /\ g.y = y /\ g.w = p.w
  BY <1>2 DEF Place, Bottom
<1> HIDE DEF g
<1>7. gridX' \in Nat /\ gridY' \in Nat /\ line_h' \in Nat
  BY <1>2, <1>4, <1>5
<1>8. OnGrid(g, FALSE, gridX', gridY', line_h')
  <2>1. CASE x + p.w >= 24
    BY <1>2, <1>4, <1>5, <1>6, <2>1 DEF OnGrid
  <2>2. CASE ~(x + p.w >= 24)
    BY <1>2, <1>4, <1>5, <1>6, <2>2 DEF OnGrid
  <2> QED
    BY <2>1, <2>2
<1>9. ASSUME NEW f \in Place, NEW isRow \in BOOLEAN, OnGrid(f, isRow, x, y, before)
      PROVE  /\ OnGrid(f, isRow, gridX', gridY', line_h')
             /\ Apart(f, g) /\ (isRow => Bottom(f) <= g.y)
  <2>1. Bottom(f) \in Nat /\ f.x \in Nat /\ f.w \in Nat /\ f.y \in Nat
    BY DEF Place, Bottom
  <2>2. Apart(f, g) /\ (isRow => Bottom(f) <= g.y)
    BY <1>6, <1>9 DEF OnGrid, Apart
  <2>3. CASE x + p.w >= 24
    <3>1. gridX' = 0 /\ gridY' = y + height /\ line_h' = 0
      BY <1>5, <2>3
    <3>2. Bottom(f) <= y + before
      BY <1>9 DEF OnGrid
    <3>3. Bottom(f) <= gridY' /\ Bottom(f) <= gridY' + line_h'
      BY <1>4, <2>1, <3>1, <3>2
    <3> QED
      BY <2>2, <3>3 DEF OnGrid
  <2>4. CASE ~(x + p.w >= 24)
    <3>1. gridX' = x + p.w /\ gridY' = y /\ line_h' = height
      BY <1>5, <2>4
    <3>2. Bottom(f) <= y + before /\ (Bottom(f) <= y \/ (f.y = y /\ f.x + f.w <= x /\ ~isRow))
      BY <1>9 DEF OnGrid
    <3>3. Bottom(f) <= gridY' + line_h'
      BY <1>4, <2>1, <3>1, <3>2
    <3>4. Bottom(f) <= gridY' \/ (f.y = gridY' /\ f.x + f.w <= gridX' /\ ~isRow)
      BY <1>2, <2>1, <3>1, <3>2
    <3> QED
      BY <2>2, <3>3, <3>4 DEF OnGrid
  <2> QED
    BY <2>3, <2>4
<1>10. g.x + g.w <= Columns
  BY <1>6 DEF p
<1>11. \A f \in Place : \A isRow \in BOOLEAN : OnGrid(f, isRow, gridX, gridY, line_h) =>
           /\ OnGrid(f, isRow, gridX', gridY', line_h')
           /\ Apart(f, g) /\ (isRow \/ IsRow(Len(placed) + 1) => Bottom(f) <= g.y)
  BY <1>3, <1>9
<1> QED
  BY <1>3, <1>5, <1>6, <1>7, <1>8, <1>10, <1>11, OneMore

\* A chart is placed in the line under way or, when it is too wide, in the next.
LEMMA ChartStep ==
  ASSUME Laid, BoardIsReadable, PlaceChart
  PROVE  Laid' /\ BoardIsReadable'
<1>1. /\ Len(placed) < Len(panels) /\ UNCHANGED panels /\ NextPanel.type # "row"
      /\ gridX \in Nat /\ gridY \in Nat /\ line_h \in Nat
  BY DEF PlaceChart, Laid
<1>2. NextPanel \in PanelSizes
  <2>1. Len(placed) + 1 \in 1..Len(panels) /\ panels \in Seq(PanelSizes)
    BY <1>1 DEF Laid
  <2> QED
    BY <2>1 DEF NextPanel
<1>3. NextPanel.w \in Nat /\ 1 <= NextPanel.w /\ NextPanel.w <= 24
  BY <1>2 DEF PanelSizes, Columns
<1>4. CASE gridX > 0 /\ gridX + NextPanel.w > Columns
  <2>1. PlaceAt(0, gridY + line_h, 0)
    BY <1>4 DEF PlaceChart
  <2>2. ASSUME NEW f \in Place, NEW isRow \in BOOLEAN, OnGrid(f, isRow, gridX, gridY, line_h)
        PROVE  OnGrid(f, isRow, 0, gridY + line_h, 0)
    <3>1. Bottom(f) \in Nat
      BY DEF Place, Bottom
    <3> QED
      BY <1>1, <2>2, <3>1 DEF OnGrid
  <2>3. 0 + NextPanel.w <= Columns /\ gridY + line_h \in Nat
    BY <1>1, <1>3 DEF Columns
  <2> QED
    BY <1>1, <2>1, <2>2, <2>3, PlacedAt
<1>5. CASE ~(gridX > 0 /\ gridX + NextPanel.w > Columns)
  <2>1. PlaceAt(gridX, gridY, line_h)
    BY <1>5 DEF PlaceChart
  <2>2. gridX + NextPanel.w <= Columns
    BY <1>1, <1>3, <1>5 DEF Columns
  <2> QED
    BY <1>1, <2>1, <2>2, PlacedAt
<1> QED
  BY <1>4, <1>5

\* Panels of the dashboard overlap nowhere, stay within the columns, and are below
\* the rows before them (grid and its two counters).
THEOREM BoardIsReadableHolds == DashSpec => []BoardIsReadable
<1>1. DashInit => Laid /\ BoardIsReadable
  BY BoardsAssumption DEF DashInit, Laid, BoardIsReadable
<1>2. Laid /\ BoardIsReadable /\ [DashNext]_dashVars => Laid' /\ BoardIsReadable'
  <2> SUFFICES ASSUME Laid, BoardIsReadable, [DashNext]_dashVars PROVE Laid' /\ BoardIsReadable'
    OBVIOUS
  <2>1. CASE UNCHANGED dashVars
    BY <2>1 DEF dashVars, Laid, BoardIsReadable, OnGrid, IsRow
  <2> QED
    BY <2>1, RowStep, ChartStep DEF DashNext
<1> QED
  BY <1>1, <1>2, PTL DEF DashSpec

\* A place on the grid.
Cell == [x : 0..(Columns - 1), y : Nat, w : 1..Columns, h : Nat \ {0}]

\* Where a panel of the list is put, in a column of the grid.
LEMMA CellTyped ==
  ASSUME NEW x \in 0..(Columns - 1), NEW y \in Nat, NEW p \in PanelSizes
  PROVE  [x |-> x, y |-> y, w |-> p.w, h |-> p.h] \in Cell
BY DEF Cell, PanelSizes

\* Every panel that is put keeps the types.
LEMMA DashTypedStep == DashTypeOK /\ [DashNext]_dashVars => DashTypeOK'
<1> SUFFICES ASSUME DashTypeOK, [DashNext]_dashVars PROVE DashTypeOK'
  OBVIOUS
<1>1. /\ panels \in Boards /\ panels \in Seq(PanelSizes) /\ placed \in Seq(Cell) /\ Len(placed) <= Len(panels)
      /\ gridX \in 0..(Columns - 1) /\ gridY \in Nat /\ line_h \in Nat
  BY BoardsAssumption DEF DashTypeOK, Cell
<1>2. ASSUME NEW g \in Cell, placed' = Append(placed, g), UNCHANGED panels, Len(placed) < Len(panels),
             gridX' \in 0..(Columns - 1), gridY' \in Nat, line_h' \in Nat
      PROVE  DashTypeOK'
  <2>1. placed' \in Seq(Cell) /\ Len(placed') <= Len(panels)
    BY <1>1, <1>2
  <2> QED
    BY <1>1, <1>2, <2>1 DEF DashTypeOK, Cell
<1>3. Len(placed) < Len(panels) => NextPanel \in PanelSizes
  <2>1. Len(placed) < Len(panels) => Len(placed) + 1 \in 1..Len(panels)
    BY <1>1
  <2> QED
    BY <1>1, <2>1 DEF NextPanel
<1>4. CASE UNCHANGED dashVars
  BY <1>4 DEF dashVars, DashTypeOK
<1>5. CASE PlaceRow
  <2> DEFINE g == [x |-> 0, y |-> gridY + line_h, w |-> Columns, h |-> 1]
  <2>1. g \in Cell /\ gridX' \in 0..(Columns - 1) /\ gridY' \in Nat /\ line_h' \in Nat
    BY <1>1, <1>5 DEF Cell, Columns, PlaceRow
  <2> QED
    BY <1>2, <1>5, <2>1 DEF PlaceRow
<1>6. ASSUME NEW x \in 0..(Columns - 1), NEW y \in Nat, NEW before \in Nat, PlaceAt(x, y, before),
             NextPanel \in PanelSizes, UNCHANGED panels, Len(placed) < Len(panels)
      PROVE  DashTypeOK'
  <2> DEFINE g == [x |-> x, y |-> y, w |-> NextPanel.w, h |-> NextPanel.h]
             height == Taller(before, NextPanel)
  <2>1. g \in Cell
    BY <1>6, CellTyped
  <2>2. NextPanel.w \in 1..24 /\ NextPanel.h \in Nat
    BY <1>6 DEF PanelSizes, Columns
  <2>3. height \in Nat
    BY <2>2 DEF Taller
  <2>4. /\ placed' = Append(placed, g)
        /\ x + NextPanel.w >= 24 => gridX' = 0 /\ gridY' = y + height /\ line_h' = 0
        /\ ~(x + NextPanel.w >= 24) => gridX' = x + NextPanel.w /\ gridY' = y /\ line_h' = height
    BY <1>6 DEF PlaceAt, Columns
  <2> HIDE DEF g, height
  <2>5. gridX' \in 0..(Columns - 1) /\ gridY' \in Nat /\ line_h' \in Nat
    <3>1. x \in 0..23 /\ y \in Nat
      BY <1>6 DEF Columns
    <3>2. CASE x + NextPanel.w >= 24
      <4>1. gridX' = 0 /\ gridY' = y + height /\ line_h' = 0
        BY <2>4, <3>2
      <4> QED
        BY <2>3, <3>1, <4>1 DEF Columns
    <3>3. CASE ~(x + NextPanel.w >= 24)
      <4>1. x + NextPanel.w \in 0..23
        BY <2>2, <3>1, <3>3
      <4>2. gridX' = x + NextPanel.w /\ gridY' = y /\ line_h' = height
        BY <2>4, <3>3
      <4> QED
        BY <2>3, <3>1, <4>1, <4>2 DEF Columns
    <3> QED
      BY <3>2, <3>3
  <2> QED
    BY <1>2, <1>6, <2>1, <2>4, <2>5
<1>7. CASE PlaceChart
  <2>1. 0 \in 0..(Columns - 1) /\ gridY + line_h \in Nat
    BY <1>1 DEF Columns
  <2> QED
    BY <1>1, <1>3, <1>6, <1>7, <2>1 DEF PlaceChart
<1> QED
  BY <1>4, <1>5, <1>7 DEF DashNext

\* Every panel begins in one of the 24 columns, and the line under way too (layout).
THEOREM DashTypeCorrect == DashSpec => []DashTypeOK
<1>1. DashInit => DashTypeOK
  <2>1. DashInit => panels \in Seq(PanelSizes)
    BY BoardsAssumption DEF DashInit
  <2> QED
    BY <2>1 DEF DashInit, DashTypeOK, Columns
<1> QED
  BY <1>1, DashTypedStep, PTL DEF DashSpec

-----------------------------------------------------------------------------
(***************************************************************************)
(* ScoutThreads. A closed thread has its transcript, for every number of   *)
(* scouts, faults and phases. What has to be carried from one pass to the  *)
(* next is that a thread with the first event of a transcript has a stored *)
(* transcript: so the pass that repeats the publishing finds it again.     *)
(***************************************************************************)

Traces == {"-", "note", "undecodable"}
ThreadRows == [root : BOOLEAN, queued : BOOLEAN, second : BOOLEAN, final : BOOLEAN, first : Traces]
PassSteps == {"idle", "poll", "status", "publish", "first", "second", "final", "link"}

ScoutTyped ==
  /\ thread \in [Positions -> ThreadRows]
  /\ transcript \in [Positions -> {"none", "named", "stored"}]
  /\ pass.pc \in {"first", "second", "final"} => pass.i \in Positions
  /\ pass.pc \in {"poll", "status", "publish"} => pass.i # 0
  /\ pass \in [pc : PassSteps, i : Nat, trace : Traces]

NoteIsStored == \A i \in Positions : thread[i].first = "note" => transcript[i] = "stored"

\* MayClose: the thread of i may be closed.
MayClose(i) == thread[i].first # "-" /\ (thread[i].first = "note" => thread[i].second)

\* The publishing in progress.
Publishing ==
  /\ pass.pc = "first" =>
       \/ pass.trace = "note" /\ transcript[pass.i] = "stored"
       \/ pass.trace = "undecodable" /\ thread[pass.i].first # "note"
  /\ pass.pc = "second" => thread[pass.i].first # "-"
  /\ pass.pc = "final" => MayClose(pass.i)

ScoutInv == ScoutTyped /\ NoteIsStored /\ Publishing /\ FinalClosesThread

-----------------------------------------------------------------------------
\* PassSteps that leave the threads and the publishing alone, or give it up.
LEMMA ThreadsUnchanged ==
  ASSUME ScoutInv, UNCHANGED <<thread, transcript>>,
         \/ pass' = pass
         \/ \E pc \in {"poll", "status", "publish"}, i \in Nat \ {0} : PassGoes(pc, i)
         \/ PassGoes("link", 0) \/ pass' = NoPass
  PROVE  ScoutInv'
<1>1. ScoutTyped'
  BY DEF ScoutInv, ScoutTyped, PassGoes, NoPass, PassSteps, Traces
<1>2. NoteIsStored' /\ FinalClosesThread'
  BY DEF ScoutInv, NoteIsStored, FinalClosesThread
<1>3. Publishing'
  BY DEF ScoutInv, Publishing, MayClose, PassGoes, NoPass
<1> QED
  BY <1>1, <1>2, <1>3 DEF ScoutInv

\* A row that is announced: its events are untouched.
LEMMA AnnounceKeeps ==
  ASSUME ScoutInv, Announce
  PROVE  ScoutInv'
<1> DEFINE n == (next + 1) \div 2
<1>1. UNCHANGED <<transcript, pass>>
  BY DEF Announce
<1>2. \A i \in Positions :
        /\ thread'[i] \in ThreadRows
        /\ thread'[i].first = thread[i].first /\ thread'[i].second = thread[i].second
        /\ thread'[i].final = thread[i].final
  <2>1. \/ thread' = [thread EXCEPT ![n].root = TRUE]
        \/ thread' = [thread EXCEPT ![n].queued = TRUE]
    BY DEF Announce
  <2> HIDE DEF n
  <2>2. \A i \in Positions : thread[i] \in ThreadRows
    BY DEF ScoutInv, ScoutTyped
  <2>3. CASE thread' = [thread EXCEPT ![n].root = TRUE]
    BY <2>2, <2>3 DEF ScoutInv, ScoutTyped, ThreadRows
  <2>4. CASE thread' = [thread EXCEPT ![n].queued = TRUE]
    BY <2>2, <2>4 DEF ScoutInv, ScoutTyped, ThreadRows
  <2> QED
    BY <2>1, <2>3, <2>4
<1>3. thread' \in [Positions -> ThreadRows]
  <2>1. DOMAIN thread' = Positions /\ thread' = [i \in Positions |-> thread'[i]]
    BY DEF Announce, ScoutInv, ScoutTyped
  <2> QED
    BY <2>1, <1>2
<1>4. ScoutTyped' /\ NoteIsStored' /\ FinalClosesThread'
  BY <1>1, <1>2, <1>3 DEF ScoutInv, ScoutTyped, NoteIsStored, FinalClosesThread
<1>5. Publishing'
  BY <1>1, <1>2 DEF ScoutInv, ScoutTyped, Publishing, MayClose
<1> QED
  BY <1>4, <1>5 DEF ScoutInv

\* A transcript only gets nearer to being stored.
LEMMA TranscriptKeeps ==
  ASSUME ScoutInv, NEW i \in Positions, TranscriptMoves(i)
  PROVE  ScoutInv'
<1>1. /\ UNCHANGED <<thread, pass>>
      /\ transcript' \in [Positions -> {"none", "named", "stored"}]
      /\ \A j \in Positions : transcript[j] = "stored" => transcript'[j] = "stored"
  BY DEF TranscriptMoves, ScoutInv, ScoutTyped, threadVars
<1>2. ScoutTyped' /\ NoteIsStored' /\ FinalClosesThread'
  BY <1>1 DEF ScoutInv, ScoutTyped, NoteIsStored, FinalClosesThread
<1>3. Publishing'
  BY <1>1 DEF ScoutInv, ScoutTyped, Publishing, MayClose
<1> QED
  BY <1>2, <1>3 DEF ScoutInv

\* The publishing of one scout begins: what it will post agrees with what an
\* earlier pass posted.
LEMMA PublishKeeps ==
  ASSUME ScoutInv, PublishEnded
  PROVE  ScoutInv'
<1>1. UNCHANGED <<thread, transcript>>
  BY DEF PublishEnded, threadVars
<1>2. CASE PassGoes("link", 0) \/ PassGoes("publish", pass.i + 1)
  BY <1>1, <1>2, ThreadsUnchanged DEF PublishEnded, ScoutInv, ScoutTyped
<1>3. CASE /\ pass.i \in Positions /\ transcript[pass.i] # "named"
           /\ pass' = [pc |-> "first", i |-> pass.i,
                       trace |-> IF transcript[pass.i] = "stored" THEN "note" ELSE "undecodable"]
  <2>1. ScoutTyped' /\ NoteIsStored' /\ FinalClosesThread'
    BY <1>1, <1>3 DEF ScoutInv, ScoutTyped, NoteIsStored, FinalClosesThread, PassSteps, Traces
  <2>2. Publishing'
    BY <1>1, <1>3 DEF ScoutInv, ScoutTyped, NoteIsStored, Publishing
  <2> QED
    BY <2>1, <2>2 DEF ScoutInv
<1>4. pass.i \in Nat \ {0} /\ (~(pass.i > Scouts) => pass.i \in Positions)
  BY ScoutAssumption DEF PublishEnded, ScoutInv, ScoutTyped, Positions
<1> QED
  BY <1>2, <1>3, <1>4 DEF PublishEnded

\* The three rows of a transcript in their order.
LEMMA TraceKeeps ==
  ASSUME ScoutInv, Trace
  PROVE  ScoutInv'
<1> DEFINE k == pass.i
<1>1. k \in Positions /\ thread[k] \in ThreadRows /\ UNCHANGED transcript
  BY DEF Trace, ScoutInv, ScoutTyped
<1>2. PICK row \in ThreadRows :
        /\ thread' = [thread EXCEPT ![k] = row]
        /\ \/ /\ pass.pc = "first"
              /\ row.first = (IF thread[k].first = "-" THEN pass.trace ELSE thread[k].first)
              /\ row.second = thread[k].second /\ row.final = thread[k].final
              /\ pass' = [pass EXCEPT !.pc = IF pass.trace = "note" THEN "second" ELSE "final"]
           \/ /\ pass.pc = "second"
              /\ row.first = thread[k].first /\ row.second = TRUE /\ row.final = thread[k].final
              /\ pass' = [pass EXCEPT !.pc = "final"]
           \/ /\ pass.pc = "final"
              /\ row.first = thread[k].first /\ row.second = thread[k].second /\ row.final = TRUE
              /\ pass' = [pc |-> "publish", i |-> k + 1, trace |-> "-"]
  <2>1. CASE pass.pc = "first"
    <3>1. pass.trace \in Traces
      BY <2>1 DEF ScoutInv, Publishing, Traces
    <3> DEFINE row == [thread[k] EXCEPT !.first = IF @ = "-" THEN pass.trace ELSE @]
    <3>2. /\ row \in ThreadRows
          /\ row.first = (IF thread[k].first = "-" THEN pass.trace ELSE thread[k].first)
          /\ row.second = thread[k].second /\ row.final = thread[k].final
      BY <1>1, <3>1 DEF ThreadRows
    <3>3. thread' = [thread EXCEPT ![k] = row]
      BY <2>1 DEF Trace
    <3>4. pass' = [pass EXCEPT !.pc = IF pass.trace = "note" THEN "second" ELSE "final"]
      BY <2>1 DEF Trace
    <3> QED
      BY <2>1, <3>2, <3>3, <3>4
  <2>2. CASE pass.pc = "second"
    <3> DEFINE row == [thread[k] EXCEPT !.second = TRUE]
    <3>1. /\ row \in ThreadRows /\ row.first = thread[k].first /\ row.second = TRUE
          /\ row.final = thread[k].final
      BY <1>1 DEF ThreadRows
    <3>2. thread' = [thread EXCEPT ![k] = row] /\ pass' = [pass EXCEPT !.pc = "final"]
      BY <2>2 DEF Trace
    <3> QED
      BY <2>2, <3>1, <3>2
  <2>3. CASE pass.pc = "final"
    <3> DEFINE row == [thread[k] EXCEPT !.final = TRUE]
    <3>1. /\ row \in ThreadRows /\ row.first = thread[k].first /\ row.second = thread[k].second
          /\ row.final = TRUE
      BY <1>1 DEF ThreadRows
    <3>2. /\ thread' = [thread EXCEPT ![k] = row]
          /\ pass' = [pc |-> "publish", i |-> k + 1, trace |-> "-"]
      BY <2>3 DEF Trace, PassGoes
    <3> QED
      BY <2>3, <3>1, <3>2
  <2> QED
    BY <2>1, <2>2, <2>3 DEF Trace
<1> HIDE DEF k
<1>3. \A i \in Positions : thread'[i] = IF i = k THEN row ELSE thread[i]
  BY <1>1, <1>2 DEF ScoutInv, ScoutTyped
<1>4. pass \in [pc : PassSteps, i : Nat, trace : Traces] /\ k \in Nat
  BY DEF ScoutInv, ScoutTyped, k
<1>5. ScoutTyped'
  <2>1. thread' \in [Positions -> ThreadRows]
    BY <1>1, <1>2 DEF ScoutInv, ScoutTyped
  <2>2. pass' \in [pc : PassSteps, i : Nat, trace : Traces]
    BY <1>2, <1>4 DEF PassSteps, Traces
  <2>3. /\ pass'.pc \in {"first", "second", "final"} => pass'.i = k
        /\ pass'.pc \in {"poll", "status", "publish"} => pass'.i # 0
    BY <1>2, <1>4 DEF k
  <2> QED
    BY <1>1, <2>1, <2>2, <2>3 DEF ScoutInv, ScoutTyped
<1>6. NoteIsStored'
  <2>1. row.first = "note" => transcript[k] = "stored"
    BY <1>1, <1>2 DEF ScoutInv, NoteIsStored, Publishing, k
  <2> QED
    BY <1>1, <1>3, <2>1 DEF ScoutInv, NoteIsStored
<1>7. FinalClosesThread'
  <2>1. row.final => row.first # "-" /\ (row.first = "note" => row.second)
    BY <1>1, <1>2 DEF ScoutInv, FinalClosesThread, Publishing, MayClose, k, ThreadRows
  <2> QED
    BY <1>3, <2>1 DEF ScoutInv, FinalClosesThread
<1>8. Publishing'
  BY <1>1, <1>2, <1>3, <1>4 DEF ScoutInv, Publishing, MayClose, k
<1> QED
  BY <1>5, <1>6, <1>7, <1>8 DEF ScoutInv

\* The other steps of a pass.
LEMMA PassKeeps ==
  ASSUME ScoutInv, BeginPass \/ PollTask \/ PostStatus \/ AnnounceLinks \/ CallOfForemanFails
  PROVE  ScoutInv'
<1>1. UNCHANGED <<thread, transcript>>
  BY DEF BeginPass, PollTask, PostStatus, AnnounceLinks, CallOfForemanFails, threadVars
<1>2. pass.pc \in {"poll", "status", "publish"} => pass.i \in Nat \ {0} /\ pass.i + 1 \in Nat \ {0}
  BY DEF ScoutInv, ScoutTyped
<1>3. \/ \E pc \in {"poll", "status", "publish"}, i \in Nat \ {0} : PassGoes(pc, i)
      \/ pass' = NoPass
  BY <1>2 DEF BeginPass, PollTask, PostStatus, AnnounceLinks, CallOfForemanFails
<1> QED
  BY <1>1, <1>3, ThreadsUnchanged

-----------------------------------------------------------------------------
\* The invariant of the threads.
LEMMA ScoutInvariance == ScoutSpec => []ScoutInv
<1>1. ScoutInit => ScoutInv
  <2> SUFFICES ASSUME ScoutInit PROVE ScoutInv
    OBVIOUS
  <2>1. ScoutTyped
    BY DEF ScoutInit, ScoutTyped, NoRows, NoPass, ThreadRows, Traces, PassSteps
  <2>2. NoteIsStored /\ Publishing /\ FinalClosesThread
    BY DEF ScoutInit, NoteIsStored, Publishing, FinalClosesThread, NoRows, NoPass
  <2> QED
    BY <2>1, <2>2 DEF ScoutInv
<1>2. ScoutInv /\ [ScoutNext]_scoutVars => ScoutInv'
  <2> SUFFICES ASSUME ScoutInv, [ScoutNext]_scoutVars PROVE ScoutInv'
    OBVIOUS
  <2>1. CASE \E i \in Positions, phase \in UnderWay \union Ended : TaskMoves(i, phase)
    BY <2>1, ThreadsUnchanged DEF TaskMoves, threadVars
  <2>2. CASE \E i \in Positions : TranscriptMoves(i)
    BY <2>2, TranscriptKeeps
  <2>3. CASE ResearchStops \/ Delegate \/ \E i \in Positions : RootIsSent(i)
    BY <2>3, ThreadsUnchanged DEF ResearchStops, Delegate, RootIsSent, threadVars
  <2>4. CASE Announce
    BY <2>4, AnnounceKeeps
  <2>5. CASE Reconciles \/ CallOfForemanFails
    BY <2>5, PassKeeps, PublishKeeps, TraceKeeps DEF Reconciles
  <2>6. CASE ScoutCrash
    BY <2>6, ThreadsUnchanged DEF ScoutCrash, threadVars
  <2>7. CASE UNCHANGED scoutVars
    BY <2>7, ThreadsUnchanged DEF scoutVars, threadVars
  <2> QED
    BY <2>1, <2>2, <2>3, <2>4, <2>5, <2>6, <2>7 DEF ScoutNext
<1> QED
  BY <1>1, <1>2, PTL DEF ScoutSpec

\* The owner who reads a closed thread has read the whole transcript, or that
\* there is none, whatever fails and whenever the gateway crashes.
THEOREM FinalClosesThreadHolds == ScoutSpec => []FinalClosesThread
<1>1. ScoutInv => FinalClosesThread
  BY DEF ScoutInv
<1> QED
  BY <1>1, ScoutInvariance, PTL

-----------------------------------------------------------------------------
(* The rest of the types: a pass is at a scout of the round, or behind the *)
(* last one.                                                               *)

ScoutPass == [pc : PassSteps, i : 0..(Scouts + 1), trace : Traces]

PassFits ==
  /\ pass \in ScoutPass
  /\ pass.pc \in {"status", "first", "second", "final"} => pass.i \in Positions
  /\ pass.pc \in {"poll", "publish"} => pass.i \in 1..(Scouts + 1)

ResearchTyped ==
  /\ task \in [Positions -> {"none"} \union Phases]
  /\ run \in [Positions -> Phases]
  /\ registered \in BOOLEAN /\ researching \in BOOLEAN
  /\ next \in 0..(2 * Scouts)
  /\ statuses \subseteq Positions \X Phases /\ shown \subseteq Positions
  /\ links \in BOOLEAN /\ scoutFaults \in 0..MaxScoutFaults

\* Where a pass may go.
LEMMA PassMoves ==
  ASSUME PassFits,
         \/ pass' = pass
         \/ pass' = NoPass \/ PassGoes("link", 0)
         \/ \E pc \in {"poll", "publish"}, i \in 1..(Scouts + 1) : PassGoes(pc, i)
         \/ \E i \in Positions : PassGoes("status", i)
         \/ \E i \in Positions, t \in Traces : pass' = [pc |-> "first", i |-> i, trace |-> t]
         \/ \E pc \in {"second", "final"} : pass' = [pass EXCEPT !.pc = pc] /\ pass.i \in Positions
  PROVE  PassFits'
<1>1. Positions \subseteq 0..(Scouts + 1) /\ 0 \in 0..(Scouts + 1) /\ 1..(Scouts + 1) \subseteq 0..(Scouts + 1)
  BY ScoutAssumption DEF Positions
<1>2. ASSUME NEW pc \in PassSteps, NEW i \in 0..(Scouts + 1), NEW t \in Traces,
             pass' = [pc |-> pc, i |-> i, trace |-> t],
             pc \in {"status", "first", "second", "final"} => i \in Positions,
             pc \in {"poll", "publish"} => i \in 1..(Scouts + 1)
      PROVE  PassFits'
  BY <1>2 DEF PassFits, ScoutPass
<1>3. CASE pass' = pass
  BY <1>3 DEF PassFits
<1>4. CASE pass' = NoPass \/ PassGoes("link", 0)
  BY <1>1, <1>2, <1>4 DEF NoPass, PassGoes, PassSteps, Traces
<1>5. ASSUME NEW pc \in {"poll", "publish"}, NEW i \in 1..(Scouts + 1), PassGoes(pc, i) PROVE PassFits'
  BY <1>1, <1>2, <1>5 DEF PassGoes, PassSteps, Traces
<1>6. ASSUME NEW i \in Positions, PassGoes("status", i) PROVE PassFits'
  BY <1>1, <1>2, <1>6 DEF PassGoes, PassSteps, Traces
<1>7. ASSUME NEW i \in Positions, NEW t \in Traces, pass' = [pc |-> "first", i |-> i, trace |-> t]
      PROVE  PassFits'
  BY <1>1, <1>2, <1>7 DEF PassSteps
<1>8. ASSUME NEW pc \in {"second", "final"}, pass' = [pass EXCEPT !.pc = pc], pass.i \in Positions
      PROVE  PassFits'
  <2>1. pass' = [pc |-> pc, i |-> pass.i, trace |-> pass.trace] /\ pass.trace \in Traces
    BY <1>8 DEF PassFits, ScoutPass
  <2> QED
    BY <1>1, <1>2, <1>8, <2>1 DEF PassSteps
<1> QED
  BY <1>3, <1>4, <1>5, <1>6, <1>7, <1>8

\* Every step takes a pass where it may go.
LEMMA PassFitsStep == PassFits /\ [ScoutNext]_scoutVars => PassFits'
<1> SUFFICES ASSUME PassFits, [ScoutNext]_scoutVars PROVE PassFits'
  OBVIOUS
<1>1. 1 \in 1..(Scouts + 1) /\ Scouts \in Nat /\ \A i \in Positions : i + 1 \in 1..(Scouts + 1)
  BY ScoutAssumption DEF Positions
<1>2. \A i \in 1..(Scouts + 1) : i > Scouts \/ i \in Positions
  BY ScoutAssumption DEF Positions
<1>3. CASE UNCHANGED pass
  BY <1>3, PassMoves
<1>4. CASE BeginPass
  BY <1>1, <1>4, PassMoves DEF BeginPass
<1>5. CASE PollTask
  BY <1>1, <1>2, <1>5, PassMoves DEF PollTask, PassFits
<1>6. CASE PostStatus
  BY <1>1, <1>6, PassMoves DEF PostStatus, PassFits
<1>7. CASE PublishEnded
  <2>1. pass.i > Scouts \/ pass.i \in Positions
    BY <1>2, <1>7 DEF PublishEnded, PassFits
  <2>2. \/ PassGoes("link", 0)
        \/ PassGoes("publish", pass.i + 1) /\ pass.i \in Positions
        \/ pass.i \in Positions /\ \E t \in Traces : pass' = [pc |-> "first", i |-> pass.i, trace |-> t]
    BY <1>7, <2>1 DEF PublishEnded, Traces
  <2> QED
    BY <1>1, <2>2, PassMoves
<1>8. CASE Trace
  BY <1>1, <1>8, PassMoves DEF Trace, PassFits
<1>9. CASE AnnounceLinks
  BY <1>9, PassMoves DEF AnnounceLinks
<1>10. CASE CallOfForemanFails
  <2>1. \/ pass' = NoPass
        \/ PassGoes("publish", pass.i + 1) /\ pass.i \in 1..(Scouts + 1) /\ pass.i <= Scouts
    BY <1>10 DEF CallOfForemanFails, PassFits
  <2>2. \A i \in 1..(Scouts + 1) : i <= Scouts => i + 1 \in 1..(Scouts + 1)
    BY <1>1
  <2> QED
    BY <2>1, <2>2, PassMoves
<1>11. CASE ScoutCrash
  BY <1>11, PassMoves DEF ScoutCrash
<1> QED
  BY <1>3, <1>4, <1>5, <1>6, <1>7, <1>8, <1>9, <1>10, <1>11
     DEF ScoutNext, Reconciles, scoutVars, TaskMoves, TranscriptMoves, ResearchStops, RootIsSent,
         Delegate, Announce

\* The tasks, their rows and the announcements.
LEMMA ResearchTypedStep == ResearchTyped /\ PassFits /\ [ScoutNext]_scoutVars => ResearchTyped'
<1> SUFFICES ASSUME ResearchTyped, PassFits, [ScoutNext]_scoutVars PROVE ResearchTyped'
  OBVIOUS
<1>1. scoutFaults < MaxScoutFaults /\ scoutFaults' = scoutFaults + 1 => scoutFaults' \in 0..MaxScoutFaults
  BY ScoutAssumption DEF ResearchTyped
<1>2. CASE UNCHANGED scoutVars
  BY <1>2 DEF scoutVars, threadVars, ResearchTyped
<1>3. ASSUME NEW i \in Positions, NEW phase \in UnderWay \union Ended, TaskMoves(i, phase) PROVE ResearchTyped'
  BY <1>3 DEF TaskMoves, threadVars, ResearchTyped, Phases
<1>4. ASSUME NEW i \in Positions, TranscriptMoves(i) PROVE ResearchTyped'
  BY <1>4 DEF TranscriptMoves, threadVars, ResearchTyped
<1>5. CASE ResearchStops
  BY <1>5 DEF ResearchStops, threadVars, ResearchTyped
<1>6. ASSUME NEW i \in Positions, RootIsSent(i) PROVE ResearchTyped'
  BY <1>6 DEF RootIsSent, threadVars, ResearchTyped
<1>7. CASE Delegate
  <2>1. 1 \in 0..(2 * Scouts)
    BY ScoutAssumption
  <2> QED
    BY <1>7, <2>1 DEF Delegate, threadVars, ResearchTyped
<1>8. CASE Announce
  <2>1. next' \in 0..(2 * Scouts)
    BY <1>8, ScoutAssumption DEF Announce, ResearchTyped
  <2> QED
    BY <1>8, <2>1 DEF Announce, ResearchTyped
<1>9. CASE PollTask
  <2>1. UNCHANGED <<registered, researching, next, statuses, shown, links, scoutFaults>>
    BY <1>9 DEF PollTask, threadVars
  <2>2. CASE UNCHANGED <<task, run>>
    BY <2>1, <2>2 DEF ResearchTyped
  <2>3. CASE ~UNCHANGED <<task, run>>
    <3> DEFINE i == pass.i
               phase == IF task[i] = "none" THEN "Pending" ELSE task[i]
    <3>1. task' = [task EXCEPT ![i] = phase] /\ run' = [run EXCEPT ![i] = task'[i]] /\ ~(i > Scouts)
      BY <1>9, <2>3 DEF PollTask
    <3>2. i \in 1..(Scouts + 1) /\ i \in Positions
      BY <1>9, <3>1, ScoutAssumption DEF PollTask, PassFits, Positions
    <3> HIDE DEF i
    <3>3. phase \in Phases
      BY <3>2 DEF ResearchTyped, Phases
    <3> HIDE DEF phase
    <3>4. task'[i] = phase
      BY <3>1, <3>2 DEF ResearchTyped
    <3> QED
      BY <2>1, <3>1, <3>2, <3>3, <3>4 DEF ResearchTyped
  <2> QED
    BY <2>2, <2>3
<1>10. CASE PostStatus
  <2>1. pass.i \in Positions /\ run[pass.i] \in Phases
    BY <1>10 DEF PostStatus, PassFits, ResearchTyped
  <2> QED
    BY <1>10, <2>1 DEF PostStatus, ResearchTyped
<1>11. CASE AnnounceLinks
  BY <1>11 DEF AnnounceLinks, ResearchTyped
<1>12. CASE BeginPass \/ PublishEnded \/ Trace
  BY <1>12 DEF BeginPass, PublishEnded, Trace, threadVars, ResearchTyped
<1>13. CASE CallOfForemanFails
  BY <1>1, <1>13 DEF CallOfForemanFails, threadVars, ResearchTyped
<1>14. CASE ScoutCrash
  <2>1. 0 \in 0..(2 * Scouts)
    BY ScoutAssumption
  <2> QED
    BY <1>1, <1>14, <2>1 DEF ScoutCrash, threadVars, ResearchTyped
<1> QED
  BY <1>2, <1>3, <1>4, <1>5, <1>6, <1>7, <1>8, <1>9, <1>10, <1>11, <1>12, <1>13, <1>14
     DEF ScoutNext, Reconciles

\* The announcements and passes of a round are at one of its scouts, for every
\* number of them (_enqueue_research_threads, _publish_terminal_research).
THEOREM ScoutTypeCorrect == ScoutSpec => []ScoutTypeOK
<1>1. ScoutInit => PassFits /\ ResearchTyped
  <2> SUFFICES ASSUME ScoutInit PROVE PassFits /\ ResearchTyped
    OBVIOUS
  <2>1. 0 \in 0..(Scouts + 1) /\ 0 \in 0..(2 * Scouts) /\ 0 \in 0..MaxScoutFaults
    BY ScoutAssumption
  <2>2. PassFits
    BY <2>1 DEF ScoutInit, PassFits, ScoutPass, NoPass, PassSteps, Traces
  <2>3. ResearchTyped
    BY <2>1 DEF ScoutInit, ResearchTyped, Phases
  <2> QED
    BY <2>2, <2>3
<1>2. ScoutInv /\ PassFits /\ ResearchTyped => ScoutTypeOK
  BY DEF ScoutInv, ScoutTyped, PassFits, ResearchTyped, ScoutTypeOK, ThreadRows, ScoutPass,
         PassSteps, Traces
<1> QED
  BY <1>1, <1>2, ScoutInvariance, PassFitsStep, ResearchTypedStep, PTL DEF ScoutSpec


-----------------------------------------------------------------------------
(***************************************************************************)
(* All programs: what holds of each by itself holds of the one that the    *)
(* behaviours of MCPrograms are of, and of those that stay as they were.   *)
(***************************************************************************)

\* Whichever program runs, each of them takes the steps of its own specification
\* or none, so that every theorem about one of them is one about all together.
THEOREM ProgramsArePartsOf ==
  ProgramsSpec =>
    /\ ScoutSpec /\ CampSpec /\ ShardSpec /\ DownloadSpec /\ BundleSpec /\ KnowledgeSpec
    /\ CatalogueSpec /\ BootSpec /\ LayoutSpec /\ BenchSpec /\ DashSpec
<1>1. ProgramsInit =>
        /\ ScoutInit /\ CampInit /\ ShardInit /\ DownloadInit /\ BundleInit /\ KnowledgeInit
        /\ CatalogueInit /\ BootInit /\ LayoutInit /\ BenchInit /\ DashInit
  BY DEF ProgramsInit
<1>2. [ProgramsNext]_programsVars =>
        /\ [ScoutNext]_scoutVars /\ [CampNext]_campVars /\ [ShardNext]_shardVars
        /\ [DownloadNext]_downloadVars /\ [BundleNext]_bundleVars /\ [KnowledgeNext]_knowledgeVars
        /\ [CatalogueNext]_catalogueVars /\ [BootNext]_bootVars /\ [LayoutNext]_layoutVars
        /\ [BenchNext]_benchVars /\ [DashNext]_dashVars
  BY DEF ProgramsNext, programsVars
<1> QED
  BY <1>1, <1>2, PTL DEF ProgramsSpec, ScoutSpec, CampSpec, ShardSpec, DownloadSpec, BundleSpec,
     KnowledgeSpec, CatalogueSpec, BootSpec, LayoutSpec, BenchSpec, DashSpec

\* Every variable of the programs has a value the code can give it, for every
\* number of scouts, pods, files, requests, keys, runs, accounts and panels.
THEOREM ProgramsTypeCorrect == ProgramsSpec => []ProgramsTypeOK
<1>1. /\ ScoutTypeOK /\ CampTypeOK /\ ShardTypeOK /\ DownloadTypeOK /\ BundleTypeOK /\ KnowledgeTypeOK
      /\ CatalogueTypeOK /\ BootTypeOK /\ LayoutTypeOK /\ BenchTypeOK /\ DashTypeOK
      => ProgramsTypeOK
  BY DEF ProgramsTypeOK
<1> QED
  BY <1>1, ProgramsArePartsOf, ScoutTypeCorrect, CampTypeCorrect, ShardTypeCorrect, DownloadTypeCorrect,
     BundleTypeCorrect, KnowledgeTypeCorrect, CatalogueTypeCorrect, BootTypeCorrect, LayoutTypeCorrect,
     BenchTypeCorrect, DashTypeCorrect, PTL
=============================================================================

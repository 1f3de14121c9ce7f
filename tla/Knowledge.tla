------------------------------- MODULE Knowledge -------------------------------
(***************************************************************************)
(* The knowledge service: a document is cut into overlapping pieces, which *)
(* are embedded and stored with the fingerprint of the document; a search  *)
(* reads pieces with their source.  The nightly catalog and any client     *)
(* may store the same document at the same time.                           *)
(*                                                                         *)
(* External: PostgreSQL, of which what counts here is that a statement     *)
(* sees what is committed, and that a row written by a transaction that    *)
(* has not ended holds up another's write of it; the web; the embeddings.  *)
(***************************************************************************)
EXTENDS Naturals, FiniteSets

CONSTANTS
  Ingests,     \* requests and catalog runs that store documents
  Uris,        \* the documents
  Lengths,     \* the contents a document may have, each named by its length
  PieceSize,   \* size, in characters (4000)
  Overlap,     \* overlap (600)
  MaxIngests   \* bound: times a document is stored

ASSUME KnowledgeAssumption ==
  /\ Lengths \subseteq Nat \ {0} /\ MaxIngests \in Nat
  /\ PieceSize \in Nat /\ Overlap \in Nat /\ Overlap < PieceSize

VARIABLES
  web,        \* external: what each document contains now
  sources,    \* the table sources: the content whose fingerprint it holds, 0 without a row
  pieces,     \* the table chunks: of each document, [content, at]
  writing,    \* the transaction that wrote the row of a document and has not ended, or "none"
  ingests,    \* each request, [pc, uri, content]
  ingested    \* documents taken so far

knowledgeVars == <<web, sources, pieces, writing, ingests, ingested>>

NoIngest == [pc |-> "idle", uri |-> "none", content |-> 0]
Piece == [content : Lengths, at : Nat]

KnowledgeTypeOK ==
  /\ web \in [Uris -> Lengths]
  /\ sources \in [Uris -> Lengths \union {0}]
  /\ pieces \in [Uris -> SUBSET Piece]
  /\ writing \in [Uris -> Ingests \union {"none"}]
  /\ ingests \in [Ingests -> {NoIngest} \union
       [pc : {"embed", "compare", "store", "replace", "commit"}, uri : Uris, content : Lengths]]
  /\ ingested \in 0..MaxIngests

KnowledgeInit ==
  /\ web \in [Uris -> Lengths]
  /\ sources = [u \in Uris |-> 0] /\ pieces = [u \in Uris |-> {}]
  /\ writing = [u \in Uris |-> "none"] /\ ingests = [t \in Ingests |-> NoIngest]
  /\ ingested = 0

-----------------------------------------------------------------------------
(* Pieces. *)

\* chunks: range(0, len(text), size - overlap), each piece `size' long or to the end.
IngestStarts(length) == {i \in 0..(length - 1) : i % (PieceSize - Overlap) = 0}
End(length, start) == IF start + PieceSize < length THEN start + PieceSize ELSE length

PiecesOf(content) == {[content |-> content, at |-> i] : i \in IngestStarts(content)}

-----------------------------------------------------------------------------
(* ingest. *)

IngestAt(t, pc) == ingests[t].pc = pc
Moves(t, pc) == ingests' = [ingests EXCEPT ![t].pc = pc]
IngestEnds(t) == ingests' = [ingests EXCEPT ![t] = NoIngest]

\* A client sends, or the catalog reads, a document as it is now.
Takes(t, u) ==
  /\ IngestAt(t, "idle") /\ ingested < MaxIngests /\ ingested' = ingested + 1
  /\ ingests' = [ingests EXCEPT ![t] = [pc |-> "embed", uri |-> u, content |-> web[u]]]
  /\ UNCHANGED <<web, sources, pieces, writing>>

\* The pieces are embedded before the transaction begins.
Embeds(t) ==
  /\ IngestAt(t, "embed") /\ Moves(t, "compare")
  /\ UNCHANGED <<web, sources, pieces, writing, ingested>>

\* The transaction: the same fingerprint ends it.
Compares(t) ==
  /\ IngestAt(t, "compare")
  /\ IF sources[ingests[t].uri] = ingests[t].content THEN IngestEnds(t) ELSE Moves(t, "store")
  /\ UNCHANGED <<web, sources, pieces, writing, ingested>>

\* Mutant: the row is committed before the pieces are there.
StoresAlone(t) ==
  /\ IngestAt(t, "store") /\ writing[ingests[t].uri] = "none"
  /\ writing' = [writing EXCEPT ![ingests[t].uri] = t] /\ Moves(t, "replace")
  /\ sources' = [sources EXCEPT ![ingests[t].uri] = ingests[t].content]
  /\ UNCHANGED <<web, pieces, ingested>>

\* INSERT ... ON CONFLICT DO UPDATE waits for a transaction that wrote the row.
Stores(t) ==
  /\ IngestAt(t, "store") /\ writing[ingests[t].uri] = "none"
  /\ writing' = [writing EXCEPT ![ingests[t].uri] = t] /\ Moves(t, "replace")
  /\ UNCHANGED <<web, sources, pieces, ingested>>

\* DELETE and INSERT of the pieces, which nobody else sees.
Replaces(t) ==
  /\ IngestAt(t, "replace") /\ Moves(t, "commit")
  /\ UNCHANGED <<web, sources, pieces, writing, ingested>>

Commits(t) ==
  LET u == ingests[t].uri
  IN /\ IngestAt(t, "commit") /\ IngestEnds(t)
     /\ sources' = [sources EXCEPT ![u] = ingests[t].content]
     /\ pieces' = [pieces EXCEPT ![u] = PiecesOf(ingests[t].content)]
     /\ writing' = [writing EXCEPT ![u] = "none"]
     /\ UNCHANGED <<web, ingested>>

\* The embeddings or the database fail, or the process ends: a transaction that
\* was begun is undone.
IngestFails(t) ==
  /\ ~IngestAt(t, "idle") /\ IngestEnds(t)
  /\ writing' = [u \in Uris |-> IF writing[u] = t THEN "none" ELSE writing[u]]
  /\ UNCHANGED <<web, sources, pieces, ingested>>

DocumentChanges(u) ==
  /\ \E c \in Lengths : web' = [web EXCEPT ![u] = c]
  /\ UNCHANGED <<sources, pieces, writing, ingests, ingested>>

KnowledgeNext ==
  \/ \E t \in Ingests, u \in Uris : Takes(t, u)
  \/ \E t \in Ingests : Embeds(t) \/ Compares(t) \/ Stores(t) \/ Replaces(t)
                        \/ Commits(t) \/ IngestFails(t)
  \/ \E u \in Uris : DocumentChanges(u)

KnowledgeSpec == KnowledgeInit /\ [][KnowledgeNext]_knowledgeVars

-----------------------------------------------------------------------------
(* Properties. *)

\* The pieces of a document are those of the content whose fingerprint its row
\* holds, all of them: otherwise the next run would find it unchanged and never
\* repair it.  It is so through concurrent requests, failures and restarts.
StoredIsWhole ==
  \A u \in Uris : pieces[u] = IF sources[u] = 0 THEN {} ELSE PiecesOf(sources[u])
=============================================================================

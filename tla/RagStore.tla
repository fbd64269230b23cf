------------------------------ MODULE RagStore ------------------------------
(***************************************************************************)
(* The retrieval store (malapp/rag/store.py, malapp/rag/graph.py): a table *)
(* of documents and a knowledge graph over them in one SQLite file, which  *)
(* scripts write while the threads of the server retrieve from it.         *)
(*                                                                         *)
(* A document is its kind and the sample it names: a structured sample of  *)
(* a corpus build, or the case of a judged or manually labelled sample.    *)
(* The nodes, edges and links that its indexing leaves in the graph are    *)
(* one fact, named by the document.  Documents that name no sample,        *)
(* vectors, confidence values and the snapshot file are left out.          *)
(*                                                                         *)
(* Each action below is one transaction.  The statement that makes sure of *)
(* the graph's tables commits whatever is pending (executescript), so a    *)
(* document is committed before its facts, and a rebuild commits document  *)
(* by document.                                                            *)
(***************************************************************************)
EXTENDS Integers, FiniteSets

CONSTANTS Samples,        \* every sample of app_md5_labels
          Retrievals      \* the threads that retrieve

Documents == {"structured", "case"} \X Samples
Structured(S) == {"structured"} \X S
Named(D) == {d[2] : d \in D}

Writers == {"corpus", "index"}
Rebuilders == Retrievals \cup {"corpus"}

VARIABLES
    rag,          \* rag_documents
    edges,        \* documents that edges of the knowledge graph name as their source
    indexed,      \* documents with a row in kg_index_state
    hand,         \* the document each writer has stored and not indexed yet, if any
    rebuild       \* what each rebuild_graph_index in progress has read and has to do

store == <<rag, edges, indexed, hand, rebuild>>

NoRebuild == [pc |-> "idle", bare |-> FALSE, todo |-> {}]

StoreInit ==
    /\ rag = {} /\ edges = {} /\ indexed = {}
    /\ hand = [p \in Writers |-> {}]
    /\ rebuild = [r \in Rebuilders |-> NoRebuild]

\* The open SELECT of a rebuild keeps others from committing: they wait or fail.
Quiet == \A r \in Rebuilders : rebuild[r].pc # "loop"

(* ---------------------------- add_document ---------------------------- *)

Insert(p, d) ==
    /\ Quiet
    /\ hand[p] = {}
    /\ rag' = rag \cup {d}
    /\ hand' = [hand EXCEPT ![p] = {d}]
    /\ UNCHANGED <<edges, indexed, rebuild>>

Index(p) ==
    /\ Quiet
    /\ hand[p] # {}
    /\ edges' = edges \cup hand[p]
    /\ indexed' = indexed \cup hand[p]
    /\ hand' = [hand EXCEPT ![p] = {}]
    /\ UNCHANGED <<rag, rebuild>>

\* An exception or the end of the process in between.
WriterFails(p) ==
    /\ hand[p] # {}
    /\ hand' = [hand EXCEPT ![p] = {}]
    /\ UNCHANGED <<rag, edges, indexed, rebuild>>

(* ------------------------- rebuild_graph_index ------------------------ *)

\* The nodes and edges are counted first.
RebuildRead(r) ==
    /\ rebuild[r].pc = "idle"
    /\ rebuild' = [rebuild EXCEPT ![r].pc = "read", ![r].bare = edges = {}]
    /\ UNCHANGED <<rag, edges, indexed, hand>>

\* A graph without nodes and edges beside documents comes from an older build: then
\* no index row is believed.  The documents without a row are to be indexed.
RebuildBegin(r) ==
    LET believed == IF rebuild[r].bare /\ rag # {} THEN {} ELSE indexed IN
    /\ rebuild[r].pc = "read"
    /\ Quiet
    /\ indexed' = believed
    /\ rebuild' = [rebuild EXCEPT ![r].pc = "loop", ![r].todo = rag \ believed]
    /\ UNCHANGED <<rag, edges, hand>>

RebuildDoc(r) ==
    /\ rebuild[r].pc = "loop"
    /\ \E d \in rebuild[r].todo :
          /\ edges' = edges \cup {d}
          /\ indexed' = indexed \cup {d}
          /\ rebuild' = [rebuild EXCEPT ![r].todo = @ \ {d}]
    /\ UNCHANGED <<rag, hand>>

RebuildEnd(r) ==
    /\ rebuild[r].pc = "loop"
    /\ rebuild[r].todo = {}
    /\ rebuild' = [rebuild EXCEPT ![r] = NoRebuild]
    /\ UNCHANGED <<rag, edges, indexed, hand>>

RebuildFails(r) ==
    /\ rebuild[r].pc # "idle"
    /\ rebuild' = [rebuild EXCEPT ![r] = NoRebuild]
    /\ UNCHANGED <<rag, edges, indexed, hand>>

RebuildGoesOn(r) == RebuildBegin(r) \/ RebuildDoc(r) \/ RebuildEnd(r) \/ RebuildFails(r)

(* ------------------------------ deletion ------------------------------ *)

\* The structured documents of the barred samples go, whoever wrote them; when there
\* were some, the whole graph goes with them, in the same transaction.
Stale(barred) == rag \cap Structured(barred)

Prune_KeepsGraph(barred) ==
    /\ Quiet
    /\ rag' = rag \ Stale(barred)
    /\ UNCHANGED <<edges, indexed, hand, rebuild>>

Prune_KeepsIndex(barred) ==
    /\ Quiet
    /\ rag' = rag \ Stale(barred)
    /\ edges' = IF Stale(barred) = {} THEN edges ELSE {}
    /\ UNCHANGED <<indexed, hand, rebuild>>

Prune(barred) ==
    /\ Quiet
    /\ rag' = rag \ Stale(barred)
    /\ edges' = IF Stale(barred) = {} THEN edges ELSE {}
    /\ indexed' = IF Stale(barred) = {} THEN indexed ELSE {}
    /\ UNCHANGED <<hand, rebuild>>

\* build_index --reset deletes the documents and leaves the graph.
Reset ==
    /\ Quiet
    /\ rag' = {}
    /\ UNCHANGED <<edges, indexed, hand, rebuild>>
=============================================================================

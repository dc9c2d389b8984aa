---------------------------- MODULE DocumentMemory ----------------------------
(***************************************************************************)
(* DocumentMemory (src/src/document.rs): documents split into embedded     *)
(* chunks, kept in one vector in the order they were added, searched by    *)
(* similarity under a filter, with an optional index (src/src/index.rs)    *)
(* that refers to the chunks by their place in that vector, and saved to   *)
(* one file.                                                               *)
(*                                                                         *)
(* A piece is a chunk's text with its embedding.  Texts, embeddings and    *)
(* similarities are model values and a table of integers: the order of the *)
(* scores is what a search depends on.  The graph of HnswIndex is the      *)
(* library's: the index here is the exact one, BruteForceIndex.            *)
(***************************************************************************)
EXTENDS Integers, Sequences, SequencesExt, FiniteSets, FiniteSetsExt, Functions

CONSTANTS
  DocIds,
  Pieces,          \* [text, embedding] records a caller may add
  MetadataValues,
  Queries,         \* query embeddings
  Filters,         \* search filters
  Dim,             \* length of each embedding and query
  Cosine,          \* similarity of a query and an embedding; over the shorter
                   \* of the two when their lengths differ
  Preview,         \* the first 500 characters of a text
  WordsOf,         \* the needles a text contains
  NonFinite,       \* embeddings with a NaN or an infinity
  Unset,           \* an unset condition of a filter
  NoIndex,         \* ann: None
  NoFile,
  Torn,            \* a file cut short by a crash
  MaxPieces,       \* bound of the model: chunks of a document
  MaxHits,         \* bound of the model: k of a search
  MaxCalls         \* bound of the model: calls that change a document

ASSUME BoundsAssumption == {MaxPieces, MaxHits, MaxCalls} \subseteq Nat \ {0}
ASSUME PreviewAssumption == \A p \in Pieces : Preview[p.text] \in DOMAIN Preview
ASSUME CosineAssumption ==
  \A q \in Queries, p \in Pieces : Cosine[q][p.embedding] \in Int

VARIABLES
  running,
  dm,        \* DocumentMemory: documents, chunks, ann
  file,      \* documents.json, or documents.json.enc
  held,      \* history: per document in the memory what was added as it
  saved,     \* history: held when the file was written
  calls      \* calls so far

vars == <<running, dm, file, held, saved, calls>>

Texts == DOMAIN Preview
Chunks == [docId : DocIds, idx : 0 .. MaxPieces - 1, text : Texts,
           embedding : {p.embedding : p \in Pieces}]
Entries == [metadata : MetadataValues, nChunks : 1 .. MaxPieces]
Files == [documents : UNION {[D -> Entries] : D \in SUBSET DocIds}, chunks : Seq(Chunks)]
ASSUME FileAssumption == NoFile \notin Files

NoDocuments == <<>>
Lists == BoundedSeq(Pieces, MaxPieces)
Set(f, d, v) == [e \in DOMAIN f \cup {d} |-> IF e = d THEN v ELSE f[e]]
Without(f, d) == Restrict(f, DOMAIN f \ {d})

(* The loop of Vec::retain and of a filter: f[i] is what is kept of the    *)
(* first i elements of s, those in S.                                      *)
Kept(s, S) ==
  LET f[i \in 0 .. Len(s)] ==
        IF i = 0 THEN <<>>
        ELSE IF s[i] \in S THEN Append(f[i - 1], s[i]) ELSE f[i - 1]
  IN  f[Len(s)]
OfDocument(chunks, d) == Kept(chunks, {c \in Range(chunks) : c.docId = d})
NotOfDocument(chunks, d) == Kept(chunks, {c \in Range(chunks) : c.docId # d})

-----------------------------------------------------------------------------
(* Seeded faults.                                                          *)
(* The index is not rebuilt.                                               *)
ForgottenStaleIndex(m, d) ==
  [m EXCEPT !.chunks = NotOfDocument(@, d), !.documents = Without(@, d)]
(* Replacing a document leaves its old chunks.                             *)
ReplacedKeepingChunks(m, d) == m
(* The documents are those that have chunks.                               *)
RestoredFromChunks(snap) ==
  [documents |-> Restrict(snap.documents, {snap.chunks[i].docId : i \in DOMAIN snap.chunks}),
   chunks |-> snap.chunks, ann |-> NoIndex]

-----------------------------------------------------------------------------
(* rebuild_ann: one item per chunk, in the order of the chunks             *)
Rebuilt(m) ==
  IF m.ann = NoIndex THEN m
  ELSE [m EXCEPT !.ann = [i \in DOMAIN m.chunks |->
          [pos |-> i, embedding |-> m.chunks[i].embedding]]]

(* forget_document, and what it returns                                    *)
Forgotten(m, d) ==
  Rebuilt([m EXCEPT !.chunks = NotOfDocument(@, d), !.documents = Without(@, d)])
Removes(m, d) == \E i \in DOMAIN m.chunks : m.chunks[i].docId = d

Replaced(m, d) == IF d \in DOMAIN m.documents THEN Forgotten(m, d) ELSE m

NewChunks(d, pieces) ==
  [i \in DOMAIN pieces |->
     [docId |-> d, idx |-> i - 1, text |-> Preview[pieces[i].text],
      embedding |-> pieces[i].embedding]]

(* encode: an embedding for each text, or, when the model fails or a panic *)
(* has poisoned its mutex, none at all                                     *)
Encodings(pieces) == {pieces, <<>>}

(* n chunks were cut, pieces are those that have an embedding.             *)
Added(m, d, n, pieces, metadata) ==
  LET old == Replaced(m, d)
  IN Rebuilt([old EXCEPT
       !.chunks = @ \o NewChunks(d, pieces),
       !.documents = Set(@, d, [metadata |-> metadata, nChunks |-> n])])

(* from_snapshot.  The index is not saved.                                 *)
Restored(snap) ==
  [documents |-> snap.documents, chunks |-> snap.chunks, ann |-> NoIndex]

(* serde_json writes a number that is not finite as null, which is not     *)
(* read back as a number.                                                  *)
Readable(f) ==
  /\ f # Torn
  /\ f # NoFile =>
       \A i \in DOMAIN f.chunks : f.chunks[i].embedding \notin NonFinite

-----------------------------------------------------------------------------
(* search                                                                  *)
NoFilter == [docIds |-> Unset, metadata |-> Unset, needle |-> Unset, minScore |-> Unset]

Matches(m, f, c) ==
  /\ c.docId \in DOMAIN m.documents
  /\ f.docIds = Unset \/ c.docId \in f.docIds
  /\ f.metadata = Unset \/ m.documents[c.docId].metadata = f.metadata
  /\ f.needle = Unset \/ f.needle \in WordsOf[c.text]

Hit(m, i, score) ==
  LET c == m.chunks[i]
  IN [docId |-> c.docId, idx |-> c.idx, text |-> c.text, score |-> score,
      metadata |-> m.documents[c.docId].metadata]

(* A stable sort by descending score, and the first k: the n-th has n - 1  *)
(* before it.                                                              *)
Before(score, i, j) == score[i] > score[j] \/ (score[i] = score[j] /\ i < j)
Ranks(S, score) == [i \in S |-> Cardinality({j \in S : Before(score, j, i)})]
TopK(S, score, k) ==
  LET rank == Ranks(S, score)
  IN [n \in 1 .. Min({k, Cardinality(S)}) |-> CHOOSE i \in S : rank[i] = n - 1]

ExactHits(m, q, k, f) ==
  LET score == [i \in DOMAIN m.chunks |-> Cosine[q][m.chunks[i].embedding]]
      found == {i \in DOMAIN m.chunks :
                  /\ Matches(m, f, m.chunks[i])
                  /\ Dim[q] = Dim[m.chunks[i].embedding]
                  /\ f.minScore = Unset \/ score[i] >= f.minScore}
      best  == TopK(found, score, k)
  IN [n \in DOMAIN best |-> Hit(m, best[n], score[best[n]])]

(* The index has no filter and does not compare lengths.                   *)
IndexHits(m, q, k) ==
  LET score == [i \in DOMAIN m.ann |-> Cosine[q][m.ann[i].embedding]]
      best  == Kept(TopK(DOMAIN m.ann, score, k),
                    {i \in DOMAIN m.ann : m.ann[i].pos \in DOMAIN m.chunks})
  IN [n \in DOMAIN best |-> Hit(m, m.ann[best[n]].pos, score[best[n]])]

Search(m, q, k, f) ==
  IF f = NoFilter /\ m.ann # NoIndex THEN IndexHits(m, q, k)
  ELSE ExactHits(m, q, k, f)

-----------------------------------------------------------------------------
NewDocumentMemory == [documents |-> NoDocuments, chunks |-> <<>>, ann |-> NoIndex]

Init ==
  /\ running = TRUE
  /\ dm = NewDocumentMemory
  /\ file = NoFile
  /\ held = NoDocuments
  /\ saved = NoDocuments
  /\ calls = 0

Called ==
  /\ running
  /\ calls < MaxCalls
  /\ calls' = calls + 1
  /\ UNCHANGED <<running, file, saved>>

(* add_document.  The old version goes before the new one is cut and       *)
(* embedded: a text without words leaves nothing, an encoder that fails    *)
(* (embeddings empty) leaves an entry without chunks.                      *)
AddBlankText(d) ==
  /\ Called
  /\ d \in DOMAIN dm.documents
  /\ dm' = Forgotten(dm, d)
  /\ held' = Without(held, d)

AddDocument(d, pieces, metadata) ==
  /\ Called
  /\ pieces # <<>>
  /\ \E embedded \in Encodings(pieces) :
       /\ dm' = Added(dm, d, Len(pieces), embedded, metadata)
       /\ held' = Set(held, d, [metadata |-> metadata, pieces |-> embedded])

(* add_document_with_embeddings: one embedding per chunk, or no effect     *)
AddDocumentWithEmbeddings(d, pieces, metadata) ==
  /\ Called
  /\ pieces # <<>>
  /\ dm' = Added(dm, d, Len(pieces), pieces, metadata)
  /\ held' = Set(held, d, [metadata |-> metadata, pieces |-> pieces])

ForgetDocument(d) ==
  /\ Called
  /\ d \in DOMAIN dm.documents
  /\ dm' = Forgotten(dm, d)
  /\ held' = Without(held, d)

WithAnn ==
  /\ running
  /\ dm.ann = NoIndex
  /\ dm' = Rebuilt([dm EXCEPT !.ann = <<>>])
  /\ UNCHANGED <<running, file, held, saved, calls>>

Save ==
  /\ running
  /\ file' = [documents |-> dm.documents, chunks |-> dm.chunks]
  /\ saved' = held
  /\ UNCHANGED <<running, dm, held, calls>>

Crash ==
  /\ running
  /\ running' = FALSE
  /\ UNCHANGED <<dm, file, held, saved, calls>>

(* fs::write truncates the file first.                                     *)
CrashInSave ==
  /\ running
  /\ running' = FALSE
  /\ file' = Torn
  /\ UNCHANGED <<dm, held, saved, calls>>

(* load_state; an absent file is an empty memory                           *)
Load ==
  /\ ~running
  /\ Readable(file)
  /\ dm' = IF file = NoFile THEN NewDocumentMemory ELSE Restored(file)
  /\ held' = saved
  /\ running' = TRUE
  /\ UNCHANGED <<file, saved, calls>>

Next ==
  \/ \E d \in DocIds : AddBlankText(d)
  \/ \E d \in DocIds, pieces \in Lists, md \in MetadataValues :
       AddDocument(d, pieces, md)
  \/ \E d \in DocIds, pieces \in Lists, md \in MetadataValues :
       AddDocumentWithEmbeddings(d, pieces, md)
  \/ \E d \in DocIds : ForgetDocument(d)
  \/ WithAnn
  \/ Save
  \/ Crash
  \/ CrashInSave
  \/ Load

Spec == Init /\ [][Next]_vars

-----------------------------------------------------------------------------
ChunksOf(m, d) == OfDocument(m.chunks, d)

(* The entries and the chunks have their types, and the index, where there *)
(* is one, has a place for every chunk and no other.                       *)
TypeOK ==
  /\ DOMAIN dm.documents \subseteq DocIds
  /\ \A d \in DOMAIN dm.documents : dm.documents[d] \in Entries
  /\ Range(dm.chunks) \subseteq Chunks
  /\ dm.ann # NoIndex => DOMAIN dm.ann = DOMAIN dm.chunks
  /\ DOMAIN held \subseteq DocIds

(* What the memory holds, read off the entries and the chunks: per entry   *)
(* its metadata and, in order, its chunks, numbered from 0.                *)
Contents(m) ==
  [d \in DOMAIN m.documents |->
     [metadata |-> m.documents[d].metadata, chunks |-> ChunksOf(m, d)]]

AsAdded(h) ==
  [d \in DOMAIN h |->
     [metadata |-> h[d].metadata, chunks |-> NewChunks(d, h[d].pieces)]]

(* Entries and chunks are two collections that every call updates one      *)
(* after the other.  However documents were added, replaced, forgotten and *)
(* reloaded, each is held as it was last added, its chunks in order, and   *)
(* no chunk is left of another version or of a forgotten document.         *)
HoldsWhatWasAdded ==
  /\ TypeOK
  /\ Contents(dm) = AsAdded(held)
  /\ \A i \in DOMAIN dm.chunks : dm.chunks[i].docId \in DOMAIN dm.documents

(* Piece i of document d as a hit, those that a filter leaves, the place of *)
(* a hit's chunk, and which of two hits comes first                        *)
HitOf(q, d, i) ==
  [docId |-> d, idx |-> i - 1, text |-> Preview[held[d].pieces[i].text],
   score |-> Cosine[q][held[d].pieces[i].embedding], metadata |-> held[d].metadata]
Wanted(q, f) ==
  {h \in UNION {{HitOf(q, d, i) : i \in DOMAIN held[d].pieces} : d \in DOMAIN held} :
     /\ f.docIds # Unset => h.docId \in f.docIds
     /\ f.metadata # Unset => h.metadata = f.metadata
     /\ f.needle # Unset => f.needle \in WordsOf[h.text]
     /\ f.minScore # Unset => h.score >= f.minScore}
Place(h) ==
  CHOOSE i \in DOMAIN dm.chunks : dm.chunks[i].docId = h.docId /\ dm.chunks[i].idx = h.idx
Precedes(g, h) == g.score > h.score \/ (g.score = h.score /\ Place(g) < Place(h))

(* The k best of what was added under the filter, best first and the one   *)
(* added first before its equals, each with the text, the score and the    *)
(* metadata of the version that is held: no better match is left out, none *)
(* is shown twice, none is made up.  That also holds through the index,    *)
(* which refers to chunks by a place that every change may shift.          *)
SearchFindsBest ==
  \A q \in Queries, k \in 1 .. MaxHits, f \in Filters :
    LET hits   == Search(dm, q, k, f)
        wanted == Wanted(q, f)
    IN /\ Range(hits) \subseteq wanted
       /\ Len(hits) = Min({k, Cardinality(wanted)})
       /\ \A m, n \in DOMAIN hits : m < n => Precedes(hits[m], hits[n])
       /\ \A h \in wanted \ Range(hits) :
            \A n \in DOMAIN hits : Precedes(hits[n], h)

(* "The index is derived from `chunks` (rebuilt on add/forget) so it can't *)
(* desync" (src/src/document.rs:340): a search through the index finds     *)
(* what the scan finds; so it does unless the lengths of embeddings differ.*)
AnnMatchesExact ==
  dm.ann # NoIndex =>
    \A q \in Queries, k \in 1 .. MaxHits :
      IndexHits(dm, q, k) = ExactHits(dm, q, k, NoFilter)

(* A file that was written in full brings back every document, those       *)
(* without chunks included, with its chunks in their order, and none that  *)
(* was forgotten before the save.                                          *)
LoadRestoresDocuments ==
  [][ ~running /\ running' => Contents(dm') = AsAdded(saved) ]_vars

-----------------------------------------------------------------------------
(* "Returns number of chunks indexed" (src/src/document.rs:365): the       *)
(* number that add_document returns and the entry keeps is the number of   *)
(* chunks in the memory.                                                   *)
ReportedChunksIndexed ==
  \A d \in DOMAIN dm.documents :
    dm.documents[d].nChunks = Len(ChunksOf(dm, d))

(* "Returns true if anything was removed" (src/src/document.rs:406-407).   *)
ForgetReportsRemoval ==
  \A d \in DOMAIN dm.documents : Removes(dm, d)

(* "Decompress and return the original chunk text"                         *)
(* (src/src/document.rs:220): what a chunk's text() returns is the text    *)
(* that was added.                                                         *)
OriginalTextKept ==
  \A d \in DOMAIN held :
    \A i \in DOMAIN ChunksOf(dm, d) :
      ChunksOf(dm, d)[i].text = held[d].pieces[i].text

(* "survives a process restart" (src/src/ffi.rs:105): a file that was      *)
(* written in full can be loaded.                                          *)
WrittenFileOpens == file # Torn => Readable(file)
=============================================================================

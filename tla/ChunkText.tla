------------------------------- MODULE ChunkText -------------------------------
(***************************************************************************)
(* chunk_text (src/src/document.rs): the paragraphs of a text, cut into    *)
(* windows of chunk_size words that overlap by chunk_overlap words.        *)
(*                                                                         *)
(* A paragraph is the number of its words: trimmed and not empty, it has   *)
(* at least one.  A chunk is the paragraph it comes from with the places   *)
(* of its first word and of the word after its last, counted from 0.       *)
(***************************************************************************)
EXTENDS Integers, Sequences, SequencesExt, FiniteSetsExt

CONSTANTS
  MaxParagraphs,   \* bounds of the model
  MaxWords,
  MaxSize,
  MaxOverlap

ASSUME ChunkBoundsAssumption == {MaxParagraphs, MaxWords, MaxSize, MaxOverlap} \subseteq Nat

VARIABLES
  paragraphs, chunkSize, chunkOverlap,   \* the arguments
  para,                                  \* the paragraph the loop is at
  start,                                 \* where the next window starts
  chunks

chunkVars == <<paragraphs, chunkSize, chunkOverlap, para, start, chunks>>
args == <<paragraphs, chunkSize, chunkOverlap>>

(* Bound of the model: no call needs more chunks than there are words.     *)
MaxChunks == MaxParagraphs * MaxWords

-----------------------------------------------------------------------------
(* Seeded faults.                                                          *)
(* The loop goes on when a window has reached the end.                     *)
EndsPastTheWords(end, words) == FALSE
(* An overlap as large as the window stops the loop where it is.           *)
StepUnclamped(size, overlap) == Max({size - overlap, 0})
(* One is added instead of taken as the least.                             *)
StepOneMore(size, overlap) == Max({size - overlap, 0}) + 1

-----------------------------------------------------------------------------
(* chunk_size.saturating_sub(chunk_overlap).max(1)                         *)
Step(size, overlap) == Max({size - overlap, 1})

WindowEnd(from, size, words) == Min({from + size, words})

Ends(end, words) == end = words

Done == para > Len(paragraphs)

-----------------------------------------------------------------------------
ChunkInit ==
  /\ paragraphs \in BoundedSeq(1 .. MaxWords, MaxParagraphs)
  /\ chunkSize \in 0 .. MaxSize
  /\ chunkOverlap \in 0 .. MaxOverlap
  /\ para = 1
  /\ start = 0
  /\ chunks = <<>>

Push(from, to) ==
  /\ Len(chunks) < MaxChunks
  /\ chunks' = Append(chunks, [para |-> para, from |-> from, to |-> to])

NextParagraph == para' = para + 1 /\ start' = 0

WholeParagraph ==
  /\ ~Done
  /\ paragraphs[para] <= chunkSize
  /\ Push(0, paragraphs[para])
  /\ NextParagraph
  /\ UNCHANGED args

(* while start < words.len(), with the break at the end of the words       *)
Window ==
  /\ ~Done
  /\ paragraphs[para] > chunkSize
  /\ LET words == paragraphs[para]
         end   == WindowEnd(start, chunkSize, words)
         next  == start + Step(chunkSize, chunkOverlap)
     IN /\ Push(start, end)
        /\ IF Ends(end, words) \/ next >= words
           THEN NextParagraph
           ELSE start' = next /\ UNCHANGED para
  /\ UNCHANGED args

ChunkNext == WholeParagraph \/ Window

(* The function runs until it returns.                                     *)
ChunkSpec == ChunkInit /\ [][ChunkNext]_chunkVars /\ WF_chunkVars(ChunkNext)

-----------------------------------------------------------------------------
ChunkTypeOK ==
  /\ para \in 1 .. Len(paragraphs) + 1
  /\ ~Done => start \in 0 .. paragraphs[para] - 1
  /\ \A i \in DOMAIN chunks :
       /\ chunks[i].para \in DOMAIN paragraphs
       /\ 0 <= chunks[i].from /\ chunks[i].from <= chunks[i].to
       /\ chunks[i].to <= paragraphs[chunks[i].para]
       /\ chunks[i].to - chunks[i].from <= chunkSize

(* Windows of at least one word, whatever the overlap, cover every word of *)
(* every paragraph.                                                        *)
NoWordLost ==
  /\ ChunkTypeOK
  /\ Done /\ chunkSize > 0 =>
       \A p \in DOMAIN paragraphs : \A w \in 0 .. paragraphs[p] - 1 :
         \E i \in DOMAIN chunks :
           chunks[i].para = p /\ chunks[i].from <= w /\ w < chunks[i].to

(* Consecutive windows of a paragraph share as many words as was asked,    *)
(* or all but one of the window when that is less: also the last two.  No  *)
(* window lies inside another: there is no tail that repeats words which   *)
(* the window before it has all of.                                        *)
OverlapAsAsked ==
  chunkSize > 0 =>
    \A i, j \in DOMAIN chunks :
      i < j /\ chunks[i].para = chunks[j].para =>
        /\ chunks[i].from < chunks[j].from /\ chunks[i].to < chunks[j].to
        /\ j = i + 1 => chunks[i].to - chunks[j].from = Min({chunkOverlap, chunkSize - 1})

(* The loop ends whatever the sizes are, zero and an overlap larger than   *)
(* the window included.                                                    *)
Terminates == <>Done
=============================================================================

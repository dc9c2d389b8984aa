--------------------------- MODULE Document_proofs ---------------------------
(***************************************************************************)
(* ChunkText and DocumentMemory: no word of a paragraph is left out of     *)
(* its windows and neighbours overlap by what was asked; the documents     *)
(* held are those added, a load brings them back, and a search returns     *)
(* the best of them.                                                       *)
(***************************************************************************)
EXTENDS ChunkText, DocumentMemory, SeqLemmas

-----------------------------------------------------------------------------
(* ChunkText                                                               *)

Windows == [para : Nat, from : Nat, to : Nat]

(* The arguments do not change.                                            *)
ArgsOK ==
  /\ paragraphs \in Seq(1 .. MaxWords)
  /\ chunkSize \in Nat
  /\ chunkOverlap \in Nat
  /\ chunks \in Seq(Windows)

(* No chunk is ahead of the loop: those of its paragraph begin before the  *)
(* place where the next window starts, and end before that window will.    *)
BehindOK ==
  chunkSize > 0 =>
    \A i \in DOMAIN chunks :
      /\ chunks[i].para <= para
      /\ chunks[i].para = para =>
           /\ ~Done
           /\ chunks[i].from < start
           /\ chunks[i].to < start + chunkSize
           /\ chunks[i].to < paragraphs[para]

(* What the next window will share with the last one                       *)
LastOK ==
  chunkSize > 0 =>
    \A i \in DOMAIN chunks :
      i = Len(chunks) /\ chunks[i].para = para =>
        chunks[i].to - start = Min({chunkOverlap, chunkSize - 1})

(* The words before the place where the next window starts are in a chunk. *)
CoveredOK ==
  chunkSize > 0 =>
    \A p \in DOMAIN paragraphs : \A w \in 0 .. paragraphs[p] - 1 :
      p < para \/ (p = para /\ w < start) =>
        \E i \in DOMAIN chunks :
          chunks[i].para = p /\ chunks[i].from <= w /\ w < chunks[i].to

(* A paragraph that fits into one window is not begun twice.               *)
StartOK == ~Done /\ paragraphs[para] <= chunkSize => start = 0

ChunkInv ==
  ArgsOK /\ ChunkTypeOK /\ StartOK /\ OverlapAsAsked /\ BehindOK /\ LastOK /\ CoveredOK

-----------------------------------------------------------------------------
(* The greater and the smaller of two numbers                              *)
LEMMA MaxOfTwo ==
  ASSUME NEW a \in Int, NEW b \in Int
  PROVE  Max({a, b}) = IF a >= b THEN a ELSE b
<1> DEFINE m == IF a >= b THEN a ELSE b
<1>1. m \in {a, b} /\ \A y \in {a, b} : m >= y
  OBVIOUS
<1>2. \A x \in {a, b} : (\A y \in {a, b} : x >= y) => x = m
  OBVIOUS
<1> HIDE DEF m
<1>3. Max({a, b}) = m
  BY <1>1, <1>2 DEF Max
<1> QED BY <1>3 DEF m



(* A window lies in its paragraph and, unless it ends with it, is as long  *)
(* as was asked.                                                           *)
LEMMA WindowIs ==
  ASSUME NEW from \in Nat, NEW size \in Nat, NEW words \in Nat, from < words
  PROVE  LET end == WindowEnd(from, size, words)
         IN  /\ end \in Nat /\ from <= end /\ end <= words /\ end - from <= size
             /\ end = words \/ end = from + size
             /\ size > 0 => from < end
  BY MinOfTwo DEF WindowEnd

(* The step leaves the overlap that was asked, or all words but one.       *)
LEMMA StepIs ==
  ASSUME NEW size \in Nat, NEW overlap \in Nat
  PROVE  /\ Step(size, overlap) \in Nat /\ Step(size, overlap) >= 1
         /\ size > 0 => /\ Step(size, overlap) <= size
                        /\ size - Step(size, overlap) = Min({overlap, size - 1})
<1>1. Step(size, overlap) = IF size - overlap >= 1 THEN size - overlap ELSE 1
  BY MaxOfTwo DEF Step
<1>2. size > 0 => Min({overlap, size - 1}) = IF overlap <= size - 1 THEN overlap ELSE size - 1
  BY MinOfTwo
<1> QED BY <1>1, <1>2

-----------------------------------------------------------------------------
(* The inductive invariant                                                 *)
LEMMA ChunkInitInv == ChunkInit => ChunkInv
<1> SUFFICES ASSUME ChunkInit PROVE ChunkInv
  OBVIOUS
<1>1. paragraphs \in Seq(1 .. MaxWords) /\ MaxWords \in Nat
  <2>1. PICK m \in 0 .. MaxParagraphs : paragraphs \in [1 .. m -> 1 .. MaxWords]
    BY DEF ChunkInit, BoundedSeq, SeqOf
  <2>2. m \in Nat
    BY ChunkBoundsAssumption
  <2> QED BY <2>1, <2>2, ChunkBoundsAssumption
<1>2. /\ chunkSize \in Nat /\ chunkOverlap \in Nat /\ para = 1 /\ start = 0 /\ chunks = <<>>
  BY ChunkBoundsAssumption DEF ChunkInit
<1>3. ArgsOK
  BY <1>1, <1>2 DEF ArgsOK
<1>4. ChunkTypeOK
  <2>1. ~Done => 1 \in 1 .. Len(paragraphs)
    BY <1>1, <1>2 DEF Done
  <2>2. ~Done => paragraphs[1] \in 1 .. MaxWords
    BY <1>1, <2>1
  <2>3. ~Done => start \in 0 .. paragraphs[para] - 1
    BY <1>1, <1>2, <2>2
  <2>4. para \in 1 .. Len(paragraphs) + 1
    BY <1>1, <1>2
  <2> QED BY <1>2, <2>3, <2>4 DEF ChunkTypeOK
<1> QED BY <1>1, <1>2, <1>3, <1>4
        DEF ChunkInv, StartOK, OverlapAsAsked, BehindOK, LastOK, CoveredOK

(* A chunk of the current paragraph is pushed, and the loop goes on behind *)
(* it or in the next paragraph.                                            *)
LEMMA PushKeeps ==
  ASSUME ChunkInv, ~Done, UNCHANGED args,
         NEW to \in Nat, Push(start, to),
         start <= to, to <= paragraphs[para], to - start <= chunkSize,
         \/ /\ NextParagraph
            /\ to = paragraphs[para] \/ chunkSize = 0
         \/ /\ UNCHANGED para
            /\ to = start + chunkSize
            /\ to < paragraphs[para] \/ chunkSize = 0
            /\ start' \in Nat /\ start < start' /\ start' < paragraphs[para]
            /\ chunkSize > 0 => /\ start' <= to
                                /\ to - start' = Min({chunkOverlap, chunkSize - 1})
  PROVE  ChunkInv'
<1> DEFINE n == Len(chunks)
           c == [para |-> para, from |-> start, to |-> to]
<1>1. /\ paragraphs \in Seq(1 .. MaxWords) /\ MaxWords \in Nat
      /\ chunkSize \in Nat /\ chunkOverlap \in Nat
      /\ chunks \in Seq(Windows)
      /\ paragraphs' = paragraphs /\ chunkSize' = chunkSize /\ chunkOverlap' = chunkOverlap
  BY ChunkBoundsAssumption DEF ChunkInv, ArgsOK, args
<1>2. /\ Len(paragraphs) \in Nat /\ para \in 1 .. Len(paragraphs)
      /\ \A p \in 1 .. Len(paragraphs) : paragraphs[p] \in Nat /\ paragraphs[p] >= 1
      /\ DOMAIN paragraphs = 1 .. Len(paragraphs)
      /\ start \in 0 .. paragraphs[para] - 1 /\ start \in Nat
  <2>1. para \in 1 .. Len(paragraphs) /\ start \in 0 .. paragraphs[para] - 1
    BY <1>1 DEF ChunkInv, ChunkTypeOK, Done
  <2>2. \A p \in 1 .. Len(paragraphs) : paragraphs[p] \in 1 .. MaxWords
    BY <1>1
  <2>3. \A p \in 1 .. Len(paragraphs) : paragraphs[p] \in Nat /\ paragraphs[p] >= 1
    BY <1>1, <2>2
  <2> QED BY <1>1, <2>1, <2>3
<1>3. /\ n \in Nat /\ DOMAIN chunks = 1 .. n /\ chunks' = Append(chunks, c)
      /\ c \in Windows
  BY <1>1, <1>2 DEF Push, Windows
<1>4. /\ chunks' \in Seq(Windows)
      /\ Len(chunks') = n + 1 /\ DOMAIN chunks' = 1 .. n + 1
      /\ \A i \in 1 .. n : chunks'[i] = chunks[i]
      /\ chunks'[n + 1] = c
  BY <1>1, <1>3, AppendProperties
<1>5. \A i : i \in 1 .. n + 1 <=> i \in 1 .. n \/ i = n + 1
  BY <1>3
<1>6. c.para = para /\ c.from = start /\ c.to = to
  OBVIOUS
<1>7. \A i \in 1 .. n : /\ chunks[i].para \in Nat /\ chunks[i].from \in Nat /\ chunks[i].to \in Nat
  <2>1. \A i \in 1 .. n : chunks[i] \in Windows
    BY <1>1, <1>3
  <2> QED BY <2>1 DEF Windows
<1> HIDE DEF n, c
<1>8. \/ para' = para + 1 /\ start' = 0 /\ (to = paragraphs[para] \/ chunkSize = 0)
      \/ /\ para' = para /\ start' \in 0 .. paragraphs[para] - 1 /\ start < start'
         /\ to = start + chunkSize
         /\ to < paragraphs[para] \/ chunkSize = 0
         /\ chunkSize > 0 => start' <= to /\ to - start' = Min({chunkOverlap, chunkSize - 1})
  BY <1>2 DEF NextParagraph
<1>9. ArgsOK'
  BY <1>1, <1>4 DEF ArgsOK
<1>10. ChunkTypeOK'
  <2>1. para' \in 1 .. Len(paragraphs) + 1
    BY <1>2, <1>8
  <2>2. ~Done' => start' \in 0 .. paragraphs[para'] - 1
    BY <1>1, <1>2, <1>8 DEF Done
  <2>3. ASSUME NEW i \in 1 .. n + 1
        PROVE  /\ chunks'[i].para \in DOMAIN paragraphs
               /\ 0 <= chunks'[i].from /\ chunks'[i].from <= chunks'[i].to
               /\ chunks'[i].to <= paragraphs[chunks'[i].para]
               /\ chunks'[i].to - chunks'[i].from <= chunkSize
    <3>1. CASE i \in 1 .. n
      BY <1>3, <1>4, <3>1 DEF ChunkInv, ChunkTypeOK
    <3>2. CASE i = n + 1
      <4>1. chunks'[i].para = para /\ chunks'[i].from = start /\ chunks'[i].to = to
        BY <1>4, <1>6, <3>2
      <4>2. para \in DOMAIN paragraphs /\ 0 <= start
        BY <1>2
      <4> QED BY <4>1, <4>2
    <3> QED BY <1>5, <3>1, <3>2
  <2> QED BY <1>1, <1>4, <2>1, <2>2, <2>3 DEF ChunkTypeOK
<1>11. ASSUME chunkSize > 0
       PROVE  \A i, j \in 1 .. n + 1 :
                i < j /\ chunks'[i].para = chunks'[j].para =>
                  /\ chunks'[i].from < chunks'[j].from /\ chunks'[i].to < chunks'[j].to
                  /\ j = i + 1 => chunks'[i].to - chunks'[j].from = Min({chunkOverlap, chunkSize - 1})
  <2> SUFFICES ASSUME NEW i \in 1 .. n + 1, NEW j \in 1 .. n + 1,
                      i < j, chunks'[i].para = chunks'[j].para
               PROVE  /\ chunks'[i].from < chunks'[j].from /\ chunks'[i].to < chunks'[j].to
                      /\ j = i + 1 =>
                           chunks'[i].to - chunks'[j].from = Min({chunkOverlap, chunkSize - 1})
    OBVIOUS
  <2>1. i \in 1 .. n /\ chunks'[i] = chunks[i]
    BY <1>3, <1>4
  <2>2. CASE j \in 1 .. n
    BY <1>3, <1>4, <1>11, <2>1, <2>2 DEF ChunkInv, OverlapAsAsked
  <2>3. CASE j = n + 1
    <3>1. chunks[i].para = para /\ chunks'[j].from = start /\ chunks'[j].to = to
      BY <1>4, <1>6, <2>1, <2>3
    <3>2. /\ chunks[i].from < start
          /\ chunks[i].to < start + chunkSize
          /\ chunks[i].to < paragraphs[para]
      BY <1>3, <1>11, <2>1, <3>1 DEF ChunkInv, BehindOK
    <3>3. chunks[i].to < to
      BY <1>2, <1>8, <1>11, <3>2
    <3>4. j = i + 1 => i = n
      BY <1>3, <2>1, <2>3
    <3>5. i = n => chunks[i].to - start = Min({chunkOverlap, chunkSize - 1})
      BY <1>3, <1>11, <2>1, <3>1 DEF ChunkInv, LastOK, n
    <3> QED BY <2>1, <3>1, <3>2, <3>3, <3>4, <3>5
  <2> QED BY <1>5, <2>2, <2>3
<1>12. OverlapAsAsked'
  BY <1>1, <1>4, <1>11 DEF OverlapAsAsked
<1>13. BehindOK'
  <2> SUFFICES ASSUME chunkSize > 0, NEW i \in 1 .. n + 1
               PROVE  /\ chunks'[i].para <= para'
                      /\ chunks'[i].para = para' =>
                           /\ ~Done'
                           /\ chunks'[i].from < start'
                           /\ chunks'[i].to < start' + chunkSize
                           /\ chunks'[i].to < paragraphs[para']
    BY <1>1, <1>4 DEF BehindOK
  <2>1. CASE i \in 1 .. n
    <3>1. /\ chunks'[i] = chunks[i] /\ chunks[i].para <= para
          /\ chunks[i].para = para =>
               /\ chunks[i].from < start
               /\ chunks[i].to < start + chunkSize
               /\ chunks[i].to < paragraphs[para]
      BY <1>3, <1>4, <2>1 DEF ChunkInv, BehindOK
    <3>2. chunks[i].para \in Nat /\ chunks[i].from \in Nat /\ chunks[i].to \in Nat
      BY <1>7, <2>1
    <3>3. CASE para' = para + 1
      BY <1>2, <3>1, <3>2, <3>3
    <3>4. CASE para' = para /\ start < start' /\ start' \in 0 .. paragraphs[para] - 1
      <4>1. ~Done'
        BY <1>1, <1>2, <3>4 DEF Done
      <4>2. start \in Nat /\ chunkSize \in Nat /\ paragraphs[para] \in Nat
        BY <1>1, <1>2
      <4>3. start' \in Nat
        BY <3>4, <4>2
      <4>4. chunks[i].para = para =>
              chunks[i].from < start' /\ chunks[i].to < start' + chunkSize
        BY <3>1, <3>2, <3>4, <4>2, <4>3
      <4> QED BY <3>1, <3>4, <4>1, <4>4
    <3> QED BY <1>8, <3>3, <3>4
  <2>2. CASE i = n + 1
    <3>1. chunks'[i].para = para /\ chunks'[i].from = start /\ chunks'[i].to = to
      BY <1>4, <1>6, <2>2
    <3> QED BY <1>1, <1>2, <1>8, <3>1 DEF Done
  <2> QED BY <1>5, <2>1, <2>2
<1>14. LastOK'
  <2> SUFFICES ASSUME chunkSize > 0, chunks'[n + 1].para = para'
               PROVE  chunks'[n + 1].to - start' = Min({chunkOverlap, chunkSize - 1})
    BY <1>1, <1>4 DEF LastOK
  <2> QED BY <1>2, <1>4, <1>6, <1>8
<1>15. CoveredOK'
  <2> SUFFICES ASSUME chunkSize > 0, NEW p \in DOMAIN paragraphs, NEW w \in 0 .. paragraphs[p] - 1,
                      p < para' \/ (p = para' /\ w < start')
               PROVE  \E i \in 1 .. n + 1 :
                        chunks'[i].para = p /\ chunks'[i].from <= w /\ w < chunks'[i].to
    BY <1>1, <1>4 DEF CoveredOK
  <2>1. p \in Nat /\ w \in Nat
    BY <1>2
  <2>2. CASE p < para \/ (p = para /\ w < start)
    <3>1. PICK i \in 1 .. n : chunks[i].para = p /\ chunks[i].from <= w /\ w < chunks[i].to
      BY <1>3, <2>2 DEF ChunkInv, CoveredOK
    <3> QED BY <1>4, <1>5, <3>1
  <2>3. CASE ~(p < para \/ (p = para /\ w < start))
    <3>1. p = para /\ start <= w /\ w < to
      BY <1>2, <1>8, <2>1, <2>3
    <3> QED BY <1>4, <1>5, <1>6, <3>1
  <2> QED BY <2>2, <2>3
<1>16. StartOK'
  BY <1>1, <1>2, <1>8 DEF StartOK
<1> QED BY <1>9, <1>10, <1>12, <1>13, <1>14, <1>15, <1>16 DEF ChunkInv

LEMMA ChunkNextInv ==
  ASSUME ChunkInv, [ChunkNext]_chunkVars
  PROVE  ChunkInv'
<1>1. /\ paragraphs \in Seq(1 .. MaxWords) /\ MaxWords \in Nat
      /\ chunkSize \in Nat /\ chunkOverlap \in Nat
  BY ChunkBoundsAssumption DEF ChunkInv, ArgsOK
<1>2. ~Done => /\ para \in 1 .. Len(paragraphs) /\ paragraphs[para] \in Nat /\ paragraphs[para] >= 1
               /\ start \in Nat /\ start < paragraphs[para]
  <2>1. ~Done => para \in 1 .. Len(paragraphs) /\ start \in 0 .. paragraphs[para] - 1
    BY <1>1 DEF ChunkInv, ChunkTypeOK, Done
  <2>2. ~Done => paragraphs[para] \in 1 .. MaxWords
    BY <1>1, <2>1
  <2> QED BY <1>1, <2>1, <2>2
<1>3. CASE UNCHANGED chunkVars
  <2>1. ArgsOK'
    BY <1>3 DEF ChunkInv, ArgsOK, Windows, chunkVars
  <2>2. ChunkTypeOK' /\ StartOK'
    BY <1>3 DEF ChunkInv, ChunkTypeOK, StartOK, Done, chunkVars
  <2>3. OverlapAsAsked' /\ BehindOK' /\ LastOK'
    BY <1>3 DEF ChunkInv, OverlapAsAsked, BehindOK, LastOK, Done, chunkVars
  <2>4. CoveredOK'
    BY <1>3 DEF ChunkInv, CoveredOK, chunkVars
  <2> QED BY <2>1, <2>2, <2>3, <2>4 DEF ChunkInv
<1>4. CASE WholeParagraph
  <2> DEFINE to == paragraphs[para]
  <2>1. /\ ~Done /\ to <= chunkSize /\ Push(0, to) /\ NextParagraph /\ UNCHANGED args
    BY <1>4 DEF WholeParagraph
  <2>2. start = 0
    BY <2>1 DEF ChunkInv, StartOK
  <2> QED BY <1>1, <1>2, <2>1, <2>2, PushKeeps
<1>5. CASE Window
  <2> DEFINE words == paragraphs[para]
             to    == WindowEnd(start, chunkSize, words)
             next  == start + Step(chunkSize, chunkOverlap)
  <2>1. /\ ~Done /\ words > chunkSize /\ Push(start, to) /\ UNCHANGED args
        /\ IF to = words \/ next >= words
           THEN NextParagraph
           ELSE start' = next /\ UNCHANGED para
    BY <1>5 DEF Window, Ends
  <2>2. /\ to \in Nat /\ start <= to /\ to <= words /\ to - start <= chunkSize
        /\ to = words \/ to = start + chunkSize
    BY <1>1, <1>2, <2>1, WindowIs
  <2>3. /\ Step(chunkSize, chunkOverlap) \in Nat /\ Step(chunkSize, chunkOverlap) >= 1
        /\ chunkSize > 0 =>
             /\ Step(chunkSize, chunkOverlap) <= chunkSize
             /\ chunkSize - Step(chunkSize, chunkOverlap) = Min({chunkOverlap, chunkSize - 1})
    BY <1>1, StepIs
  <2> HIDE DEF to
  <2>4. CASE to = words \/ next >= words
    <3>1. to = words \/ chunkSize = 0
      BY <1>1, <1>2, <2>1, <2>2, <2>3, <2>4
    <3> QED BY <2>1, <2>2, <2>4, <3>1, PushKeeps
  <2>5. CASE ~(to = words \/ next >= words)
    <3>1. start' = next /\ UNCHANGED para
      BY <2>1, <2>5
    <3>2. /\ to = start + chunkSize /\ to < words
      BY <1>1, <1>2, <2>1, <2>2, <2>5
    <3>3. next \in Nat /\ start < next /\ next < words
      BY <1>1, <1>2, <2>1, <2>3, <2>5
    <3>4. chunkSize > 0 =>
            next <= to /\ to - next = chunkSize - Step(chunkSize, chunkOverlap)
      BY <1>1, <1>2, <2>1, <2>3, <3>2
    <3>5. chunkSize > 0 => next <= to /\ to - next = Min({chunkOverlap, chunkSize - 1})
      BY <2>3, <3>4
    <3> HIDE DEF words, next
    <3> QED BY <2>1, <2>2, <3>1, <3>2, <3>3, <3>5, PushKeeps DEF words
  <2> QED BY <2>4, <2>5
<1> QED BY <1>3, <1>4, <1>5 DEF ChunkNext

LEMMA ChunkAlwaysInv == ChunkSpec => []ChunkInv
<1>1. ChunkInv /\ [ChunkNext]_chunkVars => ChunkInv'
  BY ChunkNextInv
<1> QED BY <1>1, ChunkInitInv, PTL DEF ChunkSpec

(* Every word of every paragraph is in a chunk, whatever the text and the  *)
(* overlap, once the loop is done.                                         *)
THEOREM NoWordEverLost == ChunkSpec => []NoWordLost
<1>1. ChunkInv => NoWordLost
  <2> SUFFICES ASSUME ChunkInv, Done, chunkSize > 0, NEW p \in DOMAIN paragraphs,
                      NEW w \in 0 .. paragraphs[p] - 1
               PROVE  \E i \in DOMAIN chunks :
                        chunks[i].para = p /\ chunks[i].from <= w /\ w < chunks[i].to
    BY DEF ChunkInv, NoWordLost
  <2>1. p < para
    BY DEF ChunkInv, ArgsOK, ChunkTypeOK, Done
  <2> QED BY <2>1 DEF ChunkInv, CoveredOK
<1> QED BY <1>1, ChunkAlwaysInv, PTL

(* Consecutive windows share the words that were asked, and none is inside *)
(* another.                                                                *)
THEOREM AlwaysOverlapAsAsked == ChunkSpec => []OverlapAsAsked
<1>1. ChunkInv => OverlapAsAsked
  BY DEF ChunkInv
<1> QED BY <1>1, ChunkAlwaysInv, PTL

-----------------------------------------------------------------------------
(* DocumentMemory                                                          *)

-----------------------------------------------------------------------------
(* Kept                                                                    *)

(* The function that Kept is defined by is the loop of Vec::retain.        *)
LEMMA KeptLoop ==
  ASSUME NEW T, NEW s \in Seq(T), NEW S
  PROVE  \E f : /\ f = [i \in 0 .. Len(s) |->
                          IF i = 0 THEN <<>>
                          ELSE IF s[i] \in S THEN Append(f[i - 1], s[i]) ELSE f[i - 1]]
                /\ Kept(s, S) = f[Len(s)]
<1> DEFINE Body(f, i) == IF i = 0 THEN <<>>
                         ELSE IF s[i] \in S THEN Append(f[i - 1], s[i]) ELSE f[i - 1]
           Ok == {n \in Nat : \E f : f = [i \in 0 .. n |-> Body(f, i)]}
<1>1. 0 \in Ok
  <2> DEFINE f == [i \in 0 .. 0 |-> <<>>]
  <2>1. f = [i \in 0 .. 0 |-> Body(f, i)]
    OBVIOUS
  <2> QED BY <2>1
<1>2. ASSUME NEW n \in Nat, n \in Ok PROVE n + 1 \in Ok
  <2>1. PICK f : f = [i \in 0 .. n |-> Body(f, i)]
    BY <1>2
  <2> DEFINE g == [i \in 0 .. n + 1 |->
                     IF i <= n THEN f[i]
                     ELSE IF s[i] \in S THEN Append(f[i - 1], s[i]) ELSE f[i - 1]]
  <2>2. \A i \in 0 .. n : g[i] = f[i]
    OBVIOUS
  <2>3. \A i \in 0 .. n : f[i] = Body(f, i)
    BY <2>1
  <2>4. \A i \in 0 .. n : Body(f, i) = Body(g, i)
    BY <2>2
  <2>5. g[n + 1] = Body(g, n + 1)
    BY <2>2
  <2>6. DOMAIN g = 0 .. n + 1 /\ g = [i \in 0 .. n + 1 |-> g[i]]
    OBVIOUS
  <2>7. \A i \in 0 .. n + 1 : i \in 0 .. n \/ i = n + 1
    OBVIOUS
  <2> HIDE DEF Body, g
  <2>8. \A i \in 0 .. n + 1 : g[i] = Body(g, i)
    BY <2>2, <2>3, <2>4, <2>5, <2>7
  <2>9. g = [i \in 0 .. n + 1 |-> Body(g, i)]
    BY <2>6, <2>8
  <2>10. \E h : h = [i \in 0 .. n + 1 |-> Body(h, i)]
    BY <2>9
  <2> QED BY <2>10
<1>3. Len(s) \in Ok
  <2> HIDE DEF Ok
  <2> QED BY <1>1, <1>2, SetInduction
<1>4. \E f : f = [i \in 0 .. Len(s) |-> Body(f, i)]
  BY <1>3
<1> DEFINE h == CHOOSE f : f = [i \in 0 .. Len(s) |-> Body(f, i)]
<1>5. h = [i \in 0 .. Len(s) |-> Body(h, i)]
  <2> HIDE DEF Body
  <2> QED BY <1>4, Zenon
<1>6. Kept(s, S) = h[Len(s)]
  BY DEF Kept
<1> HIDE DEF h
<1> QED BY <1>5, <1>6

(* One element more                                                        *)
LEMMA KeptAppend ==
  ASSUME NEW T, NEW s \in Seq(T), NEW x \in T, NEW S
  PROVE  Kept(Append(s, x), S) = IF x \in S THEN Append(Kept(s, S), x) ELSE Kept(s, S)
<1> DEFINE n == Len(s)
           t == Append(s, x)
<1>1. /\ t \in Seq(T) /\ Len(t) = n + 1 /\ n \in Nat
      /\ \A i \in 1 .. n : t[i] = s[i]
      /\ t[n + 1] = x
  BY AppendProperties
<1> HIDE DEF t
<1>2. PICK f : /\ f = [i \in 0 .. Len(s) |->
                          IF i = 0 THEN <<>>
                          ELSE IF s[i] \in S THEN Append(f[i - 1], s[i]) ELSE f[i - 1]]
               /\ Kept(s, S) = f[Len(s)]
  BY KeptLoop
<1>3. PICK g : /\ g = [i \in 0 .. Len(t) |->
                          IF i = 0 THEN <<>>
                          ELSE IF t[i] \in S THEN Append(g[i - 1], t[i]) ELSE g[i - 1]]
               /\ Kept(t, S) = g[Len(t)]
  BY <1>1, KeptLoop
<1> HIDE DEF n
<1>4. /\ f[0] = <<>> /\ g[0] = <<>>
      /\ \A i \in 1 .. n : f[i] = IF s[i] \in S THEN Append(f[i - 1], s[i]) ELSE f[i - 1]
      /\ \A i \in 1 .. n + 1 : g[i] = IF t[i] \in S THEN Append(g[i - 1], t[i]) ELSE g[i - 1]
  <2>1. Len(s) = n /\ Len(t) = n + 1
    BY <1>1 DEF n
  <2>2. f[0] = <<>> /\ g[0] = <<>>
    <3>1. 0 \in 0 .. Len(s) /\ 0 \in 0 .. Len(t)
      BY <1>1, <2>1
    <3> QED BY <1>2, <1>3, <3>1
  <2>3. ASSUME NEW i \in 1 .. n
        PROVE  f[i] = IF s[i] \in S THEN Append(f[i - 1], s[i]) ELSE f[i - 1]
    <3>1. i \in 0 .. Len(s) /\ i # 0
      BY <1>1, <2>1
    <3> QED BY <1>2, <3>1
  <2>4. ASSUME NEW i \in 1 .. n + 1
        PROVE  g[i] = IF t[i] \in S THEN Append(g[i - 1], t[i]) ELSE g[i - 1]
    <3>1. i \in 0 .. Len(t) /\ i # 0
      BY <1>1, <2>1
    <3> QED BY <1>3, <3>1
  <2> QED BY <2>2, <2>3, <2>4
<1> DEFINE Ok == {i \in Nat : i <= n => f[i] = g[i]}
<1>5. 0 \in Ok
  BY <1>4
<1>6. ASSUME NEW i \in Nat, i \in Ok PROVE i + 1 \in Ok
  <2> SUFFICES ASSUME i + 1 <= n PROVE f[i + 1] = g[i + 1]
    OBVIOUS
  <2>1. i + 1 \in 1 .. n /\ i + 1 \in 1 .. n + 1 /\ (i + 1) - 1 = i /\ f[i] = g[i]
    BY <1>1, <1>6
  <2> QED BY <1>1, <1>4, <2>1
<1>7. \A i \in Nat : i \in Ok
  <2> HIDE DEF Ok
  <2> QED BY <1>5, <1>6, SetInduction
<1>8. g[n + 1] = IF x \in S THEN Append(f[n], x) ELSE f[n]
  <2>1. n + 1 \in 1 .. n + 1 /\ (n + 1) - 1 = n
    BY <1>1
  <2> QED BY <1>1, <1>4, <1>7, <2>1
<1>9. Kept(s, S) = f[n] /\ Kept(t, S) = g[n + 1]
  BY <1>1, <1>2, <1>3 DEF n
<1> QED BY <1>8, <1>9 DEF t

LEMMA KeptEmpty ==
  ASSUME NEW S
  PROVE  Kept(<<>>, S) = <<>>
<1> DEFINE e == <<>>
<1>1. e \in Seq({}) /\ Len(e) = 0
  BY EmptySeq
<1> HIDE DEF e
<1>2. PICK f : /\ f = [i \in 0 .. Len(e) |->
                          IF i = 0 THEN <<>>
                          ELSE IF e[i] \in S THEN Append(f[i - 1], e[i]) ELSE f[i - 1]]
               /\ Kept(e, S) = f[Len(e)]
  BY <1>1, KeptLoop
<1>3. Kept(e, S) = <<>>
  BY <1>1, <1>2
<1> QED BY <1>3 DEF e

(* The values of a longer sequence                                         *)
LEMMA AppendRange ==
  ASSUME NEW T, NEW s \in Seq(T), NEW x \in T
  PROVE  /\ Append(s, x) \in Seq(T)
         /\ Range(Append(s, x)) = Range(s) \cup {x}
         /\ Append(s, x) # <<>>
<1> DEFINE n == Len(s)
           t == Append(s, x)
<1>1. /\ t \in Seq(T) /\ n \in Nat /\ DOMAIN s = 1 .. n /\ DOMAIN t = 1 .. n + 1
      /\ \A i \in 1 .. n : t[i] = s[i]
      /\ t[n + 1] = x
  BY AppendProperties
<1> HIDE DEF n, t
<1>2. \A i : i \in 1 .. n + 1 <=> i \in 1 .. n \/ i = n + 1
  BY <1>1
<1>3. Range(t) = Range(s) \cup {x}
  <2>1. ASSUME NEW y PROVE y \in Range(t) <=> y \in Range(s) \cup {x}
    <3>1. y \in Range(t) <=> \E i \in 1 .. n + 1 : y = t[i]
      BY <1>1 DEF Range
    <3>2. y \in Range(s) <=> \E i \in 1 .. n : y = s[i]
      BY <1>1 DEF Range
    <3> QED BY <1>1, <1>2, <3>1, <3>2
  <2> QED BY <2>1
<1>4. t # <<>>
  BY <1>1
<1> QED BY <1>1, <1>3, <1>4 DEF t

LEMMA EmptyRange == Range(<<>>) = {}
  BY DEF Range

(* What is kept are the elements of the set.                               *)
LEMMA KeptType ==
  ASSUME NEW T, NEW S
  PROVE  \A s \in Seq(T) : Kept(s, S) \in Seq(T) /\ Range(Kept(s, S)) = Range(s) \cap S
<1> DEFINE P == {s \in Seq(T) : Kept(s, S) \in Seq(T) /\ Range(Kept(s, S)) = Range(s) \cap S}
<1>1. <<>> \in P
  BY KeptEmpty, EmptySeq, EmptyRange
<1>2. ASSUME NEW s \in Seq(T), NEW x \in T, s \in P PROVE Append(s, x) \in P
  <2>1. Append(s, x) \in Seq(T) /\ Range(Append(s, x)) = Range(s) \cup {x}
    BY AppendRange
  <2>2. Kept(s, S) \in Seq(T) /\ Range(Kept(s, S)) = Range(s) \cap S
    BY <1>2
  <2>3. CASE x \in S
    <3>1. Kept(Append(s, x), S) = Append(Kept(s, S), x)
      BY <2>3, KeptAppend
    <3>2. /\ Append(Kept(s, S), x) \in Seq(T)
          /\ Range(Append(Kept(s, S), x)) = Range(Kept(s, S)) \cup {x}
      BY <2>2, AppendRange
    <3> QED BY <2>1, <2>2, <2>3, <3>1, <3>2
  <2>4. CASE x \notin S
    <3>1. Kept(Append(s, x), S) = Kept(s, S)
      BY <2>4, KeptAppend
    <3> QED BY <2>1, <2>2, <2>4, <3>1
  <2> QED BY <2>3, <2>4
<1>3. Seq(T) \subseteq P
  <2> HIDE DEF P
  <2> QED BY <1>1, <1>2, SeqInduction
<1> QED BY <1>3

(* Two filters, one after the other                                        *)
LEMMA KeptAgain ==
  ASSUME NEW T, NEW S, NEW R
  PROVE  \A s \in Seq(T) : Kept(Kept(s, S), R) = Kept(s, S \cap R)
<1> DEFINE P == {s \in Seq(T) : Kept(Kept(s, S), R) = Kept(s, S \cap R)}
<1>1. <<>> \in P
  BY KeptEmpty, EmptySeq
<1>2. ASSUME NEW s \in Seq(T), NEW x \in T, s \in P PROVE Append(s, x) \in P
  <2>1. Append(s, x) \in Seq(T) /\ Kept(s, S) \in Seq(T)
    BY AppendRange, KeptType
  <2>2. Kept(Append(s, x), S) = IF x \in S THEN Append(Kept(s, S), x) ELSE Kept(s, S)
    BY KeptAppend
  <2>3. Kept(Append(s, x), S \cap R) =
          IF x \in S \cap R THEN Append(Kept(s, S \cap R), x) ELSE Kept(s, S \cap R)
    BY KeptAppend
  <2>4. Kept(Append(Kept(s, S), x), R) =
          IF x \in R THEN Append(Kept(Kept(s, S), R), x) ELSE Kept(Kept(s, S), R)
    BY <2>1, KeptAppend
  <2>5. Kept(Kept(s, S), R) = Kept(s, S \cap R)
    BY <1>2
  <2>6. Kept(Kept(Append(s, x), S), R) = Kept(Append(s, x), S \cap R)
    <3>1. CASE x \in S
      <4>1. Kept(Append(s, x), S) = Append(Kept(s, S), x)
        BY <2>2, <3>1, Zenon
      <4>2. CASE x \in R
        <5>1. Kept(Append(Kept(s, S), x), R) = Append(Kept(Kept(s, S), R), x)
          BY <2>4, <4>2, Zenon
        <5>2. Kept(Append(s, x), S \cap R) = Append(Kept(s, S \cap R), x)
          BY <2>3, <3>1, <4>2
        <5> QED BY <2>5, <4>1, <5>1, <5>2, Zenon
      <4>3. CASE x \notin R
        <5>1. Kept(Append(Kept(s, S), x), R) = Kept(Kept(s, S), R)
          BY <2>4, <4>3, Zenon
        <5>2. Kept(Append(s, x), S \cap R) = Kept(s, S \cap R)
          BY <2>3, <4>3
        <5> QED BY <2>5, <4>1, <5>1, <5>2, Zenon
      <4> QED BY <4>2, <4>3
    <3>2. CASE x \notin S
      BY <2>2, <2>3, <2>5, <3>2
    <3> QED BY <3>1, <3>2
  <2> QED BY <2>1, <2>6
<1>3. Seq(T) \subseteq P
  <2> HIDE DEF P
  <2> QED BY <1>1, <1>2, SeqInduction
<1> QED BY <1>3

(* Only the elements that the sequence has count.                          *)
LEMMA KeptSame ==
  ASSUME NEW T, NEW S, NEW R
  PROVE  \A s \in Seq(T) : (\A x \in Range(s) : x \in S <=> x \in R) => Kept(s, S) = Kept(s, R)
<1> DEFINE P == {s \in Seq(T) : (\A x \in Range(s) : x \in S <=> x \in R) => Kept(s, S) = Kept(s, R)}
<1>1. <<>> \in P
  BY KeptEmpty, EmptySeq
<1>2. ASSUME NEW s \in Seq(T), NEW x \in T, s \in P PROVE Append(s, x) \in P
  <2>1. Append(s, x) \in Seq(T) /\ Range(Append(s, x)) = Range(s) \cup {x}
    BY AppendRange
  <2>2. Kept(Append(s, x), S) = IF x \in S THEN Append(Kept(s, S), x) ELSE Kept(s, S)
    BY KeptAppend
  <2>3. Kept(Append(s, x), R) = IF x \in R THEN Append(Kept(s, R), x) ELSE Kept(s, R)
    BY KeptAppend
  <2> QED BY <1>2, <2>1, <2>2, <2>3
<1>3. Seq(T) \subseteq P
  <2> HIDE DEF P
  <2> QED BY <1>1, <1>2, SeqInduction
<1> QED BY <1>3

(* A filter that all pass                                                  *)
LEMMA KeptAll ==
  ASSUME NEW T, NEW S
  PROVE  \A s \in Seq(T) : Range(s) \subseteq S => Kept(s, S) = s
<1> DEFINE P == {s \in Seq(T) : Range(s) \subseteq S => Kept(s, S) = s}
<1>1. <<>> \in P
  BY KeptEmpty, EmptySeq
<1>2. ASSUME NEW s \in Seq(T), NEW x \in T, s \in P PROVE Append(s, x) \in P
  <2>1. Append(s, x) \in Seq(T) /\ Range(Append(s, x)) = Range(s) \cup {x}
    BY AppendRange
  <2>2. Kept(Append(s, x), S) = IF x \in S THEN Append(Kept(s, S), x) ELSE Kept(s, S)
    BY KeptAppend
  <2> QED BY <1>2, <2>1, <2>2
<1>3. Seq(T) \subseteq P
  <2> HIDE DEF P
  <2> QED BY <1>1, <1>2, SeqInduction
<1> QED BY <1>3

(* and one that none passes                                                *)
LEMMA KeptNone ==
  ASSUME NEW T, NEW S
  PROVE  \A s \in Seq(T) : Range(s) \cap S = {} => Kept(s, S) = <<>>
<1> SUFFICES ASSUME NEW s \in Seq(T), Range(s) \cap S = {} PROVE Kept(s, S) = <<>>
  OBVIOUS
<1>1. Kept(s, S) \in Seq(T) /\ Range(Kept(s, S)) = {}
  BY KeptType
<1>2. Len(Kept(s, S)) = 0
  <2> DEFINE t == Kept(s, S)
  <2>1. t \in Seq(T) /\ Range(t) = {}
    BY <1>1
  <2> HIDE DEF t
  <2>2. ~(1 \in DOMAIN t)
    BY <2>1 DEF Range
  <2>3. Len(t) = 0
    BY <2>1, <2>2
  <2> QED BY <2>3 DEF t
<1> QED BY <1>1, <1>2, EmptySeq

(* What is kept of two sequences, one behind the other                     *)
LEMMA KeptConcat ==
  ASSUME NEW T, NEW s \in Seq(T), NEW S
  PROVE  \A t \in Seq(T) : Kept(s \o t, S) = Kept(s, S) \o Kept(t, S)
<1> DEFINE P == {t \in Seq(T) : Kept(s \o t, S) = Kept(s, S) \o Kept(t, S)}
<1>0. Kept(s, S) \in Seq(T)
  BY KeptType
<1>1. <<>> \in P
  BY <1>0, KeptEmpty, EmptySeq, ConcatEmptySeq
<1>2. ASSUME NEW t \in Seq(T), NEW x \in T, t \in P PROVE Append(t, x) \in P
  <2>1. Append(t, x) \in Seq(T) /\ Kept(t, S) \in Seq(T) /\ s \o t \in Seq(T) /\ <<x>> \in Seq(T)
    BY AppendRange, KeptType, ConcatProperties
  <2>2. s \o Append(t, x) = Append(s \o t, x)
    BY <2>1, AppendIsConcat, ConcatAssociative
  <2>3. Kept(s, S) \o Append(Kept(t, S), x) = Append(Kept(s, S) \o Kept(t, S), x)
    <3>1. Kept(s, S) \o Kept(t, S) \in Seq(T)
      BY <1>0, <2>1, ConcatProperties
    <3> QED BY <1>0, <2>1, <3>1, AppendIsConcat, ConcatAssociative
  <2>4. Kept(Append(t, x), S) = IF x \in S THEN Append(Kept(t, S), x) ELSE Kept(t, S)
    BY KeptAppend
  <2>5. Kept(Append(s \o t, x), S) =
          IF x \in S THEN Append(Kept(s \o t, S), x) ELSE Kept(s \o t, S)
    BY <2>1, KeptAppend
  <2> QED BY <1>2, <2>1, <2>2, <2>3, <2>4, <2>5
<1>3. Seq(T) \subseteq P
  <2> HIDE DEF P
  <2> QED BY <1>1, <1>2, SeqInduction
<1> QED BY <1>3

(* Elements that are kept once occur once.                                 *)
LEMMA KeptOnce ==
  ASSUME NEW T, NEW S
  PROVE  \A s \in Seq(T) :
           IsInjective(Kept(s, S)) =>
             \A i, j \in DOMAIN s : s[i] = s[j] /\ s[i] \in S => i = j
<1> DEFINE Once(s) == \A i, j \in DOMAIN s : s[i] = s[j] /\ s[i] \in S => i = j
           P == {s \in Seq(T) : IsInjective(Kept(s, S)) => Once(s)}
<1>1. <<>> \in P
  BY EmptySeq
<1>2. ASSUME NEW s \in Seq(T), NEW x \in T, s \in P PROVE Append(s, x) \in P
  <2> DEFINE t == Append(s, x)
             n == Len(s)
             k == Kept(s, S)
  <2>1. /\ t \in Seq(T) /\ n \in Nat /\ DOMAIN s = 1 .. n /\ DOMAIN t = 1 .. n + 1
        /\ \A i \in 1 .. n : t[i] = s[i]
        /\ t[n + 1] = x
    BY AppendProperties
  <2>2. Kept(t, S) = IF x \in S THEN Append(k, x) ELSE k
    BY KeptAppend
  <2>3. k \in Seq(T) /\ Range(k) = Range(s) \cap S
    BY KeptType
  <2>4. IsInjective(k) => Once(s)
    BY <1>2
  <2> HIDE DEF t, n, k
  <2> SUFFICES ASSUME IsInjective(Kept(t, S)) PROVE Once(t)
    BY <2>1 DEF t
  <2>5. \A i : i \in 1 .. n + 1 <=> i \in 1 .. n \/ i = n + 1
    BY <2>1
  <2>6. CASE x \notin S
    BY <2>1, <2>2, <2>4, <2>5, <2>6
  <2>7. CASE x \in S
    <3> DEFINE u == Append(k, x)
               m == Len(k)
    <3>1. /\ u \in Seq(T) /\ m \in Nat /\ DOMAIN k = 1 .. m /\ DOMAIN u = 1 .. m + 1
          /\ \A i \in 1 .. m : u[i] = k[i]
          /\ u[m + 1] = x
      BY <2>3, AppendProperties
    <3>2. IsInjective(u)
      BY <2>2, <2>7
    <3> HIDE DEF u, m
    <3>3. \A i \in 1 .. m : i \in 1 .. m + 1 /\ m + 1 \in 1 .. m + 1 /\ i # m + 1
      BY <3>1
    <3>4. IsInjective(k)
      BY <3>1, <3>2, <3>3 DEF IsInjective
    <3>5. x \notin Range(k)
      BY <3>1, <3>2, <3>3 DEF IsInjective, Range
    <3>6. x \notin Range(s)
      BY <2>3, <2>7, <3>5
    <3>7. \A i \in 1 .. n : s[i] # x
      BY <2>1, <3>6 DEF Range
    <3> QED BY <2>1, <2>4, <2>5, <3>4, <3>7
  <2> QED BY <2>6, <2>7
<1>3. Seq(T) \subseteq P
  <2> HIDE DEF P
  <2> QED BY <1>1, <1>2, SeqInduction
<1> QED BY <1>3

-----------------------------------------------------------------------------
(* The chunks of a document                                                *)
DocSet(d) == {c \in Chunks : c.docId = d}

LEMMA OfDocumentIs ==
  ASSUME NEW list \in Seq(Chunks), NEW d
  PROVE  /\ OfDocument(list, d) = Kept(list, DocSet(d))
         /\ NotOfDocument(list, d) = Kept(list, Chunks \ DocSet(d))
<1>1. Range(list) \subseteq Chunks
  BY DEF Range
<1>2. \A c \in Range(list) :
        /\ c \in {x \in Range(list) : x.docId = d} <=> c \in DocSet(d)
        /\ c \in {x \in Range(list) : x.docId # d} <=> c \in Chunks \ DocSet(d)
  BY <1>1 DEF DocSet
<1> QED BY <1>2, KeptSame DEF OfDocument, NotOfDocument

LEMMA OfDocumentType ==
  ASSUME NEW list \in Seq(Chunks), NEW d
  PROVE  OfDocument(list, d) \in Seq(Chunks)
<1>1. Kept(list, DocSet(d)) \in Seq(Chunks)
  BY KeptType
<1> QED BY <1>1, OfDocumentIs

LEMMA OfDocumentNone ==
  ASSUME NEW list \in Seq(Chunks), NEW d, Range(list) \cap DocSet(d) = {}
  PROVE  OfDocument(list, d) = <<>>
<1>1. Kept(list, DocSet(d)) = <<>>
  BY KeptNone
<1> QED BY <1>1, OfDocumentIs

LEMMA OfDocumentConcat ==
  ASSUME NEW s \in Seq(Chunks), NEW t \in Seq(Chunks), NEW d
  PROVE  OfDocument(s \o t, d) = OfDocument(s, d) \o OfDocument(t, d)
<1>1. Kept(s \o t, DocSet(d)) = Kept(s, DocSet(d)) \o Kept(t, DocSet(d))
  BY KeptConcat
<1>2. s \o t \in Seq(Chunks)
  BY ConcatProperties
<1>3. OfDocument(s \o t, d) = Kept(s \o t, DocSet(d))
  BY <1>2, OfDocumentIs
<1>4. OfDocument(s, d) = Kept(s, DocSet(d)) /\ OfDocument(t, d) = Kept(t, DocSet(d))
  BY OfDocumentIs
<1> QED BY <1>1, <1>3, <1>4

(* To drop the chunks of a document leaves those of the others.            *)
LEMMA NotOfDocumentIs ==
  ASSUME NEW list \in Seq(Chunks), NEW d
  PROVE  LET rest == NotOfDocument(list, d)
         IN  /\ rest \in Seq(Chunks)
             /\ Range(rest) = {c \in Range(list) : c.docId # d}
             /\ OfDocument(rest, d) = <<>>
             /\ \A e : e # d => OfDocument(rest, e) = OfDocument(list, e)
<1> DEFINE rest == NotOfDocument(list, d)
<1>1. rest = Kept(list, Chunks \ DocSet(d))
  BY OfDocumentIs
<1> HIDE DEF rest
<1>2. rest \in Seq(Chunks) /\ Range(rest) = Range(list) \cap (Chunks \ DocSet(d))
  BY <1>1, KeptType
<1>3. Range(list) \subseteq Chunks
  BY DEF Range
<1>4. Range(rest) = {c \in Range(list) : c.docId # d}
  BY <1>2, <1>3 DEF DocSet
<1>5. OfDocument(rest, d) = <<>>
  <2>1. Range(rest) \cap DocSet(d) = {}
    BY <1>2
  <2> QED BY <1>2, <2>1, OfDocumentNone
<1>6. ASSUME NEW e, e # d PROVE OfDocument(rest, e) = OfDocument(list, e)
  <2>1. (Chunks \ DocSet(d)) \cap DocSet(e) = DocSet(e)
    BY <1>6 DEF DocSet
  <2>2. Kept(rest, DocSet(e)) = Kept(list, (Chunks \ DocSet(d)) \cap DocSet(e))
    BY <1>1, KeptAgain
  <2> QED BY <1>2, <2>1, <2>2, OfDocumentIs
<1> QED BY <1>2, <1>4, <1>5, <1>6 DEF rest

(* The chunks of a list of pieces are those of the document, in the order  *)
(* of the pieces, and no two are equal.                                    *)
LEMMA NewChunksAre ==
  ASSUME NEW d \in DocIds, NEW pieces \in Seq(Pieces), Len(pieces) <= MaxPieces
  PROVE  LET new == NewChunks(d, pieces)
         IN  /\ new \in Seq(Chunks)
             /\ Range(new) \subseteq DocSet(d)
             /\ IsInjective(new)
             /\ OfDocument(new, d) = new
             /\ \A e : e # d => OfDocument(new, e) = <<>>
<1> DEFINE new == NewChunks(d, pieces)
           n == Len(pieces)
<1>1. n \in Nat /\ DOMAIN pieces = 1 .. n /\ n <= MaxPieces /\ MaxPieces \in Nat
  BY BoundsAssumption
<1> HIDE DEF n
<1>2. /\ DOMAIN new = 1 .. n
      /\ \A i \in 1 .. n : new[i] = [docId |-> d, idx |-> i - 1, text |-> Preview[pieces[i].text],
                                     embedding |-> pieces[i].embedding]
      /\ new = [i \in 1 .. n |-> new[i]]
  BY <1>1 DEF NewChunks
<1>3. \A i \in 1 .. n : pieces[i] \in Pieces
  BY <1>1
<1> HIDE DEF new
<1>4. ASSUME NEW i \in 1 .. n PROVE new[i] \in Chunks /\ new[i].docId = d /\ new[i].idx = i - 1
  <2>1. i - 1 \in 0 .. MaxPieces - 1
    BY <1>1
  <2>2. Preview[pieces[i].text] \in Texts /\ pieces[i].embedding \in {p.embedding : p \in Pieces}
    BY <1>3, PreviewAssumption DEF Texts
  <2> QED BY <1>2, <2>1, <2>2 DEF Chunks
<1>5. new \in Seq(Chunks)
  BY <1>1, <1>2, <1>4
<1>6. Range(new) \subseteq DocSet(d)
  BY <1>2, <1>4 DEF Range, DocSet
<1>7. IsInjective(new)
  BY <1>1, <1>2, <1>4 DEF IsInjective
<1>8. OfDocument(new, d) = new
  BY <1>5, <1>6, OfDocumentIs, KeptAll
<1>9. ASSUME NEW e, e # d PROVE OfDocument(new, e) = <<>>
  <2>1. Range(new) \cap DocSet(e) = {}
    BY <1>6, <1>9 DEF DocSet
  <2> QED BY <1>5, <2>1, OfDocumentNone
<1> QED BY <1>5, <1>6, <1>7, <1>8, <1>9 DEF new

-----------------------------------------------------------------------------
(* What the memory m holds when h was added                                *)
Documents == UNION {[D -> Entries] : D \in SUBSET DocIds}

MemoryType(m) ==
  /\ m = [documents |-> m.documents, chunks |-> m.chunks, ann |-> m.ann]
  /\ m.documents \in Documents
  /\ m.chunks \in Seq(Chunks)

HeldType(h) ==
  /\ DOMAIN h \subseteq DocIds
  /\ \A d \in DOMAIN h :
       /\ h[d].metadata \in MetadataValues
       /\ h[d].pieces \in Seq(Pieces) /\ Len(h[d].pieces) <= MaxPieces

IndexOK(m) ==
  m.ann # NoIndex =>
    m.ann = [i \in DOMAIN m.chunks |-> [pos |-> i, embedding |-> m.chunks[i].embedding]]

Holds(documents, list, h) ==
  /\ DOMAIN documents = DOMAIN h
  /\ \A d \in DOMAIN h : /\ documents[d].metadata = h[d].metadata
                         /\ OfDocument(list, d) = NewChunks(d, h[d].pieces)
  /\ \A c \in Range(list) : c.docId \in DOMAIN h

MemoryOK(m, h) == MemoryType(m) /\ IndexOK(m) /\ Holds(m.documents, m.chunks, h)

(* The index is rebuilt from the chunks.                                   *)
LEMMA RebuiltIs ==
  ASSUME NEW m, MemoryType(m)
  PROVE  /\ MemoryType(Rebuilt(m)) /\ IndexOK(Rebuilt(m))
         /\ Rebuilt(m).documents = m.documents /\ Rebuilt(m).chunks = m.chunks
<1>1. CASE m.ann = NoIndex
  BY <1>1 DEF Rebuilt, IndexOK
<1>2. CASE m.ann # NoIndex
  <2> DEFINE a == [i \in DOMAIN m.chunks |-> [pos |-> i, embedding |-> m.chunks[i].embedding]]
  <2>1. Rebuilt(m) = [m EXCEPT !.ann = a]
    BY <1>2 DEF Rebuilt
  <2> HIDE DEF a
  <2>2. Rebuilt(m) = [documents |-> m.documents, chunks |-> m.chunks, ann |-> a]
    BY <2>1 DEF MemoryType
  <2>3. Rebuilt(m).documents = m.documents /\ Rebuilt(m).chunks = m.chunks /\ Rebuilt(m).ann = a
    BY <2>2
  <2>4. MemoryType(Rebuilt(m))
    BY <2>2, <2>3 DEF MemoryType
  <2>5. IndexOK(Rebuilt(m))
    BY <2>3 DEF IndexOK, a
  <2> QED BY <2>3, <2>4, <2>5
<1> QED BY <1>1, <1>2

(* Without a document                                                      *)
LEMMA ForgottenHolds ==
  ASSUME NEW m, NEW h, MemoryOK(m, h), NEW d
  PROVE  MemoryOK(Forgotten(m, d), Without(h, d))
<1> DEFINE rest == NotOfDocument(m.chunks, d)
           docs == Without(m.documents, d)
           k    == [m EXCEPT !.chunks = NotOfDocument(@, d), !.documents = Without(@, d)]
<1>1. k = [documents |-> docs, chunks |-> rest, ann |-> m.ann]
  <2>1. k = [m EXCEPT !.chunks = rest, !.documents = docs]
    OBVIOUS
  <2> HIDE DEF k, rest, docs
  <2> QED BY <2>1 DEF MemoryOK, MemoryType
<1>2. k.documents = docs /\ k.chunks = rest /\ k.ann = m.ann
  BY <1>1
<1>3. /\ rest \in Seq(Chunks)
      /\ Range(rest) = {c \in Range(m.chunks) : c.docId # d}
      /\ \A e : e # d => OfDocument(rest, e) = OfDocument(m.chunks, e)
  BY NotOfDocumentIs DEF MemoryOK, MemoryType
<1>4. /\ docs \in Documents /\ DOMAIN docs = DOMAIN m.documents \ {d}
      /\ \A e \in DOMAIN docs : docs[e] = m.documents[e]
  <2>1. PICK D \in SUBSET DocIds : m.documents \in [D -> Entries]
    BY DEF MemoryOK, MemoryType, Documents
  <2>2. docs = [e \in D \ {d} |-> m.documents[e]]
    BY <2>1 DEF Without, Restrict
  <2>3. docs \in [D \ {d} -> Entries] /\ D \ {d} \in SUBSET DocIds
    BY <2>1, <2>2
  <2> QED BY <2>1, <2>2, <2>3 DEF Documents
<1>5. MemoryType(k)
  <2> HIDE DEF k, docs, rest
  <2> QED BY <1>1, <1>2, <1>3, <1>4 DEF MemoryType
<1>6. Forgotten(m, d) = Rebuilt(k)
  BY DEF Forgotten
<1>7. DOMAIN Without(h, d) = DOMAIN h \ {d} /\ \A e \in DOMAIN h \ {d} : Without(h, d)[e] = h[e]
  BY DEF Without, Restrict
<1> HIDE DEF k, docs, rest
<1>8. Holds(docs, rest, Without(h, d))
  BY <1>3, <1>4, <1>7 DEF MemoryOK, Holds
<1> QED BY <1>2, <1>5, <1>6, <1>8, RebuiltIs DEF MemoryOK

LEMMA WithoutType ==
  ASSUME NEW h, HeldType(h), NEW d
  PROVE  HeldType(Without(h, d))
  BY DEF HeldType, Without, Restrict

(* A document is replaced.                                                 *)
LEMMA AddedHolds ==
  ASSUME NEW m, NEW h, MemoryOK(m, h), HeldType(h), NEW d \in DocIds,
         NEW n \in 1 .. MaxPieces, NEW pieces \in Seq(Pieces), Len(pieces) <= MaxPieces,
         NEW metadata \in MetadataValues
  PROVE  MemoryOK(Added(m, d, n, pieces, metadata),
                  Set(h, d, [metadata |-> metadata, pieces |-> pieces]))
<1> DEFINE old   == Replaced(m, d)
           g     == Without(h, d)
           new   == NewChunks(d, pieces)
           entry == [metadata |-> metadata, nChunks |-> n]
           docs  == Set(old.documents, d, entry)
           all   == old.chunks \o new
           k     == [old EXCEPT !.chunks = @ \o NewChunks(d, pieces),
                       !.documents = Set(@, d, [metadata |-> metadata, nChunks |-> n])]
           x     == [metadata |-> metadata, pieces |-> pieces]
           h2    == Set(h, d, x)
<1>1. /\ MemoryType(old) /\ IndexOK(old)
      /\ Holds(old.documents, old.chunks, g)
  <2>1. CASE d \in DOMAIN m.documents
    BY <2>1, ForgottenHolds DEF Replaced, MemoryOK
  <2>2. CASE d \notin DOMAIN m.documents
    <3>1. old = m
      BY <2>2 DEF Replaced
    <3>2. DOMAIN h = DOMAIN m.documents
      BY DEF MemoryOK, Holds
    <3>3. DOMAIN g = DOMAIN h /\ \A e \in DOMAIN h : g[e] = h[e]
      BY <2>2, <3>2 DEF Without, Restrict
    <3> HIDE DEF old, g
    <3> QED BY <3>1, <3>3 DEF MemoryOK, Holds
  <2> QED BY <2>1, <2>2
<1>2. /\ new \in Seq(Chunks) /\ Range(new) \subseteq DocSet(d)
      /\ OfDocument(new, d) = new
      /\ \A e : e # d => OfDocument(new, e) = <<>>
  BY NewChunksAre
<1>3. DOMAIN g = DOMAIN h \ {d} /\ \A e \in DOMAIN h \ {d} : g[e] = h[e]
  BY DEF Without, Restrict
<1>4. /\ DOMAIN h2 = DOMAIN h \cup {d} /\ h2[d] = x
      /\ \A e \in DOMAIN h \ {d} : h2[e] = h[e]
  BY DEF Set
<1>5. entry \in Entries /\ x.metadata = metadata /\ x.pieces = pieces /\ entry.metadata = metadata
  BY DEF Entries
<1> HIDE DEF new, g, x, h2, old, entry
<1>6. k = [documents |-> docs, chunks |-> all, ann |-> old.ann]
  <2>1. k = [old EXCEPT !.chunks = all, !.documents = docs]
    BY DEF new, entry
  <2> HIDE DEF k, all, docs
  <2> QED BY <1>1, <2>1 DEF MemoryType
<1>7. k.documents = docs /\ k.chunks = all
  BY <1>6
<1>8. Added(m, d, n, pieces, metadata) = Rebuilt(k)
  BY DEF Added, old
<1>9. /\ docs \in Documents /\ DOMAIN docs = DOMAIN old.documents \cup {d} /\ docs[d] = entry
      /\ \A e \in DOMAIN old.documents \ {d} : docs[e] = old.documents[e]
  <2>1. PICK D \in SUBSET DocIds : old.documents \in [D -> Entries]
    BY <1>1 DEF MemoryType, Documents
  <2>2. docs = [e \in D \cup {d} |-> IF e = d THEN entry ELSE old.documents[e]]
    BY <2>1 DEF Set
  <2>3. docs \in [D \cup {d} -> Entries] /\ D \cup {d} \in SUBSET DocIds
    BY <1>5, <2>1, <2>2
  <2> QED BY <2>1, <2>2, <2>3 DEF Documents
<1>10. all \in Seq(Chunks) /\ Range(all) = Range(old.chunks) \cup Range(new)
  BY <1>1, <1>2, ConcatProperties, RangeConcatenation DEF MemoryType
<1> HIDE DEF k, docs
<1>11. ASSUME NEW e \in DocIds PROVE OfDocument(all, e) = OfDocument(old.chunks, e) \o OfDocument(new, e)
  BY <1>1, <1>2, OfDocumentConcat DEF MemoryType
<1> HIDE DEF all
<1>12. MemoryType(k)
  BY <1>6, <1>7, <1>9, <1>10 DEF MemoryType
<1>13. Holds(docs, all, h2)
  <2>1. DOMAIN docs = DOMAIN h2
    BY <1>1, <1>3, <1>4, <1>9 DEF Holds
  <2>2. \A c \in Range(all) : c.docId \in DOMAIN h2
    BY <1>1, <1>2, <1>3, <1>4, <1>10 DEF Holds, DocSet
  <2>3. /\ docs[d].metadata = h2[d].metadata
        /\ OfDocument(all, d) = NewChunks(d, h2[d].pieces)
    <3>1. OfDocument(old.chunks, d) = <<>>
      <4>1. Range(old.chunks) \cap DocSet(d) = {}
        BY <1>1, <1>3 DEF Holds, DocSet
      <4> QED BY <1>1, <4>1, OfDocumentNone DEF MemoryType
    <3>2. OfDocument(all, d) = new
      BY <1>2, <1>11, <3>1, ConcatEmptySeq
    <3> QED BY <1>4, <1>5, <1>9, <3>2 DEF new
  <2>4. ASSUME NEW e \in DOMAIN h2, e # d
        PROVE  /\ docs[e].metadata = h2[e].metadata
               /\ OfDocument(all, e) = NewChunks(e, h2[e].pieces)
    <3>1. e \in DOMAIN h \ {d} /\ e \in DocIds /\ e \in DOMAIN g /\ e \in DOMAIN old.documents
      BY <1>1, <1>3, <1>4, <2>4 DEF HeldType, Holds
    <3>2. /\ old.documents[e].metadata = h2[e].metadata
          /\ OfDocument(old.chunks, e) = NewChunks(e, h2[e].pieces)
      BY <1>1, <1>3, <1>4, <3>1 DEF Holds
    <3>3. OfDocument(old.chunks, e) \in Seq(Chunks)
      BY <1>1, OfDocumentType DEF MemoryType
    <3>4. OfDocument(all, e) = OfDocument(old.chunks, e)
      BY <1>2, <1>11, <2>4, <3>1, <3>3, ConcatEmptySeq
    <3> QED BY <1>9, <2>4, <3>1, <3>2, <3>4
  <2> QED BY <2>1, <2>2, <2>3, <2>4 DEF Holds
<1>14. MemoryOK(Rebuilt(k), h2)
  BY <1>7, <1>12, <1>13, RebuiltIs DEF MemoryOK
<1> QED BY <1>8, <1>14 DEF h2, x

LEMMA SetType ==
  ASSUME NEW h, HeldType(h), NEW d \in DocIds,
         NEW pieces \in Seq(Pieces), Len(pieces) <= MaxPieces, NEW metadata \in MetadataValues
  PROVE  HeldType(Set(h, d, [metadata |-> metadata, pieces |-> pieces]))
  BY DEF HeldType, Set

-----------------------------------------------------------------------------
(* The inductive invariant                                                 *)
FileOK ==
  file # Torn =>
    IF file = NoFile THEN saved = NoDocuments
    ELSE /\ file.documents \in Documents
         /\ file.chunks \in Seq(Chunks)
         /\ Holds(file.documents, file.chunks, saved)

IInv == MemoryOK(dm, held) /\ HeldType(held) /\ HeldType(saved) /\ FileOK

LEMMA ListsAre ==
  ASSUME NEW pieces \in Lists
  PROVE  pieces \in Seq(Pieces) /\ Len(pieces) <= MaxPieces
<1>1. PICK n \in 0 .. MaxPieces : pieces \in [1 .. n -> Pieces]
  BY DEF Lists, BoundedSeq, SeqOf
<1>2. n \in Nat /\ MaxPieces \in Nat
  BY BoundsAssumption
<1> QED BY <1>1, <1>2

LEMMA NewHolds ==
  ASSUME NEW h, h = NoDocuments
  PROVE  MemoryOK(NewDocumentMemory, h) /\ HeldType(h)
<1>1. DOMAIN NoDocuments = {}
  BY DEF NoDocuments
<1>2. NoDocuments \in [{} -> Entries] /\ {} \in SUBSET DocIds
  BY DEF NoDocuments
<1>3. NoDocuments \in Documents
  BY <1>2 DEF Documents
<1> DEFINE m == NewDocumentMemory
<1>4. m = [documents |-> NoDocuments, chunks |-> <<>>, ann |-> NoIndex]
  BY DEF NewDocumentMemory
<1>5. m.documents = NoDocuments /\ m.chunks = <<>> /\ m.ann = NoIndex
  BY <1>4
<1> HIDE DEF m
<1>6. MemoryType(m) /\ IndexOK(m)
  BY <1>3, <1>4, <1>5, EmptySeq DEF MemoryType, IndexOK
<1>7. Holds(m.documents, m.chunks, h)
  BY <1>1, <1>5, EmptyRange DEF Holds
<1> QED BY <1>1, <1>6, <1>7 DEF MemoryOK, HeldType, m

LEMMA InitInv == Init => IInv
<1> SUFFICES ASSUME Init PROVE IInv
  OBVIOUS
<1>1. dm = NewDocumentMemory /\ file = NoFile /\ held = NoDocuments /\ saved = NoDocuments
  BY DEF Init
<1> QED BY <1>1, NewHolds DEF IInv, FileOK

LEMMA NextInv ==
  ASSUME IInv, [Next]_vars
  PROVE  IInv'
<1>0. Called => UNCHANGED <<file, saved>>
  BY DEF Called
<1>1. CASE UNCHANGED <<dm, file, held, saved>>
  BY <1>1 DEF IInv, FileOK
<1>2. ASSUME NEW d, UNCHANGED <<file, saved>>, dm' = Forgotten(dm, d), held' = Without(held, d)
      PROVE  IInv'
  <2>1. MemoryOK(dm', held') /\ HeldType(held')
    BY <1>2, ForgottenHolds, WithoutType DEF IInv
  <2> QED BY <1>2, <2>1 DEF IInv, FileOK
<1>3. ASSUME NEW d \in DocIds, NEW n \in 1 .. MaxPieces,
             NEW pieces \in Seq(Pieces), Len(pieces) <= MaxPieces, NEW md \in MetadataValues,
             UNCHANGED <<file, saved>>, dm' = Added(dm, d, n, pieces, md),
             held' = Set(held, d, [metadata |-> md, pieces |-> pieces])
      PROVE  IInv'
  <2>1. MemoryOK(dm', held') /\ HeldType(held')
    BY <1>3, AddedHolds, SetType DEF IInv
  <2> QED BY <1>3, <2>1 DEF IInv, FileOK
<1>4. \A pieces \in Lists : pieces # <<>> => Len(pieces) \in 1 .. MaxPieces
  BY ListsAre, EmptySeq, BoundsAssumption
<1>5. CASE \E d \in DocIds : AddBlankText(d) \/ ForgetDocument(d)
  BY <1>0, <1>2, <1>5 DEF AddBlankText, ForgetDocument
<1>6. CASE \E d \in DocIds, pieces \in Lists, md \in MetadataValues : AddDocument(d, pieces, md)
  <2>1. PICK d \in DocIds, pieces \in Lists, md \in MetadataValues : AddDocument(d, pieces, md)
    BY <1>6
  <2>2. PICK embedded \in Encodings(pieces) :
          /\ dm' = Added(dm, d, Len(pieces), embedded, md)
          /\ held' = Set(held, d, [metadata |-> md, pieces |-> embedded])
    BY <2>1 DEF AddDocument
  <2>3. UNCHANGED <<file, saved>> /\ Len(pieces) \in 1 .. MaxPieces
    BY <1>0, <1>4, <2>1 DEF AddDocument
  <2>4. embedded \in Seq(Pieces) /\ Len(embedded) <= MaxPieces
    <3>1. embedded = pieces \/ embedded = <<>>
      BY <2>2 DEF Encodings
    <3>2. <<>> \in Seq(Pieces) /\ Len(<<>>) <= MaxPieces
      BY EmptySeq, BoundsAssumption
    <3> QED BY <3>1, <3>2, ListsAre
  <2> QED BY <1>3, <2>2, <2>3, <2>4
<1>7. CASE \E d \in DocIds, pieces \in Lists, md \in MetadataValues :
             AddDocumentWithEmbeddings(d, pieces, md)
  <2>1. PICK d \in DocIds, pieces \in Lists, md \in MetadataValues :
               AddDocumentWithEmbeddings(d, pieces, md)
    BY <1>7
  <2>2. /\ dm' = Added(dm, d, Len(pieces), pieces, md)
        /\ held' = Set(held, d, [metadata |-> md, pieces |-> pieces])
        /\ UNCHANGED <<file, saved>> /\ Len(pieces) \in 1 .. MaxPieces
    BY <1>0, <1>4, <2>1 DEF AddDocumentWithEmbeddings
  <2> QED BY <1>3, <2>2, ListsAre
<1>8. CASE WithAnn
  <2> DEFINE m == [dm EXCEPT !.ann = <<>>]
  <2>1. dm' = Rebuilt(m) /\ UNCHANGED <<file, held, saved>>
    BY <1>8 DEF WithAnn
  <2>2. MemoryType(dm) /\ Holds(dm.documents, dm.chunks, held)
    BY DEF IInv, MemoryOK
  <2>3. m = [documents |-> dm.documents, chunks |-> dm.chunks, ann |-> <<>>]
    BY <2>2 DEF MemoryType
  <2>4. m.documents = dm.documents /\ m.chunks = dm.chunks /\ m.ann = <<>>
    BY <2>3
  <2> HIDE DEF m
  <2>5. MemoryType(m)
    BY <2>2, <2>3, <2>4 DEF MemoryType
  <2>6. MemoryOK(dm', held')
    BY <2>1, <2>2, <2>4, <2>5, RebuiltIs DEF MemoryOK
  <2> QED BY <2>1, <2>6 DEF IInv, FileOK
<1>9. CASE Save
  <2>1. /\ file' = [documents |-> dm.documents, chunks |-> dm.chunks] /\ saved' = held
        /\ UNCHANGED <<dm, held>>
    BY <1>9 DEF Save
  <2>2. /\ dm.documents \in Documents /\ dm.chunks \in Seq(Chunks)
        /\ Holds(dm.documents, dm.chunks, held)
    BY DEF IInv, MemoryOK, MemoryType
  <2>3. file' \in Files
    BY <2>1, <2>2 DEF Files, Documents
  <2>4. file' # NoFile
    BY <2>3, FileAssumption
  <2>5. file'.documents = dm.documents /\ file'.chunks = dm.chunks
    BY <2>1
  <2>6. FileOK'
    BY <2>1, <2>2, <2>4, <2>5 DEF FileOK
  <2> QED BY <2>1, <2>6 DEF IInv
<1>10. CASE Crash
  BY <1>1, <1>10 DEF Crash
<1>11. CASE CrashInSave
  <2>1. file' = Torn /\ UNCHANGED <<dm, held, saved>>
    BY <1>11 DEF CrashInSave
  <2> QED BY <2>1 DEF IInv, FileOK
<1>12. CASE Load
  <2>1. /\ file # Torn /\ UNCHANGED <<file, saved>> /\ held' = saved
        /\ dm' = IF file = NoFile THEN NewDocumentMemory ELSE Restored(file)
    BY <1>12 DEF Load, Readable
  <2>2. CASE file = NoFile
    <3>1. dm' = NewDocumentMemory /\ held' = NoDocuments
      BY <2>1, <2>2 DEF IInv, FileOK
    <3>2. MemoryOK(dm', held')
      BY <3>1, NewHolds
    <3> QED BY <2>1, <3>2 DEF IInv, FileOK
  <2>3. CASE file # NoFile
    <3>1. dm' = [documents |-> file.documents, chunks |-> file.chunks, ann |-> NoIndex]
      BY <2>1, <2>3 DEF Restored
    <3>2. dm'.documents = file.documents /\ dm'.chunks = file.chunks /\ dm'.ann = NoIndex
      BY <3>1
    <3>3. /\ file.documents \in Documents
          /\ file.chunks \in Seq(Chunks)
          /\ Holds(file.documents, file.chunks, saved)
      BY <2>1, <2>3 DEF IInv, FileOK
    <3>4. MemoryOK(dm', held')
      BY <2>1, <3>1, <3>2, <3>3 DEF MemoryOK, MemoryType, IndexOK
    <3> QED BY <2>1, <3>4 DEF IInv, FileOK
  <2> QED BY <2>2, <2>3
<1> QED BY <1>1, <1>5, <1>6, <1>7, <1>8, <1>9, <1>10, <1>11, <1>12 DEF Next, vars

LEMMA AlwaysInv == Spec => []IInv
<1>1. IInv /\ [Next]_vars => IInv'
  BY NextInv
<1> QED BY <1>1, InitInv, PTL DEF Spec

(* What the memory holds is what was added.                                *)
LEMMA ContentsAsAdded ==
  ASSUME NEW m, NEW h, Holds(m.documents, m.chunks, h)
  PROVE  Contents(m) = AsAdded(h)
  BY DEF Holds, Contents, AsAdded, ChunksOf

(* Entries and chunks never disagree about what was added last.            *)
THEOREM AlwaysHoldsWhatWasAdded == Spec => []HoldsWhatWasAdded
<1>1. IInv => HoldsWhatWasAdded
  <2> SUFFICES ASSUME IInv PROVE HoldsWhatWasAdded
    OBVIOUS
  <2>1. /\ MemoryType(dm) /\ IndexOK(dm) /\ Holds(dm.documents, dm.chunks, held)
        /\ DOMAIN held \subseteq DocIds
    BY DEF IInv, MemoryOK, HeldType
  <2>2. Contents(dm) = AsAdded(held)
    BY <2>1, ContentsAsAdded
  <2>3. \A i \in DOMAIN dm.chunks : dm.chunks[i].docId \in DOMAIN dm.documents
    BY <2>1 DEF Holds, Range
  <2>4. Range(dm.chunks) \subseteq Chunks
    BY <2>1 DEF MemoryType, Range
  <2>5. \A d \in DOMAIN dm.documents : dm.documents[d] \in Entries
    BY <2>1 DEF MemoryType, Documents
  <2>6. dm.ann # NoIndex => DOMAIN dm.ann = DOMAIN dm.chunks
    BY <2>1 DEF IndexOK
  <2>7. DOMAIN dm.documents \subseteq DocIds
    BY <2>1 DEF Holds
  <2> QED BY <2>1, <2>2, <2>3, <2>4, <2>5, <2>6, <2>7 DEF HoldsWhatWasAdded, TypeOK
<1> QED BY <1>1, AlwaysInv, PTL

(* A load brings back the documents of the last whole save.                *)
THEOREM LoadAlwaysRestoresDocuments == Spec => LoadRestoresDocuments
<1>1. IInv /\ [Next]_vars => [~running /\ running' => Contents(dm') = AsAdded(saved)]_vars
  <2> SUFFICES ASSUME IInv, Next, ~running, running'
               PROVE  Contents(dm') = AsAdded(saved)
    OBVIOUS
  <2>1. Load
    BY DEF Next, AddBlankText, AddDocument, AddDocumentWithEmbeddings, ForgetDocument, Called,
           WithAnn, Save, Crash, CrashInSave
  <2>2. IInv' /\ held' = saved
    BY <2>1, NextInv DEF Load
  <2> QED BY <2>2, ContentsAsAdded DEF IInv, MemoryOK
<1> QED BY <1>1, AlwaysInv, PTL DEF Spec, LoadRestoresDocuments

-----------------------------------------------------------------------------
(* Searching                                                               *)

(* Each place has another rank, and every rank is some place's.            *)
LEMMA RanksAre ==
  ASSUME NEW D \in SUBSET Int, NEW score \in [D -> Int], NEW S \in SUBSET D, IsFiniteSet(S)
  PROVE  /\ \A i \in S : Ranks(S, score)[i] \in 0 .. Cardinality(S) - 1
         /\ \A i, j \in S :
              Before(score, i, j) <=> Ranks(S, score)[i] < Ranks(S, score)[j]
         /\ \A r \in 0 .. Cardinality(S) - 1 : \E i \in S : Ranks(S, score)[i] = r
<1> DEFINE rank == Ranks(S, score)
           n == Cardinality(S)
           Ahead(i) == {j \in S : Before(score, j, i)}
<1>1. n \in Nat
  BY FS_CardinalityType
<1>2. \A i, j \in S : Before(score, i, j) \/ i = j \/ Before(score, j, i)
  BY DEF Before
<1>3. \A i \in S : ~Before(score, i, i)
  BY DEF Before
<1>4. \A i, j, k \in S : Before(score, i, j) /\ Before(score, j, k) => Before(score, i, k)
  BY DEF Before
<1>5. \A i \in S : /\ IsFiniteSet(Ahead(i)) /\ rank[i] = Cardinality(Ahead(i))
                   /\ rank[i] \in Nat
  <2> SUFFICES ASSUME NEW i \in S
               PROVE  /\ IsFiniteSet(Ahead(i)) /\ rank[i] = Cardinality(Ahead(i))
                      /\ rank[i] \in Nat
    OBVIOUS
  <2>1. IsFiniteSet(Ahead(i))
    BY FS_Subset
  <2>2. rank[i] = Cardinality(Ahead(i))
    BY DEF Ranks
  <2> QED BY <2>1, <2>2, FS_CardinalityType
<1> HIDE DEF rank
<1>6. ASSUME NEW i \in S PROVE rank[i] \in 0 .. n - 1
  <2>1. Ahead(i) \subseteq S \ {i}
    BY <1>3
  <2>2. IsFiniteSet(S \ {i}) /\ Cardinality(S \ {i}) = n - 1
    BY FS_RemoveElement
  <2>3. rank[i] <= n - 1
    BY <1>5, <2>1, <2>2, FS_Subset
  <2>4. rank[i] \in Nat
    BY <1>5
  <2> HIDE DEF n
  <2> QED BY <1>1, <2>3, <2>4
<1>7. ASSUME NEW i \in S, NEW j \in S, Before(score, i, j) PROVE rank[i] < rank[j]
  <2>1. Ahead(i) \in SUBSET Ahead(j)
    BY <1>4, <1>7
  <2>2. i \in Ahead(j) /\ i \notin Ahead(i)
    BY <1>3, <1>7
  <2>3. /\ Cardinality(Ahead(i)) <= Cardinality(Ahead(j))
        /\ Cardinality(Ahead(j)) # Cardinality(Ahead(i))
    BY <1>5, <2>1, <2>2, FS_Subset
  <2> QED BY <1>5, <2>3
<1>8. ASSUME NEW i \in S, NEW j \in S PROVE Before(score, i, j) <=> rank[i] < rank[j]
  <2>1. CASE Before(score, i, j)
    BY <1>7, <2>1
  <2>2. CASE ~Before(score, i, j)
    <3>1. i = j \/ rank[j] < rank[i]
      BY <1>2, <1>7, <2>2
    <3>2. rank[i] \in Nat /\ rank[j] \in Nat
      BY <1>5
    <3> QED BY <2>2, <3>1, <3>2
  <2> QED BY <2>1, <2>2
<1>9. ASSUME NEW r \in 0 .. n - 1 PROVE \E i \in S : rank[i] = r
  <2> DEFINE f == [i \in S |-> rank[i]]
             T == 0 .. n - 1
  <2>1. f \in [S -> T]
    BY <1>6
  <2>2. \A i, j \in S : f[i] = f[j] => i = j
    <3> SUFFICES ASSUME NEW i \in S, NEW j \in S, rank[i] = rank[j] PROVE i = j
      OBVIOUS
    <3>0. rank[i] \in Nat /\ rank[j] \in Nat
      BY <1>5
    <3> HIDE DEF Ahead
    <3>1. ~(rank[i] < rank[j]) /\ ~(rank[j] < rank[i])
      BY <3>0
    <3> QED BY <1>2, <1>8, <3>1
  <2>3. f \in Injection(S, T)
    BY <2>1, <2>2 DEF Injection, IsInjective
  <2>4. IsFiniteSet(T) /\ Cardinality(T) = n
    BY <1>1, FS_Interval
  <2>5. f \in Surjection(S, T)
    BY <2>3, <2>4, FS_Injection
  <2>6. \E i \in S : f[i] = r
    BY <2>5 DEF Surjection
  <2> QED BY <2>6
<1> QED BY <1>6, <1>8, <1>9 DEF rank

(* The k first places, in order                                            *)
LEMMA TopKIs ==
  ASSUME NEW D \in SUBSET Int, NEW score \in [D -> Int], NEW S \in SUBSET D, IsFiniteSet(S),
         NEW k \in Nat
  PROVE  LET best == TopK(S, score, k)
         IN  /\ best \in Seq(S)
             /\ Len(best) = Min({k, Cardinality(S)})
             /\ Len(best) <= Cardinality(S)
             /\ \A m, n \in DOMAIN best : m < n => Before(score, best[m], best[n])
             /\ \A i \in S \ Range(best) : \A n \in DOMAIN best : Before(score, best[n], i)
<1> DEFINE rank == Ranks(S, score)
           best == TopK(S, score, k)
           c    == Cardinality(S)
           l    == Min({k, c})
<1>0. \A i, j \in S : Before(score, i, j) \/ i = j \/ Before(score, j, i)
  BY DEF Before
<1>1. c \in Nat
  BY FS_CardinalityType
<1>2. l \in Nat /\ l <= c
  BY <1>1, MinOfTwo
<1>3. best = [n \in 1 .. l |-> CHOOSE i \in S : rank[i] = n - 1]
  BY DEF TopK
<1>4. /\ \A i \in S : rank[i] \in 0 .. c - 1
      /\ \A i, j \in S : Before(score, i, j) <=> rank[i] < rank[j]
      /\ \A r \in 0 .. c - 1 : \E i \in S : rank[i] = r
  BY RanksAre
<1> HIDE DEF rank, best, c, l
<1>5. DOMAIN best = 1 .. l
  BY <1>3
<1>6. ASSUME NEW n \in 1 .. l PROVE best[n] \in S /\ rank[best[n]] = n - 1
  <2>1. n - 1 \in 0 .. c - 1
    BY <1>1, <1>2
  <2>2. \E i \in S : rank[i] = n - 1
    BY <1>4, <2>1
  <2> QED BY <1>3, <2>2
<1>7. best \in Seq(S) /\ Len(best) = l
  BY <1>2, <1>3, <1>5, <1>6
<1>8. ASSUME NEW m \in 1 .. l, NEW n \in 1 .. l, m < n PROVE Before(score, best[m], best[n])
  <2>1. rank[best[m]] < rank[best[n]]
    BY <1>2, <1>6, <1>8
  <2> QED BY <1>4, <1>6, <2>1
<1>9. ASSUME NEW i \in S \ Range(best), NEW n \in 1 .. l PROVE Before(score, best[n], i)
  <2> DEFINE r == rank[i]
  <2>1. r \in Nat
    BY <1>4
  <2> HIDE DEF r
  <2>2. CASE r < l
    <3>1. r + 1 \in 1 .. l /\ (r + 1) - 1 = r
      BY <1>2, <2>1, <2>2
    <3>2. best[r + 1] \in S /\ rank[best[r + 1]] = r
      BY <1>6, <3>1
    <3>3. best[r + 1] # i
      BY <1>5, <1>9, <3>1 DEF Range
    <3>4. Before(score, best[r + 1], i) \/ Before(score, i, best[r + 1])
      BY <1>0, <3>2, <3>3
    <3>5. rank[best[r + 1]] < r \/ r < rank[best[r + 1]]
      BY <1>4, <3>2, <3>4 DEF r
    <3> QED BY <2>1, <3>2, <3>5
  <2>3. CASE l <= r
    <3>1. rank[best[n]] < r
      BY <1>2, <1>6, <2>1, <2>3
    <3> QED BY <1>4, <1>6, <3>1 DEF r
  <2> QED BY <1>2, <2>1, <2>2, <2>3
<1>10. Len(best) <= c
  BY <1>2, <1>7
<1> QED BY <1>5, <1>7, <1>8, <1>9, <1>10 DEF best, l, c

(* The scores of the chunks for a query, and those a search may return     *)
Scores(q) == [i \in DOMAIN dm.chunks |-> Cosine[q][dm.chunks[i].embedding]]
Found(q, f) ==
  {i \in DOMAIN dm.chunks :
     /\ Matches(dm, f, dm.chunks[i])
     /\ Dim[q] = Dim[dm.chunks[i].embedding]
     /\ f.minScore = Unset \/ Scores(q)[i] >= f.minScore}
Best(q, k, f) == TopK(Found(q, f), Scores(q), k)
HitAt(q, i) == Hit(dm, i, Scores(q)[i])

(* Chunk i is a piece of a document, each piece has a chunk, and no two    *)
(* chunks are the same piece.                                              *)
LEMMA ChunksArePieces ==
  ASSUME IInv
  PROVE  /\ \A i \in DOMAIN dm.chunks :
              LET c == dm.chunks[i]
              IN  /\ c.docId \in DOMAIN held
                  /\ c.docId \in DOMAIN dm.documents
                  /\ dm.documents[c.docId].metadata = held[c.docId].metadata
                  /\ \E n \in DOMAIN held[c.docId].pieces :
                       /\ c.idx = n - 1
                       /\ c.text = Preview[held[c.docId].pieces[n].text]
                       /\ c.embedding = held[c.docId].pieces[n].embedding
         /\ \A d \in DOMAIN held : \A n \in DOMAIN held[d].pieces :
              \E i \in DOMAIN dm.chunks :
                dm.chunks[i].docId = d /\ dm.chunks[i].idx = n - 1
         /\ \A i, j \in DOMAIN dm.chunks :
              /\ dm.chunks[i].docId = dm.chunks[j].docId
              /\ dm.chunks[i].idx = dm.chunks[j].idx
              => i = j
<1> DEFINE C == dm.chunks
           new(d) == NewChunks(d, held[d].pieces)
<1>1. /\ C \in Seq(Chunks) /\ DOMAIN dm.documents = DOMAIN held
      /\ \A d \in DOMAIN held : /\ d \in DocIds
                                /\ held[d].pieces \in Seq(Pieces) /\ Len(held[d].pieces) <= MaxPieces
                                /\ dm.documents[d].metadata = held[d].metadata
                                /\ OfDocument(C, d) = new(d)
      /\ \A c \in Range(C) : c.docId \in DOMAIN held
  BY DEF IInv, MemoryOK, MemoryType, Holds, HeldType
<1>2. ASSUME NEW d \in DOMAIN held
      PROVE  /\ IsInjective(new(d)) /\ Kept(C, DocSet(d)) = new(d)
             /\ Range(C) \cap DocSet(d) = Range(new(d))
  <2>1. IsInjective(new(d))
    BY <1>1, NewChunksAre
  <2>2. Kept(C, DocSet(d)) = new(d)
    BY <1>1, OfDocumentIs
  <2>3. Range(Kept(C, DocSet(d))) = Range(C) \cap DocSet(d)
    BY <1>1, KeptType
  <2> QED BY <2>1, <2>2, <2>3
<1>3. ASSUME NEW d \in DOMAIN held, NEW n \in DOMAIN held[d].pieces
      PROVE  /\ n \in Nat \ {0} /\ n \in DOMAIN new(d)
             /\ new(d)[n].docId = d /\ new(d)[n].idx = n - 1
             /\ new(d)[n].text = Preview[held[d].pieces[n].text]
             /\ new(d)[n].embedding = held[d].pieces[n].embedding
  <2>1. n \in Nat \ {0}
    BY <1>1
  <2> QED BY <2>1 DEF NewChunks
<1>4. \A i \in DOMAIN C : C[i] \in Range(C) /\ C[i] \in Chunks
  BY <1>1 DEF Range
<1>5. ASSUME NEW i \in DOMAIN C
      PROVE  /\ C[i].docId \in DOMAIN held
             /\ \E n \in DOMAIN held[C[i].docId].pieces : C[i] = new(C[i].docId)[n]
  <2> DEFINE d == C[i].docId
  <2>1. d \in DOMAIN held
    BY <1>1, <1>4
  <2>2. C[i] \in DocSet(d)
    BY <1>4 DEF DocSet
  <2>3. C[i] \in Range(new(d))
    BY <1>2, <1>4, <2>1, <2>2
  <2>4. DOMAIN new(d) = DOMAIN held[d].pieces
    BY DEF NewChunks
  <2> HIDE DEF new, d, C
  <2>5. \E n \in DOMAIN held[d].pieces : C[i] = new(d)[n]
    BY <2>3, <2>4 DEF Range
  <2> QED BY <2>1, <2>5 DEF d
<1>6. ASSUME NEW d \in DOMAIN held, NEW n \in DOMAIN held[d].pieces
      PROVE  \E i \in DOMAIN C : C[i].docId = d /\ C[i].idx = n - 1
  <2>1. new(d)[n] \in Range(new(d))
    BY <1>3 DEF Range
  <2>2. new(d)[n] \in Range(C)
    BY <1>2, <2>1
  <2>3. PICK i \in DOMAIN C : C[i] = new(d)[n]
    BY <2>2 DEF Range
  <2> QED BY <1>3, <2>3
<1> HIDE DEF C, new
<1>7. ASSUME NEW i \in DOMAIN C, NEW j \in DOMAIN C, C[i].docId = C[j].docId, C[i].idx = C[j].idx
      PROVE  i = j
  <2> DEFINE d == C[i].docId
  <2>0. C[j].docId = d /\ d \in DOMAIN held
    BY <1>5, <1>7
  <2>1. PICK n \in DOMAIN held[d].pieces : C[i] = new(d)[n]
    BY <1>5
  <2>2. PICK l \in DOMAIN held[d].pieces : C[j] = new(d)[l]
    BY <1>5, <2>0
  <2>3. C[i] \in DocSet(d)
    BY <1>4 DEF DocSet
  <2> HIDE DEF d
  <2>4. n = l
    <3>1. n - 1 = l - 1 /\ n \in Nat /\ l \in Nat
      BY <1>3, <1>7, <2>0, <2>1, <2>2
    <3> QED BY <3>1
  <2>5. C[i] = C[j]
    BY <2>1, <2>2, <2>4
  <2> QED BY <1>1, <1>2, <2>0, <2>3, <2>5, KeptOnce
<1>8. ASSUME NEW i \in DOMAIN C
      PROVE  /\ C[i].docId \in DOMAIN held
             /\ C[i].docId \in DOMAIN dm.documents
             /\ dm.documents[C[i].docId].metadata = held[C[i].docId].metadata
             /\ \E n \in DOMAIN held[C[i].docId].pieces :
                  /\ C[i].idx = n - 1
                  /\ C[i].text = Preview[held[C[i].docId].pieces[n].text]
                  /\ C[i].embedding = held[C[i].docId].pieces[n].embedding
  <2> DEFINE d == C[i].docId
  <2>1. d \in DOMAIN held
    BY <1>5
  <2>2. PICK n \in DOMAIN held[d].pieces : C[i] = new(d)[n]
    BY <1>5
  <2>3. /\ C[i].idx = n - 1
        /\ C[i].text = Preview[held[d].pieces[n].text]
        /\ C[i].embedding = held[d].pieces[n].embedding
    BY <1>3, <2>1, <2>2
  <2>4. d \in DOMAIN dm.documents /\ dm.documents[d].metadata = held[d].metadata
    BY <1>1, <2>1
  <2> QED BY <2>1, <2>3, <2>4
<1> QED BY <1>6, <1>7, <1>8 DEF C


LEMMA ScoresType ==
  ASSUME IInv, NEW q \in Queries
  PROVE  /\ Scores(q) \in [DOMAIN dm.chunks -> Int]
         /\ \A i \in DOMAIN dm.chunks : \E p \in Pieces : dm.chunks[i].embedding = p.embedding
         /\ DOMAIN dm.chunks \in SUBSET Int /\ IsFiniteSet(DOMAIN dm.chunks)
<1>1. dm.chunks \in Seq(Chunks)
  BY DEF IInv, MemoryOK, MemoryType
<1>2. ASSUME NEW i \in DOMAIN dm.chunks
      PROVE  \E p \in Pieces : dm.chunks[i].embedding = p.embedding
  <2>1. dm.chunks[i] \in Chunks
    BY <1>1
  <2> QED BY <2>1 DEF Chunks
<1>3. \A i \in DOMAIN dm.chunks : Cosine[q][dm.chunks[i].embedding] \in Int
  BY <1>2, CosineAssumption
<1>4. DOMAIN dm.chunks = 1 .. Len(dm.chunks) /\ Len(dm.chunks) \in Nat
  BY <1>1
<1> QED BY <1>2, <1>3, <1>4, FS_Interval DEF Scores

(* The hits of the places found are what is wanted, one each.              *)
LEMMA FoundIsWanted ==
  ASSUME IInv, NEW q \in Queries, NEW f,
         \A p \in Pieces : Dim[q] = Dim[p.embedding]
  PROVE  /\ \A i \in Found(q, f) : HitAt(q, i) \in Wanted(q, f) /\ Place(HitAt(q, i)) = i
         /\ \A h \in Wanted(q, f) : \E i \in Found(q, f) : h = HitAt(q, i)
<1> DEFINE C == dm.chunks
<1>1. /\ \A i \in DOMAIN C :
             /\ C[i].docId \in DOMAIN held
             /\ C[i].docId \in DOMAIN dm.documents
             /\ dm.documents[C[i].docId].metadata = held[C[i].docId].metadata
             /\ \E n \in DOMAIN held[C[i].docId].pieces :
                  /\ C[i].idx = n - 1
                  /\ C[i].text = Preview[held[C[i].docId].pieces[n].text]
                  /\ C[i].embedding = held[C[i].docId].pieces[n].embedding
      /\ \A d \in DOMAIN held : \A n \in DOMAIN held[d].pieces :
           \E i \in DOMAIN C : C[i].docId = d /\ C[i].idx = n - 1
      /\ \A i, j \in DOMAIN C : C[i].docId = C[j].docId /\ C[i].idx = C[j].idx => i = j
  BY ChunksArePieces
<1>2. \A d \in DOMAIN held : DOMAIN held[d].pieces \subseteq Int
  BY DEF IInv, HeldType
<1>3. \A i \in DOMAIN C : Dim[q] = Dim[C[i].embedding]
  BY ScoresType
<1>4. ASSUME NEW i \in DOMAIN C
      PROVE  /\ HitAt(q, i) = [docId |-> C[i].docId, idx |-> C[i].idx, text |-> C[i].text,
                               score |-> Cosine[q][C[i].embedding],
                               metadata |-> held[C[i].docId].metadata]
             /\ \E n \in DOMAIN held[C[i].docId].pieces : HitAt(q, i) = HitOf(q, C[i].docId, n)
  <2>1. HitAt(q, i) = [docId |-> C[i].docId, idx |-> C[i].idx, text |-> C[i].text,
                       score |-> Cosine[q][C[i].embedding],
                       metadata |-> held[C[i].docId].metadata]
    BY <1>1 DEF HitAt, Hit, Scores
  <2>2. PICK n \in DOMAIN held[C[i].docId].pieces :
          /\ C[i].idx = n - 1
          /\ C[i].text = Preview[held[C[i].docId].pieces[n].text]
          /\ C[i].embedding = held[C[i].docId].pieces[n].embedding
    BY <1>1
  <2>3. HitAt(q, i) = HitOf(q, C[i].docId, n)
    BY <2>1, <2>2 DEF HitOf
  <2> QED BY <2>1, <2>3
<1>5. ASSUME NEW i \in DOMAIN C PROVE i \in Found(q, f) <=> HitAt(q, i) \in Wanted(q, f)
  <2> DEFINE h == HitAt(q, i)
             c == C[i]
  <2>1. h \in UNION {{HitOf(q, d, j) : j \in DOMAIN held[d].pieces} : d \in DOMAIN held}
    BY <1>1, <1>4
  <2>2. /\ h.docId = c.docId /\ h.text = c.text /\ h.score = Scores(q)[i]
        /\ h.metadata = dm.documents[c.docId].metadata
    BY <1>1, <1>4 DEF Scores
  <2>3. Matches(dm, f, c) <=> /\ f.docIds = Unset \/ c.docId \in f.docIds
                              /\ f.metadata = Unset \/ dm.documents[c.docId].metadata = f.metadata
                              /\ f.needle = Unset \/ f.needle \in WordsOf[c.text]
    BY <1>1 DEF Matches
  <2>4. i \in Found(q, f) <=> Matches(dm, f, c) /\ (f.minScore = Unset \/ Scores(q)[i] >= f.minScore)
    BY <1>3 DEF Found
  <2> HIDE DEF h, c
  <2>5. h \in Wanted(q, f) <=> /\ f.docIds # Unset => h.docId \in f.docIds
                               /\ f.metadata # Unset => h.metadata = f.metadata
                               /\ f.needle # Unset => f.needle \in WordsOf[h.text]
                               /\ f.minScore # Unset => h.score >= f.minScore
    BY <2>1 DEF Wanted
  <2> QED BY <2>2, <2>3, <2>4, <2>5 DEF h
<1>6. ASSUME NEW i \in DOMAIN C PROVE Place(HitAt(q, i)) = i
  <2>1. HitAt(q, i).docId = C[i].docId /\ HitAt(q, i).idx = C[i].idx
    BY <1>4
  <2>2. \A j \in DOMAIN C :
          C[j].docId = HitAt(q, i).docId /\ C[j].idx = HitAt(q, i).idx <=> j = i
    BY <1>1, <2>1
  <2> QED BY <2>2 DEF Place
<1>7. ASSUME NEW h \in Wanted(q, f) PROVE \E i \in Found(q, f) : h = HitAt(q, i)
  <2>1. PICK d \in DOMAIN held : \E n \in DOMAIN held[d].pieces : h = HitOf(q, d, n)
    BY DEF Wanted
  <2>0. PICK n \in DOMAIN held[d].pieces : h = HitOf(q, d, n)
    BY <2>1
  <2>2. PICK i \in DOMAIN C : C[i].docId = d /\ C[i].idx = n - 1
    BY <1>1
  <2>3. PICK m \in DOMAIN held[d].pieces : HitAt(q, i) = HitOf(q, d, m)
    BY <1>4, <2>2
  <2>4. HitAt(q, i).idx = n - 1
    BY <1>4, <2>2
  <2>5. m - 1 = n - 1
    BY <2>3, <2>4 DEF HitOf
  <2>6. m = n
    BY <1>2, <2>5
  <2> QED BY <1>5, <2>0, <2>2, <2>3, <2>6
<1>8. Found(q, f) \subseteq DOMAIN C
  BY DEF Found
<1> QED BY <1>5, <1>6, <1>7, <1>8

(* The index finds what the scan finds: it has every chunk at its place.   *)
LEMMA SearchIs ==
  ASSUME IInv, NEW q \in Queries, NEW f, NEW k \in Nat,
         \A p \in Pieces : Dim[q] = Dim[p.embedding]
  PROVE  Search(dm, q, k, f) = [n \in DOMAIN Best(q, k, f) |-> HitAt(q, Best(q, k, f)[n])]
<1>1. ExactHits(dm, q, k, f) = [n \in DOMAIN Best(q, k, f) |-> HitAt(q, Best(q, k, f)[n])]
  BY DEF ExactHits, Best, Found, Scores, HitAt
<1>2. ASSUME f = NoFilter, dm.ann # NoIndex
      PROVE  IndexHits(dm, q, k) = [n \in DOMAIN Best(q, k, f) |-> HitAt(q, Best(q, k, f)[n])]
  <2> DEFINE D == DOMAIN dm.chunks
             top == TopK(D, Scores(q), k)
  <2>1. /\ DOMAIN dm.ann = D
        /\ \A i \in D : dm.ann[i].pos = i /\ dm.ann[i].embedding = dm.chunks[i].embedding
    BY <1>2 DEF IInv, MemoryOK, IndexOK
  <2>2. Found(q, f) = D
    <3>1. f.docIds = Unset /\ f.metadata = Unset /\ f.needle = Unset /\ f.minScore = Unset
      BY <1>2 DEF NoFilter
    <3>2. \A i \in D : Dim[q] = Dim[dm.chunks[i].embedding]
      BY ScoresType
    <3>3. \A i \in D : dm.chunks[i].docId \in DOMAIN dm.documents
      BY ChunksArePieces
    <3> QED BY <3>1, <3>2, <3>3 DEF Found, Matches
  <2>3. [i \in DOMAIN dm.ann |-> Cosine[q][dm.ann[i].embedding]] = Scores(q)
    BY <2>1 DEF Scores
  <2>4. top \in Seq(D)
    BY ScoresType, TopKIs
  <2>5. Range(top) \subseteq D
    BY <2>4 DEF Range
  <2>6. {i \in DOMAIN dm.ann : dm.ann[i].pos \in DOMAIN dm.chunks} = D
    BY <2>1
  <2>7. Kept(top, D) = top
    BY <2>4, <2>5, KeptAll
  <2>8. IndexHits(dm, q, k) = [n \in DOMAIN top |-> Hit(dm, dm.ann[top[n]].pos, Scores(q)[top[n]])]
    <3> DEFINE score == [i \in DOMAIN dm.ann |-> Cosine[q][dm.ann[i].embedding]]
               best  == Kept(TopK(DOMAIN dm.ann, score, k),
                             {i \in DOMAIN dm.ann : dm.ann[i].pos \in DOMAIN dm.chunks})
    <3>1. IndexHits(dm, q, k) =
            [n \in DOMAIN best |-> Hit(dm, dm.ann[best[n]].pos, score[best[n]])]
      BY DEF IndexHits
    <3>2. score = Scores(q)
      BY <2>3
    <3> HIDE DEF score
    <3>3. best = top
      BY <2>1, <2>6, <2>7, <3>2
    <3> HIDE DEF best, top
    <3> QED BY <3>1, <3>2, <3>3
  <2>9. \A n \in DOMAIN top : dm.ann[top[n]].pos = top[n]
    BY <2>1, <2>4
  <2>10. Best(q, k, f) = top
    BY <2>2 DEF Best
  <2> HIDE DEF top
  <2> QED BY <2>8, <2>9, <2>10 DEF HitAt
<1> QED BY <1>1, <1>2 DEF Search

(* Where every embedding has the length of the query, a search finds the   *)
(* best of what was added.                                                 *)
THEOREM SearchAlwaysFindsBest ==
  ASSUME \A q \in Queries, p \in Pieces : Dim[q] = Dim[p.embedding]
  PROVE  Spec => []SearchFindsBest
<1>1. ASSUME IInv, NEW q \in Queries, NEW k \in 1 .. MaxHits, NEW f \in Filters
      PROVE  LET hits   == Search(dm, q, k, f)
                 wanted == Wanted(q, f)
             IN /\ Range(hits) \subseteq wanted
                /\ Len(hits) = Min({k, Cardinality(wanted)})
                /\ \A m, n \in DOMAIN hits : m < n => Precedes(hits[m], hits[n])
                /\ \A h \in wanted \ Range(hits) :
                     \A n \in DOMAIN hits : Precedes(hits[n], h)
  <2> DEFINE found  == Found(q, f)
             score  == Scores(q)
             best   == Best(q, k, f)
             H(i)   == HitAt(q, i)
             wanted == Wanted(q, f)
             hits   == Search(dm, q, k, f)
  <2>0. k \in Nat
    BY BoundsAssumption
  <2>1. /\ \A i \in found : H(i) \in wanted /\ Place(H(i)) = i
        /\ \A h \in wanted : \E i \in found : h = H(i)
    BY <1>1, FoundIsWanted
  <2>2. hits = [n \in DOMAIN best |-> H(best[n])]
    BY <1>1, <2>0, SearchIs
  <2>3. found \in SUBSET DOMAIN dm.chunks /\ IsFiniteSet(found)
    BY <1>1, ScoresType, FS_Subset DEF Found
  <2>5. \A i \in found : H(i).score = score[i]
    BY <2>3 DEF HitAt, Hit
  <2>14. score \in [DOMAIN dm.chunks -> Int] /\ DOMAIN dm.chunks \in SUBSET Int
    BY <1>1, ScoresType
  <2>15. best = TopK(found, score, k)
    BY DEF Best
  <2> HIDE DEF found, score, best, wanted, hits, H
  <2>4. /\ best \in Seq(found)
        /\ Len(best) = Min({k, Cardinality(found)})
        /\ \A m, n \in DOMAIN best : m < n => Before(score, best[m], best[n])
        /\ \A i \in found \ Range(best) : \A n \in DOMAIN best : Before(score, best[n], i)
    BY <2>0, <2>3, <2>14, <2>15, TopKIs
  <2>6. Cardinality(wanted) = Cardinality(found)
    <3> DEFINE b == [i \in found |-> H(i)]
    <3>1. b \in [found -> wanted] /\ \A i \in found : b[i] = H(i)
      BY <2>1
    <3> HIDE DEF b
    <3>2. \A i, j \in found : b[i] = b[j] => i = j
      BY <2>1, <3>1
    <3>3. \A h \in wanted : \E i \in found : b[i] = h
      BY <2>1, <3>1
    <3>4. b \in Bijection(found, wanted)
      BY <3>1, <3>2, <3>3 DEF Bijection, Injection, IsInjective, Surjection
    <3> QED BY <2>3, <3>4, FS_Bijection DEF ExistsBijection
  <2>7. \A i, j \in found : Before(score, i, j) => Precedes(H(i), H(j))
    BY <2>1, <2>5 DEF Before, Precedes
  <2>8. \A n \in DOMAIN best : best[n] \in found
    BY <2>4
  <2>9. DOMAIN hits = DOMAIN best /\ \A n \in DOMAIN hits : hits[n] = H(best[n])
    BY <2>2
  <2>10. Range(hits) \subseteq wanted
    BY <2>1, <2>8, <2>9 DEF Range
  <2>11. Len(hits) = Min({k, Cardinality(wanted)})
    <3>1. Len(hits) = Len(best)
      BY <2>2, <2>4
    <3> QED BY <2>4, <2>6, <3>1
  <2>12. ASSUME NEW m \in DOMAIN hits, NEW n \in DOMAIN hits, m < n
         PROVE  Precedes(hits[m], hits[n])
    <3>1. Before(score, best[m], best[n])
      BY <2>4, <2>9, <2>12
    <3> QED BY <2>7, <2>8, <2>9, <3>1
  <2>13. ASSUME NEW h \in wanted \ Range(hits), NEW n \in DOMAIN hits
         PROVE  Precedes(hits[n], h)
    <3>1. PICK i \in found : h = H(i)
      BY <2>1
    <3>2. i \notin Range(best)
      BY <2>9, <2>13, <3>1 DEF Range
    <3> QED BY <2>4, <2>7, <2>8, <2>9, <3>1, <3>2
  <2> QED BY <2>10, <2>11, <2>12, <2>13 DEF hits, wanted
<1>2. IInv => SearchFindsBest
  <2> HIDE DEF Min
  <2> QED BY <1>1 DEF SearchFindsBest
<1> QED BY <1>2, AlwaysInv, PTL

=============================================================================

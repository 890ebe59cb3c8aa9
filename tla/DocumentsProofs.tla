--------------------------- MODULE DocumentsProofs ---------------------------
(***************************************************************************)
(* Proofs about Documents: what every way of filing pages preserves.  The  *)
(* sessions that extend Documents cite these lemmas.                       *)
(***************************************************************************)
EXTENDS Documents, SequenceTheorems, FiniteSetTheorems, TLAPS

\* What the session modules carry through their steps.
DocInv == DocTypeOK /\ PagesConserved /\ PagesInOrder

(* Before the first page nothing can be out of place.                       *)
LEMMA DocInitInv == DocInit => DocInv
<1> SUFFICES ASSUME DocInit PROVE DocInv
  OBVIOUS
<1>1. Pages = {} /\ Range(doc) = {} /\ files = {} /\ lost = {} /\ DOMAIN doc = {}
  BY DEF DocInit, Pages, Range
<1>2. DocTypeOK
  BY <1>1 DEF DocInit, DocTypeOK
<1>3. PagesConserved
  BY <1>1, UNION {} = {}, {Range(f.pages) : f \in {}} = {} DEF PagesConserved
<1>4. PagesInOrder
  BY <1>1 DEF PagesInOrder, Increasing
<1> QED
  BY <1>2, <1>3, <1>4 DEF DocInv

(* A step that files nothing disturbs nothing.                              *)
LEMMA DocStutter == DocInv /\ UNCHANGED docVars => DocInv'
<1> SUFFICES ASSUME DocInv, UNCHANGED docVars PROVE DocInv'
  OBVIOUS
<1> USE DEF docVars
<1>1. DocTypeOK'
  BY DEF DocInv, DocTypeOK, Pages
<1>2. PagesConserved'
  BY DEF DocInv, PagesConserved, Pages
<1>3. PagesInOrder'
  BY DEF DocInv, PagesInOrder
<1> QED
  BY <1>1, <1>2, <1>3 DEF DocInv

(* The pages that arrive are new and come behind all earlier ones.          *)
LEMMA ArrivedFacts ==
  ASSUME NEW n \in Nat, owner \in Seq(Nat)
  PROVE  /\ Arrived(n) \in Seq(Len(owner) + 1 .. Len(owner) + n)
         /\ Len(Arrived(n)) = n
         /\ Range(Arrived(n)) = Len(owner) + 1 .. Len(owner) + n
         /\ Increasing(Arrived(n))
<1>1. Len(owner) \in Nat
  BY LenProperties
<1>2. /\ DOMAIN Arrived(n) = 1 .. n
      /\ \A i \in 1 .. n : Arrived(n)[i] = Len(owner) + i
  BY DEF Arrived
<1>3. Arrived(n) \in Seq(Len(owner) + 1 .. Len(owner) + n) /\ Len(Arrived(n)) = n
  <2> DEFINE S == Len(owner) + 1 .. Len(owner) + n
  <2>1. Arrived(n) \in [1 .. n -> S]
    BY <1>1 DEF Arrived
  <2>2. Arrived(n) \in Seq(S)
    BY <2>1, SeqDef
  <2>3. Len(Arrived(n)) = n
    BY <1>2, <2>2, LenProperties
  <2> QED
    BY <2>2, <2>3
<1>4. Range(Arrived(n)) = Len(owner) + 1 .. Len(owner) + n
  <2>1. ASSUME NEW p \in Len(owner) + 1 .. Len(owner) + n
        PROVE  p \in Range(Arrived(n))
    <3>1. p - Len(owner) \in 1 .. n /\ Len(owner) + (p - Len(owner)) = p
      BY <1>1
    <3> QED
      BY <1>2, <3>1 DEF Range
  <2>2. ASSUME NEW p \in Range(Arrived(n))
        PROVE  p \in Len(owner) + 1 .. Len(owner) + n
    <3>1. PICK i \in 1 .. n : p = Len(owner) + i
      BY <1>2 DEF Range
    <3> QED
      BY <1>1, <3>1
  <2> QED
    BY <2>1, <2>2
<1>5. Increasing(Arrived(n))
  BY <1>1, <1>2 DEF Increasing
<1> QED
  BY <1>3, <1>4, <1>5

(* A sequence of earlier pages that ends with the arrivals still holds its  *)
(* pages in order, and holds just these and those.                          *)
LEMMA ConcatArrived ==
  ASSUME NEW n \in Nat, owner \in Seq(Nat), NEW d \in Seq(Pages), Increasing(d)
  PROVE  /\ d \o Arrived(n) \in Seq(1 .. Len(owner) + n)
         /\ Range(d \o Arrived(n)) = Range(d) \cup Range(Arrived(n))
         /\ Increasing(d \o Arrived(n))
<1> DEFINE a == Arrived(n)
           L == Len(owner)
           S == 1 .. L + n
<1>1. L \in Nat /\ Len(d) \in Nat /\ DOMAIN d = 1 .. Len(d)
  BY LenProperties
<1>2. a \in Seq(L + 1 .. L + n) /\ Len(a) = n /\ Increasing(a)
  BY ArrivedFacts
<1>3. DOMAIN a = 1 .. n
  BY <1>2, LenProperties
<1>4. d \in Seq(S) /\ a \in Seq(S)
  <2>1. Pages \subseteq S /\ L + 1 .. L + n \subseteq S
    BY <1>1 DEF Pages
  <2> HIDE DEF S, a
  <2> QED
    BY <1>2, <2>1, SeqMonotonic
<1>5. \A i \in 1 .. Len(d) : d[i] \in 1 .. L
  BY <1>1, ElementOfSeq DEF Pages
<1>6. \A i \in 1 .. n : a[i] = L + i
  BY DEF Arrived
<1> HIDE DEF S, a
<1>7. /\ d \o a \in Seq(S)
      /\ Len(d \o a) = Len(d) + n
      /\ \A i \in 1 .. Len(d) + n : (d \o a)[i] = IF i <= Len(d) THEN d[i] ELSE a[i - Len(d)]
  BY <1>2, <1>4, ConcatProperties
<1>8. DOMAIN (d \o a) = 1 .. Len(d) + n
  BY <1>7, LenProperties
<1>9. Range(d \o a) = Range(d) \cup Range(a)
  <2>1. ASSUME NEW i \in 1 .. Len(d) PROVE d[i] \in Range(d \o a)
    <3>1. i \in 1 .. Len(d) + n /\ (d \o a)[i] = d[i]
      BY <1>1, <1>7
    <3> QED
      BY <1>8, <3>1 DEF Range
  <2>2. ASSUME NEW i \in 1 .. n PROVE a[i] \in Range(d \o a)
    <3>1. Len(d) + i \in 1 .. Len(d) + n /\ (d \o a)[Len(d) + i] = a[i]
      BY <1>1, <1>7
    <3> QED
      BY <1>8, <3>1 DEF Range
  <2>3. ASSUME NEW i \in 1 .. Len(d) + n PROVE (d \o a)[i] \in Range(d) \cup Range(a)
    <3>1. CASE i <= Len(d)
      BY <1>1, <1>7, <3>1 DEF Range
    <3>2. CASE i > Len(d)
      <4>1. i - Len(d) \in 1 .. n /\ (d \o a)[i] = a[i - Len(d)]
        BY <1>1, <1>7, <3>2
      <4> QED
        BY <1>3, <4>1 DEF Range
    <3>3. i <= Len(d) \/ i > Len(d)
      BY <1>1
    <3> QED
      BY <3>1, <3>2, <3>3
  <2>4. Range(d \o a) \subseteq Range(d) \cup Range(a)
    BY <1>8, <2>3 DEF Range
  <2>5. Range(d) \subseteq Range(d \o a) /\ Range(a) \subseteq Range(d \o a)
    BY <1>1, <1>3, <2>1, <2>2 DEF Range
  <2> QED
    BY <2>4, <2>5
<1>10. Increasing(d \o a)
  <2>1. SUFFICES ASSUME NEW i \in 1 .. Len(d) + n, NEW j \in 1 .. Len(d) + n, i < j
                 PROVE  (d \o a)[i] < (d \o a)[j]
    BY <1>8 DEF Increasing
  <2>2. CASE j <= Len(d)
    <3>1. i \in DOMAIN d /\ j \in DOMAIN d /\ (d \o a)[i] = d[i] /\ (d \o a)[j] = d[j]
      BY <1>1, <1>7, <2>1, <2>2
    <3> QED
      BY <2>1, <3>1 DEF Increasing
  <2>3. CASE i <= Len(d) /\ j > Len(d)
    <3>1. (d \o a)[i] = d[i] /\ d[i] \in 1 .. L
      BY <1>1, <1>5, <1>7, <2>3
    <3>2. j - Len(d) \in 1 .. n /\ (d \o a)[j] = L + (j - Len(d))
      BY <1>1, <1>6, <1>7, <2>3
    <3> QED
      BY <1>1, <3>1, <3>2
  <2>4. CASE i > Len(d)
    <3>1. i - Len(d) \in 1 .. n /\ j - Len(d) \in 1 .. n
      BY <1>1, <2>1, <2>4
    <3> QED
      BY <1>1, <1>6, <1>7, <2>1, <2>4, <3>1
  <2> QED
    <3>1. j <= Len(d) \/ (i <= Len(d) /\ j > Len(d)) \/ i > Len(d)
      BY <1>1
    <3> QED
      BY <2>2, <2>3, <2>4, <3>1
<1> QED
  BY <1>7, <1>9, <1>10 DEF a, S

-----------------------------------------------------------------------------
(* PagesConserved of any pages P, document d, lost pages L and files F.     *)
Conserved(P, d, L, F) ==
    /\ P = Range(d) \cup L \cup UNION {Range(f.pages) : f \in F}
    /\ Range(d) \cap L = {}
    /\ \A f \in F : Range(f.pages) \cap (Range(d) \cup L) = {}
    /\ \A f, g \in F : f # g => Range(f.pages) \cap Range(g.pages) = {}

Pdf(d) == [number |-> 0, pages |-> d]

(* New pages at the end of the document.                                    *)
LEMMA ConservedAppend ==
  ASSUME NEW P, NEW d, NEW L, NEW F, NEW N, NEW e,
         Conserved(P, d, L, F), N \cap P = {}, Range(e) = Range(d) \cup N
  PROVE  Conserved(P \cup N, e, L, F)
<1>1. \A f \in F : Range(f.pages) \subseteq P
  BY DEF Conserved
<1> QED
  BY <1>1 DEF Conserved

(* The document becomes a file.                                             *)
LEMMA ConservedSave ==
  ASSUME NEW P, NEW d, NEW L, NEW F, Conserved(P, d, L, F)
  PROVE  Conserved(P, << >>, L, F \cup {Pdf(d)})
<1>1. Range(<< >>) = {}
  BY DEF Range
<1>2. Pdf(d).pages = d
  BY DEF Pdf
<1>3. UNION {Range(f.pages) : f \in F \cup {Pdf(d)}}
         = (UNION {Range(f.pages) : f \in F}) \cup Range(d)
  BY <1>2
<1> QED
  BY <1>1, <1>2, <1>3 DEF Conserved

(* The document is lost.                                                    *)
LEMMA ConservedLose ==
  ASSUME NEW P, NEW d, NEW L, NEW F, Conserved(P, d, L, F)
  PROVE  Conserved(P, << >>, L \cup Range(d), F)
<1>1. Range(<< >>) = {}
  BY DEF Range
<1> QED
  BY <1>1 DEF Conserved

(* New pages become new files, one another's complement in the lost ones.   *)
LEMMA ConservedNewFiles ==
  ASSUME NEW P, NEW d, NEW L, NEW F, NEW A, NEW B, NEW G,
         Conserved(P, d, L, F), (A \cup B) \cap P = {}, A \cap B = {},
         A = UNION {Range(g.pages) : g \in G},
         \A f, g \in G : f # g => Range(f.pages) \cap Range(g.pages) = {}
  PROVE  Conserved(P \cup A \cup B, d, L \cup B, F \cup G)
<1>1. \A f \in F : Range(f.pages) \subseteq P
  BY DEF Conserved
<1>2. \A g \in G : Range(g.pages) \subseteq A
  OBVIOUS
<1>3. UNION {Range(f.pages) : f \in F \cup G}
         = (UNION {Range(f.pages) : f \in F}) \cup A
  OBVIOUS
<1>4. Range(d) \subseteq P /\ L \subseteq P
  BY DEF Conserved
<1>5. P \cup A \cup B = Range(d) \cup (L \cup B) \cup UNION {Range(f.pages) : f \in F \cup G}
  BY <1>3 DEF Conserved
<1>6. Range(d) \cap (L \cup B) = {}
  BY <1>4 DEF Conserved
<1>7. \A f \in F \cup G : Range(f.pages) \cap (Range(d) \cup L \cup B) = {}
  BY <1>1, <1>2, <1>4 DEF Conserved
<1>8. \A f, g \in F \cup G : f # g => Range(f.pages) \cap Range(g.pages) = {}
  BY <1>1, <1>2 DEF Conserved
<1> QED
  BY <1>5, <1>6, <1>7, <1>8 DEF Conserved

-----------------------------------------------------------------------------
\* The two shapes a save of the sequence d takes.
LEMMA SavePdfKeeps ==
  ASSUME NEW d, DocTypeOK', d \in Seq(Pages'), Increasing(d),
         \A f \in files : Increasing(f.pages),
         Conserved(Pages', d, lost, files), SavePdf(d)
  PROVE  PagesConserved' /\ PagesInOrder'
<1>1. Increasing(doc')
  BY DEF SavePdf, Increasing
<1>2. CASE files' = files \cup {Pdf(d)} /\ lost' = lost
  <2>1. Conserved(Pages', << >>, lost, files \cup {Pdf(d)})
    BY ConservedSave
  <2>2. PagesConserved'
    BY <1>2, <2>1 DEF PagesConserved, Conserved, SavePdf
  <2>3. \A f \in files' : Increasing(f.pages)
    BY <1>2 DEF Pdf
  <2> QED
    BY <1>1, <2>2, <2>3 DEF PagesInOrder
<1>3. CASE lost' = lost \cup Range(d) /\ files' = files
  <2>1. Conserved(Pages', << >>, lost \cup Range(d), files)
    BY ConservedLose
  <2>2. PagesConserved'
    BY <1>3, <2>1 DEF PagesConserved, Conserved, SavePdf
  <2> QED
    BY <1>1, <1>3, <2>2 DEF PagesInOrder
<1> QED
  BY <1>2, <1>3 DEF SavePdf, Pdf

(* Saving a document of pages that arrived leaves everything well typed.    *)
LEMMA SavePdfType ==
  ASSUME NEW d, DocTypeOK, d \in Seq(Pages'), Pages \subseteq Pages',
         owner' \in Seq(Nat), jpegPage' \in Nat, SavePdf(d)
  PROVE  DocTypeOK'
<1>1. doc' \in Seq(Pages')
  BY EmptySeq DEF SavePdf
<1>2. files \subseteq [number : Nat, pages : Seq(Pages')] /\ lost \subseteq Pages'
  BY SeqMonotonic DEF DocTypeOK
<1>3. Range(d) \subseteq Pages'
  <2>1. DOMAIN d = 1 .. Len(d)
    BY LenProperties
  <2> QED
    BY <2>1, ElementOfSeq DEF Range
<1> QED
  BY <1>1, <1>2, <1>3 DEF SavePdf, DocTypeOK

(* finishDocument, whether there is a document, whether it can be written.  *)
LEMMA FinishKeepsDocInv ==
  ASSUME DocInv, FinishDocument, UNCHANGED owner, jpegPage' \in Nat
  PROVE  DocInv'
<1>1. Pages' = Pages /\ owner' \in Seq(Nat)
  BY DEF Pages, DocInv, DocTypeOK
<1>2. CASE doc = << >>
  <2>1. UNCHANGED <<doc, files, lost>>
    BY <1>2 DEF FinishDocument
  <2>2. DocTypeOK'
    BY <1>1, <2>1 DEF DocInv, DocTypeOK
  <2>3. PagesConserved' /\ PagesInOrder'
    BY <1>1, <2>1 DEF DocInv, PagesConserved, PagesInOrder
  <2> QED
    BY <2>2, <2>3 DEF DocInv
<1>3. CASE doc # << >>
  <2>1. SavePdf(doc)
    BY <1>3 DEF FinishDocument
  <2>2. DocTypeOK /\ doc \in Seq(Pages')
    BY <1>1 DEF DocInv, DocTypeOK
  <2>3. DocTypeOK'
    BY <1>1, <2>1, <2>2, SavePdfType
  <2>4. Conserved(Pages', doc, lost, files)
    BY <1>1 DEF DocInv, PagesConserved, Conserved
  <2>5. Increasing(doc) /\ \A f \in files : Increasing(f.pages)
    BY DEF DocInv, PagesInOrder
  <2> QED
    BY <2>1, <2>2, <2>3, <2>4, <2>5, SavePdfKeeps DEF DocInv
<1> QED
  BY <1>2, <1>3

\* The pages after an arrival.
LEMMA ArriveFacts ==
  ASSUME DocTypeOK, NEW n \in Nat, NEW w \in Nat, Arrive(n, w)
  PROVE  /\ owner' \in Seq(Nat) /\ Len(owner') = Len(owner) + n /\ Len(owner) \in Nat
         /\ Pages' = 1 .. Len(owner) + n
         /\ Pages' = Pages \cup Range(Arrived(n))
         /\ Range(Arrived(n)) \cap Pages = {}
<1> DEFINE more == [i \in 1 .. n |-> w]
<1>1. Len(owner) \in Nat /\ owner \in Seq(Nat)
  BY LenProperties DEF DocTypeOK
<1>2. more \in Seq(Nat) /\ Len(more) = n
  <2>1. more \in [1 .. n -> Nat]
    OBVIOUS
  <2>2. more \in Seq(Nat)
    BY <2>1, SeqDef
  <2> QED
    BY <2>2, LenProperties
<1> HIDE DEF more
<1>3. owner' = owner \o more
  BY DEF Arrive, more
<1>4. owner' \in Seq(Nat) /\ Len(owner') = Len(owner) + n
  BY <1>1, <1>2, <1>3, ConcatProperties
<1>5. Range(Arrived(n)) = Len(owner) + 1 .. Len(owner) + n
  BY <1>1, ArrivedFacts
<1> QED
  BY <1>1, <1>4, <1>5 DEF Pages

LEMMA ArriveOwner ==
  ASSUME DocTypeOK, NEW n \in Nat, NEW w \in Nat, Arrive(n, w)
  PROVE  /\ DOMAIN owner' = Pages' /\ DOMAIN owner = Pages
         /\ \A p \in Pages : owner'[p] = owner[p]
         /\ \A p \in Pages' \ Pages : owner'[p] = w
<1> DEFINE more == [i \in 1 .. n |-> w]
<1>1. Len(owner) \in Nat /\ owner \in Seq(Nat)
  BY LenProperties DEF DocTypeOK
<1>2. more \in Seq(Nat) /\ Len(more) = n /\ \A i \in 1 .. n : more[i] = w
  <2>1. more \in [1 .. n -> Nat]
    OBVIOUS
  <2>2. more \in Seq(Nat)
    BY <2>1, SeqDef
  <2> QED
    BY <2>2, LenProperties
<1> HIDE DEF more
<1>3. owner' = owner \o more
  BY DEF Arrive, more
<1>4. \A p \in 1 .. Len(owner) + n :
         owner'[p] = IF p <= Len(owner) THEN owner[p] ELSE more[p - Len(owner)]
  BY <1>1, <1>2, <1>3, ConcatProperties
<1>5. Pages' = 1 .. Len(owner) + n /\ Pages = 1 .. Len(owner)
  BY ArriveFacts DEF Pages
<1>6. \A p \in Pages' \ Pages : p - Len(owner) \in 1 .. n
  BY <1>1, <1>5
<1>7. DOMAIN owner' = Pages' /\ DOMAIN owner = Pages
  BY <1>1, ArriveFacts, LenProperties DEF Pages
<1> QED
  BY <1>1, <1>2, <1>4, <1>5, <1>6, <1>7

(* The PDF half of filing.                                                  *)
LEMMA FilePdfKeepsDocInv ==
  ASSUME DocInv, NEW n \in Nat, NEW w \in Nat, NEW single \in BOOLEAN, FilePdf(n, w, single)
  PROVE  DocInv'
<1> DEFINE d == doc \o Arrived(n)
<1>1. /\ DocTypeOK /\ Arrive(n, w) /\ owner \in Seq(Nat) /\ doc \in Seq(Pages)
      /\ Increasing(doc) /\ (\A f \in files : Increasing(f.pages))
      /\ jpegPage' \in Nat
  BY DEF DocInv, DocTypeOK, PagesInOrder, FilePdf
<1>2. /\ owner' \in Seq(Nat) /\ Len(owner') = Len(owner) + n /\ Len(owner) \in Nat
      /\ Pages' = 1 .. Len(owner) + n
      /\ Pages' = Pages \cup Range(Arrived(n))
      /\ Range(Arrived(n)) \cap Pages = {}
  BY <1>1, ArriveFacts
<1>3. d \in Seq(Pages') /\ Range(d) = Range(doc) \cup Range(Arrived(n)) /\ Increasing(d)
  BY <1>1, <1>2, ConcatArrived
<1>4. Conserved(Pages, doc, lost, files)
  BY DEF DocInv, PagesConserved, Conserved
<1> HIDE DEF d
<1>5. Conserved(Pages', d, lost, files)
  <2>1. Conserved(Pages \cup Range(Arrived(n)), d, lost, files)
    BY <1>2, <1>3, <1>4, ConservedAppend
  <2> QED
    BY <1>2, <2>1
<1>6. CASE single
  <2>1. SavePdf(d)
    BY <1>6 DEF FilePdf, d
  <2>2. DocTypeOK'
    BY <1>1, <1>2, <1>3, <2>1, SavePdfType
  <2> QED
    BY <1>1, <1>3, <1>5, <2>1, <2>2, SavePdfKeeps DEF DocInv
<1>7. CASE ~single
  <2>1. doc' = d /\ UNCHANGED <<files, lost>>
    BY <1>7 DEF FilePdf, d
  <2>2. files \subseteq [number : Nat, pages : Seq(Pages')] /\ lost \subseteq Pages'
    BY <1>1, <1>2, SeqMonotonic DEF DocTypeOK
  <2>3. DocTypeOK'
    BY <1>1, <1>2, <1>3, <2>1, <2>2 DEF DocTypeOK
  <2>4. PagesConserved'
    BY <1>5, <2>1 DEF PagesConserved, Conserved
  <2>5. PagesInOrder'
    BY <1>1, <1>3, <2>1 DEF PagesInOrder
  <2> QED
    BY <2>3, <2>4, <2>5 DEF DocInv
<1> QED
  BY <1>6, <1>7

(* The JPEG half: k pages saved one by one, the rest lost.                  *)
LEMMA FileJpegsKeepsDocInv ==
  ASSUME DocInv, NEW n \in Nat, NEW w \in Nat, NEW single \in BOOLEAN, FileJpegs(n, w, single)
  PROVE  DocInv'
<1>1. /\ DocTypeOK /\ Arrive(n, w) /\ owner \in Seq(Nat) /\ doc' = doc /\ jpegPage \in Nat
      /\ doc \in Seq(Pages) /\ Increasing(doc) /\ \A f \in files : Increasing(f.pages)
  BY DEF DocInv, DocTypeOK, PagesInOrder, FileJpegs
<1>2. /\ owner' \in Seq(Nat) /\ Len(owner') = Len(owner) + n /\ Len(owner) \in Nat
      /\ Pages' = 1 .. Len(owner) + n
      /\ Pages' = Pages \cup Range(Arrived(n))
      /\ Range(Arrived(n)) \cap Pages = {}
      /\ Range(Arrived(n)) = Len(owner) + 1 .. Len(owner) + n
  BY <1>1, ArriveFacts, ArrivedFacts
<1>3. PICK k \in 0 .. n :
         /\ files' = files \cup {[number |-> jpegPage + i, pages |-> <<Len(owner) + i>>] :
                                    i \in 1 .. k}
         /\ lost' = lost \cup {Len(owner) + i : i \in k + 1 .. n}
         /\ \/ k = n /\ jpegPage' = IF single THEN 0 ELSE jpegPage + n
            \/ k < n /\ "write" \in Faults /\ jpegPage' = jpegPage + k + 1
  BY DEF FileJpegs
<1> DEFINE Jpeg(i) == [number |-> jpegPage + i, pages |-> <<Len(owner) + i>>]
           Page(i) == Len(owner) + i
           G == {Jpeg(i) : i \in 1 .. k}
           A == {Page(i) : i \in 1 .. k}
           B == {Page(i) : i \in k + 1 .. n}
<1>4. A \cup B = Range(Arrived(n)) /\ A \cap B = {}
  <2>1. ASSUME NEW p \in Len(owner) + 1 .. Len(owner) + n PROVE p \in A \cup B
    <3>1. /\ p - Len(owner) \in 1 .. k \/ p - Len(owner) \in k + 1 .. n
          /\ p = Page(p - Len(owner))
      BY <1>2
    <3> QED
      BY <3>1
  <2>2. ASSUME NEW i \in 1 .. k PROVE Page(i) \in Len(owner) + 1 .. Len(owner) + k
    BY <1>2
  <2>3. ASSUME NEW i \in k + 1 .. n
        PROVE  Page(i) \in Len(owner) + 1 .. Len(owner) + n /\ Page(i) > Len(owner) + k
    BY <1>2
  <2>4. Len(owner) + 1 .. Len(owner) + k \subseteq Len(owner) + 1 .. Len(owner) + n
    BY <1>2
  <2>5. \A p \in Len(owner) + 1 .. Len(owner) + k : ~(p > Len(owner) + k)
    BY <1>2
  <2> HIDE DEF Page
  <2>6. A \subseteq Len(owner) + 1 .. Len(owner) + k
    BY <2>2
  <2>7. B \subseteq Len(owner) + 1 .. Len(owner) + n /\ \A p \in B : p > Len(owner) + k
    BY <2>3
  <2> HIDE DEF A, B
  <2> QED
    BY <1>2, <2>1, <2>4, <2>5, <2>6, <2>7
<1>5. ASSUME NEW i \in 1 .. k
      PROVE  /\ Range(Jpeg(i).pages) = {Page(i)} /\ Increasing(Jpeg(i).pages)
             /\ Jpeg(i) \in [number : Nat, pages : Seq(Pages')]
  <2>1. Page(i) \in Pages' /\ jpegPage + i \in Nat
    BY <1>1, <1>2
  <2>2. <<Page(i)>> \in Seq(Pages') /\ Range(<<Page(i)>>) = {Page(i)} /\ Increasing(<<Page(i)>>)
    BY <2>1 DEF Range, Increasing
  <2> QED
    BY <2>1, <2>2
<1>6. \A i, j \in 1 .. k : Jpeg(i) # Jpeg(j) => Page(i) # Page(j)
  BY <1>2
<1> HIDE DEF Jpeg, Page
<1>7. A = UNION {Range(g.pages) : g \in G}
  <2>1. ASSUME NEW p \in A PROVE \E g \in G : p \in Range(g.pages)
    <3>1. PICK i \in 1 .. k : p = Page(i)
      OBVIOUS
    <3>2. p \in Range(Jpeg(i).pages) /\ Jpeg(i) \in G
      BY <1>5, <3>1
    <3> QED
      BY <3>2
  <2>2. ASSUME NEW g \in G, NEW p \in Range(g.pages) PROVE p \in A
    <3>1. PICK i \in 1 .. k : g = Jpeg(i)
      OBVIOUS
    <3>2. p = Page(i)
      BY <1>5, <2>2, <3>1
    <3> QED
      BY <3>2
  <2> HIDE DEF A, G
  <2> QED
    BY <2>1, <2>2
<1>8. ASSUME NEW f \in G, NEW g \in G, f # g
      PROVE  Range(f.pages) \cap Range(g.pages) = {}
  <2>1. PICK i \in 1 .. k : f = Jpeg(i)
    OBVIOUS
  <2>2. PICK j \in 1 .. k : g = Jpeg(j)
    OBVIOUS
  <2>3. Range(f.pages) = {Page(i)} /\ Range(g.pages) = {Page(j)}
    BY <1>5, <2>1, <2>2
  <2> QED
    BY <1>6, <1>8, <2>1, <2>2, <2>3
<1>9. \A g \in G : g \in [number : Nat, pages : Seq(Pages')] /\ Increasing(g.pages)
  BY <1>5
<1>10. Conserved(Pages, doc, lost, files)
  BY DEF DocInv, PagesConserved, Conserved
<1> HIDE DEF G, A, B
<1>11. Conserved(Pages', doc, lost \cup B, files \cup G)
  <2>1. Conserved(Pages \cup A \cup B, doc, lost \cup B, files \cup G)
    BY <1>2, <1>4, <1>7, <1>8, <1>10, ConservedNewFiles
  <2>2. Pages' = Pages \cup A \cup B
    BY <1>2, <1>4
  <2> QED
    BY <2>1, <2>2
<1>12. files' = files \cup G /\ lost' = lost \cup B
  BY <1>3 DEF G, B, Jpeg, Page
<1>13. PagesConserved'
  BY <1>1, <1>11, <1>12 DEF PagesConserved, Conserved
<1>14. PagesInOrder'
  BY <1>1, <1>9, <1>12 DEF PagesInOrder
<1>15. DocTypeOK'
  <2>1. files \subseteq [number : Nat, pages : Seq(Pages')] /\ lost \subseteq Pages'
    BY <1>1, <1>2, SeqMonotonic DEF DocTypeOK
  <2>2. doc' \in Seq(Pages')
    BY <1>1, <1>2, SeqMonotonic
  <2>3. lost \cup B \subseteq Pages'
    BY <1>2, <1>4, <2>1
  <2>4. jpegPage' \in Nat
    BY <1>1, <1>3
  <2> QED
    BY <1>2, <1>9, <1>12, <2>1, <2>2, <2>3, <2>4 DEF DocTypeOK
<1> QED
  BY <1>13, <1>14, <1>15 DEF DocInv

(* However many pages a job brings, filing them keeps every page in one     *)
(* place and in order.                                                      *)
THEOREM FilePagesKeepsDocInv ==
  ASSUME DocInv, NEW format, NEW n \in Nat, NEW w \in Nat, NEW single \in BOOLEAN,
         FilePages(format, n, w, single)
  PROVE  DocInv'
BY FilePdfKeepsDocInv, FileJpegsKeepsDocInv DEF FilePages

-----------------------------------------------------------------------------
(* Walkups.  What follows is about any files F and document d, whose pages  *)
(* have the walkups that o says; B are walkups of which nothing is claimed. *)

\* The walkups that the pages of s belong to, and those that have a PDF.
Of(s, o) == {o[p] : p \in Range(s)}
Filed(F, o) == UNION {Of(f.pages, o) : f \in {g \in F : g.number = 0}}

\* The document will be a PDF of one walkup, and of one that has no other;
\* the PDFs are.
Apart(o, d, F, B) ==
    /\ \A v, w \in Of(d, o) \ B : v = w
    /\ Of(d, o) \cap Filed(F, o) \subseteq B
    /\ \A f, g \in F : f.number = 0 /\ g.number = 0 =>
          /\ \A v, w \in Of(f.pages, o) \ B : v = w
          /\ (Of(f.pages, o) \cap Of(g.pages, o)) \ B # {} => f = g

\* The walkups that have pages, have pages in the document, have a PDF.
Scanned == Range(owner)
InDoc == Of(doc, owner)
Had == Filed(files, owner)

\* Walkups are numbers, and those of pages are among them.
LEMMA WalkupSets ==
  ASSUME DocInv
  PROVE  Scanned \subseteq Nat /\ InDoc \subseteq Scanned /\ Had \subseteq Scanned
<1>1. DOMAIN owner = Pages /\ \A p \in Pages : owner[p] \in Nat
  BY LenProperties, ElementOfSeq DEF DocInv, DocTypeOK, Pages
<1>2. Range(doc) \subseteq Pages /\ \A f \in files : Range(f.pages) \subseteq Pages
  BY DEF DocInv, PagesConserved
<1>3. Scanned \subseteq Nat /\ \A p \in Pages : owner[p] \in Scanned
  BY <1>1 DEF Scanned, Range
<1> QED
  BY <1>2, <1>3 DEF InDoc, Had, Filed, Of

LEMMA ApartSave ==
  ASSUME NEW o, NEW d, NEW F, NEW B, Apart(o, d, F, B)
  PROVE  /\ Apart(o, << >>, F \cup {Pdf(d)}, B)
         /\ Filed(F \cup {Pdf(d)}, o) = Filed(F, o) \cup Of(d, o)
<1>1. Of(<< >>, o) = {}
  BY DEF Of, Range
<1>2. Pdf(d).number = 0 /\ Pdf(d).pages = d
  BY DEF Pdf
<1>3. \A f \in F : f.number = 0 => Of(f.pages, o) \subseteq Filed(F, o)
  BY DEF Filed
<1>4. Filed(F \cup {Pdf(d)}, o) = Filed(F, o) \cup Of(d, o)
  BY <1>2 DEF Filed
<1> QED
  BY <1>1, <1>2, <1>3, <1>4 DEF Apart

LEMMA ApartLose ==
  ASSUME NEW o, NEW d, NEW F, NEW B, Apart(o, d, F, B)
  PROVE  Apart(o, << >>, F, B) /\ Of(<< >>, o) = {}
<1>1. Of(<< >>, o) = {}
  BY DEF Of, Range
<1> QED
  BY <1>1 DEF Apart

LEMMA ApartAppend ==
  ASSUME NEW o, NEW d, NEW F, NEW B, NEW e, NEW w, Apart(o, d, F, B),
         Of(e, o) = Of(d, o) \cup {w} \/ Of(e, o) = Of(d, o),
         w \in B \/ Of(d, o) \ B \subseteq {w}, w \notin Filed(F, o) \ B
  PROVE  Apart(o, e, F, B)
BY DEF Apart

\* JPEG files do not count.
LEMMA ApartJpegs ==
  ASSUME NEW o, NEW d, NEW F, NEW B, NEW G, Apart(o, d, F, B), \A g \in G : g.number # 0
  PROVE  Apart(o, d, F \cup G, B) /\ Filed(F \cup G, o) = Filed(F, o)
<1>1. Filed(F \cup G, o) = Filed(F, o)
  BY DEF Filed
<1> QED
  BY <1>1 DEF Apart

\* Further pages have no part in it.
LEMMA ApartArrive ==
  ASSUME NEW o, NEW q, NEW d, NEW F, NEW B, Apart(o, d, F, B),
         \A p \in Range(d) : q[p] = o[p],
         \A f \in F : \A p \in Range(f.pages) : q[p] = o[p]
  PROVE  Apart(q, d, F, B) /\ Of(d, q) = Of(d, o) /\ Filed(F, q) = Filed(F, o)
<1>1. Of(d, q) = Of(d, o)
  BY DEF Of
<1>2. \A f \in F : Of(f.pages, q) = Of(f.pages, o)
  BY DEF Of
<1>3. Filed(F, q) = Filed(F, o)
  BY <1>2 DEF Filed
<1> QED
  BY <1>1, <1>2, <1>3 DEF Apart

\* Closing the document.
LEMMA FinishApart ==
  ASSUME NEW B, FinishDocument, UNCHANGED owner, Apart(owner, doc, files, B)
  PROVE  /\ Apart(owner', doc', files', B)
         /\ Of(doc', owner') = {}
         /\ Filed(files', owner') \subseteq Filed(files, owner) \cup Of(doc, owner)
<1>1. Of(<< >>, owner) = {} /\ Apart(owner, << >>, files, B)
  BY ApartLose
<1>2. CASE doc = << >>
  BY <1>1, <1>2 DEF FinishDocument
<1>3. CASE doc # << >>
  <2>1. doc' = << >> /\ files' \in {files, files \cup {Pdf(doc)}}
    BY <1>3 DEF FinishDocument, SavePdf, Pdf
  <2>2. /\ Apart(owner, << >>, files \cup {Pdf(doc)}, B)
        /\ Filed(files \cup {Pdf(doc)}, owner) = Filed(files, owner) \cup Of(doc, owner)
    BY ApartSave
  <2> QED
    BY <1>1, <2>1, <2>2
<1> QED
  BY <1>2, <1>3

\* Filing pages of a walkup that has no PDF yet, next to none of another.
LEMMA FilePagesApart ==
  ASSUME DocInv, NEW format, NEW n \in Nat, NEW w \in Nat, NEW single \in BOOLEAN,
         FilePages(format, n, w, single), NEW B, Apart(owner, doc, files, B),
         w \in B \/ Of(doc, owner) \ B \subseteq {w}, w \notin Filed(files, owner) \ B
  PROVE  /\ Apart(owner', doc', files', B)
         /\ Range(owner') \subseteq Range(owner) \cup {w}
         /\ Of(doc', owner') \subseteq Of(doc, owner) \cup {w}
         /\ Filed(files', owner') \subseteq
               Filed(files, owner) \cup (IF single THEN Of(doc, owner) \cup {w} ELSE {})
<1>1. DocTypeOK /\ Arrive(n, w)
  BY DEF DocInv, FilePages, FilePdf, FileJpegs
<1>2. /\ DOMAIN owner' = Pages' /\ DOMAIN owner = Pages
      /\ \A p \in Pages : owner'[p] = owner[p]
      /\ \A p \in Pages' \ Pages : owner'[p] = w
  BY <1>1, ArriveOwner
<1>3. /\ Pages' = Pages \cup Range(Arrived(n)) /\ Range(Arrived(n)) \cap Pages = {}
  BY <1>1, ArriveFacts
<1>4. Range(owner') \subseteq Range(owner) \cup {w}
  BY <1>2, <1>3 DEF Range
<1>5. Range(doc) \subseteq Pages /\ \A f \in files : Range(f.pages) \subseteq Pages
  BY DEF DocInv, PagesConserved
<1>6. /\ Apart(owner', doc, files, B) /\ Of(doc, owner') = Of(doc, owner)
      /\ Filed(files, owner') = Filed(files, owner)
  <2>1. /\ \A p \in Range(doc) : owner'[p] = owner[p]
        /\ \A f \in files : \A p \in Range(f.pages) : owner'[p] = owner[p]
    BY <1>2, <1>5
  <2> QED
    BY <2>1, ApartArrive
<1>7. CASE format = "pdf" /\ FilePdf(n, w, single)
  <2> DEFINE e == doc \o Arrived(n)
  <2>1. Range(e) = Range(doc) \cup Range(Arrived(n))
    BY <1>1, ConcatArrived DEF DocInv, DocTypeOK, PagesInOrder
  <2> HIDE DEF e
  <2>2. \A p \in Range(Arrived(n)) : owner'[p] = w
    BY <1>2, <1>3
  <2>3. Of(e, owner') = Of(doc, owner') \cup {w} \/ Of(e, owner') = Of(doc, owner')
    BY <2>1, <2>2 DEF Of
  <2>4. Apart(owner', e, files, B)
    BY <1>6, <2>3, ApartAppend
  <2>5. CASE single
    <3>1. doc' = << >> /\ files' \in {files, files \cup {Pdf(e)}}
      BY <1>7, <2>5 DEF FilePdf, SavePdf, Pdf, e
    <3>2. /\ Apart(owner', << >>, files, B) /\ Of(<< >>, owner') = {}
          /\ Apart(owner', << >>, files \cup {Pdf(e)}, B)
          /\ Filed(files \cup {Pdf(e)}, owner') = Filed(files, owner') \cup Of(e, owner')
      BY <2>4, ApartSave, ApartLose
    <3> QED
      BY <1>4, <1>6, <2>3, <2>5, <3>1, <3>2
  <2>6. CASE ~single
    <3>1. doc' = e /\ files' = files
      BY <1>7, <2>6 DEF FilePdf, e
    <3> QED
      BY <1>4, <1>6, <2>3, <2>4, <2>6, <3>1
  <2> QED
    BY <2>5, <2>6
<1>8. CASE format = "jpeg" /\ FileJpegs(n, w, single)
  <2>1. doc' = doc
    BY <1>8 DEF FileJpegs
  <2>2. PICK k \in 0 .. n : files' = files \cup {[number |-> jpegPage + i,
                                    pages |-> <<Len(owner) + i>>] : i \in 1 .. k}
    BY <1>8 DEF FileJpegs
  <2> DEFINE G == {[number |-> jpegPage + i, pages |-> <<Len(owner) + i>>] : i \in 1 .. k}
  <2>3. \A g \in G : g.number # 0
    BY DEF DocInv, DocTypeOK
  <2> HIDE DEF G
  <2>4. Apart(owner', doc, files \cup G, B) /\ Filed(files \cup G, owner') = Filed(files, owner')
    BY <1>6, <2>3, ApartJpegs
  <2>5. files' = files \cup G
    BY <2>2 DEF G
  <2> QED
    BY <1>4, <1>6, <2>1, <2>4, <2>5
<1> QED
  BY <1>7, <1>8 DEF FilePages

-----------------------------------------------------------------------------
(* The numbers of JPEG files, of any files F with the walkups that o says.  *)

Jpegs(F, o, w) == {f \in F : f.number # 0 /\ o[f.pages[1]] = w}
Before(F, o, w, p) == {f \in Jpegs(F, o, w) : f.pages[1] < p}
Numbered(F, o) ==
    \A f \in F : f.number # 0 =>
        f.number = Cardinality(Before(F, o, o[f.pages[1]], f.pages[1])) + 1

\* A JPEG file holds one page, and files are finitely many.
JpegInv == IsFiniteSet(files) /\ \A f \in files : f.number # 0 => Len(f.pages) = 1

LEMMA JpegsAreNumbered == Numbered(files, owner) => JpegsNumbered
<1> SUFFICES ASSUME Numbered(files, owner), NEW f \in files \ Pdfs
             PROVE  f.number = Cardinality(Before(files, owner, owner[f.pages[1]], f.pages[1])) + 1
  <2>1. ASSUME NEW w, NEW p
        PROVE  Before(files, owner, w, p)
                  = {g \in files \ Pdfs : owner[g.pages[1]] = w /\ g.pages[1] < p}
    BY DEF Before, Jpegs, Pdfs
  <2> QED
    BY <2>1 DEF JpegsNumbered
<1> QED
  BY DEF Numbered, Pdfs

(* A set and k more.                                                        *)
LEMMA CardinalityMore ==
  ASSUME NEW A, IsFiniteSet(A), NEW k \in Nat, NEW T, NEW J \in Bijection(1 .. k, T), A \cap T = {}
  PROVE  IsFiniteSet(A \cup T) /\ Cardinality(A \cup T) = Cardinality(A) + k
<1>1. IsFiniteSet(1 .. k) /\ Cardinality(1 .. k) = k
  BY FS_Interval
<1>2. ExistsBijection(1 .. k, T)
  BY DEF ExistsBijection
<1>3. IsFiniteSet(T) /\ Cardinality(T) = k
  BY <1>1, <1>2, FS_Bijection
<1>4. Cardinality(A \cap T) = 0
  BY FS_EmptySet
<1>5. Cardinality(A) \in Nat
  BY FS_CardinalityType
<1>6. IsFiniteSet(A \cup T) /\ Cardinality(A \cup T) = Cardinality(A) + Cardinality(T) - Cardinality(A \cap T)
  BY <1>3, FS_Union
<1> QED
  BY <1>3, <1>4, <1>5, <1>6

\* The file of the i-th page of a run behind page L, numbered from j.
Jpeg(j, L, i) == [number |-> j + i, pages |-> <<L + i>>]
Run(j, L, k) == {Jpeg(j, L, i) : i \in 1 .. k}

LEMMA RunBijection ==
  ASSUME NEW j \in Nat, NEW L \in Nat, NEW k \in Nat
  PROVE  [i \in 1 .. k |-> Jpeg(j, L, i)] \in Bijection(1 .. k, Run(j, L, k))
<1> DEFINE h == [i \in 1 .. k |-> Jpeg(j, L, i)]
<1>1. ASSUME NEW a \in 1 .. k, NEW b \in 1 .. k, h[a] = h[b] PROVE a = b
  <2>1. Jpeg(j, L, a).number = Jpeg(j, L, b).number
    BY <1>1
  <2> QED
    BY <2>1 DEF Jpeg
<1>2. h \in [1 .. k -> Run(j, L, k)]
  BY DEF Run
<1>3. \A t \in Run(j, L, k) : \E a \in 1 .. k : h[a] = t
  BY DEF Run
<1> HIDE DEF h
<1>4. h \in Bijection(1 .. k, Run(j, L, k))
  BY <1>1, <1>2, <1>3 DEF Bijection, Injection, Surjection, IsInjective
<1> QED
  BY <1>4 DEF h

\* A run of k pages of walkup w behind page L, when every page so far is
\* before it and the walkup has j files.
Follows(F, L, j, k, o, q, w) ==
    /\ IsFiniteSet(F) /\ L \in Nat /\ j \in Nat /\ k \in Nat
    /\ \A f \in F : f.number # 0 => f.pages[1] \in 1 .. L
    /\ \A p \in 1 .. L : q[p] = o[p]
    /\ \A p \in L + 1 .. L + k : q[p] = w
    /\ j = Cardinality(Jpegs(F, o, w)) /\ Numbered(F, o)

LEMMA RunNumbered ==
  ASSUME NEW F, NEW L, NEW j, NEW k, NEW o, NEW q, NEW w, Follows(F, L, j, k, o, q, w)
  PROVE  /\ Numbered(F \cup Run(j, L, k), q)
         /\ Cardinality(Jpegs(F \cup Run(j, L, k), q, w)) = j + k
<1> DEFINE G == Run(j, L, k)
           A == Jpegs(F, o, w)
<1> USE DEF Follows
<1>1. ASSUME NEW i \in 1 .. k
      PROVE  /\ Jpeg(j, L, i).number = j + i /\ Jpeg(j, L, i).number # 0
             /\ Jpeg(j, L, i).pages[1] = L + i /\ L + i \in L + 1 .. L + k
  BY DEF Jpeg
<1>2. \A g \in G : /\ g.number # 0 /\ g.pages[1] \in L + 1 .. L + k
                   /\ \E i \in 1 .. k : g = Jpeg(j, L, i)
  BY <1>1 DEF Run
<1>3. \A v : Jpegs(F, q, v) = Jpegs(F, o, v)
  BY DEF Jpegs
<1>4. \A g \in G : q[g.pages[1]] = w
  BY <1>2
<1>5. Jpegs(F \cup G, q, w) = A \cup G
  BY <1>2, <1>3, <1>4 DEF Jpegs
<1>6. \A f \in F : f.number # 0 => \A g \in G : f.pages[1] < g.pages[1]
  <2>1. \A a \in 1 .. L, b \in L + 1 .. L + k : a < b
    OBVIOUS
  <2> QED
    BY <1>2, <2>1
<1>7. IsFiniteSet(A) /\ A \subseteq F
  <2>1. A \subseteq F
    BY DEF Jpegs
  <2> QED
    BY <2>1, FS_Subset
<1>8. A \cap G = {}
  <2> SUFFICES ASSUME NEW f \in A, f \in G PROVE FALSE
    OBVIOUS
  <2>1. f.pages[1] < f.pages[1] /\ f.pages[1] \in 1 .. L
    BY <1>6 DEF Jpegs
  <2> QED
    BY <2>1
<1>9. ASSUME NEW i \in 0 .. k PROVE Cardinality(A \cup Run(j, L, i)) = j + i
  <2>1. Run(j, L, i) \subseteq G
    BY DEF Run
  <2>2. A \cap Run(j, L, i) = {}
    BY <1>8, <2>1
  <2>3. i \in Nat
    OBVIOUS
  <2> HIDE DEF A
  <2>4. Cardinality(A \cup Run(j, L, i)) = Cardinality(A) + i
    BY <1>7, <2>2, <2>3, RunBijection, CardinalityMore
  <2> QED
    BY <2>4 DEF A
<1>10. ASSUME NEW f \in F, f.number # 0
       PROVE  f.number = Cardinality(Before(F \cup G, q, q[f.pages[1]], f.pages[1])) + 1
  <2>1. q[f.pages[1]] = o[f.pages[1]]
    BY <1>10
  <2>2. \A g \in G : ~(g.pages[1] < f.pages[1])
    <3> SUFFICES ASSUME NEW g \in G PROVE ~(g.pages[1] < f.pages[1])
      OBVIOUS
    <3>1. f.pages[1] < g.pages[1] /\ f.pages[1] \in 1 .. L /\ g.pages[1] \in L + 1 .. L + k
      BY <1>2, <1>6, <1>10
    <3> QED
      BY <3>1
  <2>3. ASSUME NEW v PROVE Before(F \cup G, q, v, f.pages[1]) = Before(F, o, v, f.pages[1])
    <3> HIDE DEF G
    <3>1. \A g \in F : (g \in Jpegs(F \cup G, q, v)) = (g \in Jpegs(F, o, v))
      BY <1>3 DEF Jpegs
    <3> QED
      BY <2>2, <3>1 DEF Before, Jpegs
  <2>4. f.number = Cardinality(Before(F, o, o[f.pages[1]], f.pages[1])) + 1
    BY <1>10 DEF Numbered
  <2> QED
    BY <2>1, <2>3, <2>4
<1>11. ASSUME NEW i \in 1 .. k PROVE Before(F \cup G, q, w, L + i) = A \cup Run(j, L, i - 1)
  <2>1. \A f \in A : f.pages[1] < L + i
    <3> SUFFICES ASSUME NEW f \in A PROVE f.pages[1] < L + i
      OBVIOUS
    <3>1. f.pages[1] \in 1 .. L
      BY DEF Jpegs
    <3> QED
      BY <3>1
  <2>2. \A m \in 1 .. i - 1 : m \in 1 .. k /\ L + m < L + i
    OBVIOUS
  <2>3. \A m \in 1 .. k : L + m < L + i => m \in 1 .. i - 1
    OBVIOUS
  <2>4. ASSUME NEW g PROVE g \in Run(j, L, i - 1) <=> g \in G /\ g.pages[1] < L + i
    <3>1. ASSUME g \in Run(j, L, i - 1) PROVE g \in G /\ g.pages[1] < L + i
      <4>1. PICK m \in 1 .. i - 1 : g = Jpeg(j, L, m)
        BY <3>1 DEF Run
      <4>2. m \in 1 .. k /\ L + m < L + i /\ g.pages[1] = L + m
        BY <1>1, <2>2, <4>1
      <4>3. g \in G
        BY <4>1, <4>2 DEF Run
      <4> QED
        BY <4>2, <4>3
    <3>2. ASSUME g \in G, g.pages[1] < L + i PROVE g \in Run(j, L, i - 1)
      <4>1. PICK m \in 1 .. k : g = Jpeg(j, L, m)
        BY <1>2, <3>2
      <4>2. m \in 1 .. i - 1
        BY <1>1, <2>3, <3>2, <4>1
      <4> QED
        BY <4>1, <4>2 DEF Run
    <3> QED
      BY <3>1, <3>2
  <2> HIDE DEF G, A
  <2> QED
    BY <1>5, <2>1, <2>4 DEF Before
<1>12. ASSUME NEW g \in G
       PROVE  g.number = Cardinality(Before(F \cup G, q, q[g.pages[1]], g.pages[1])) + 1
  <2>1. PICK i \in 1 .. k : g = Jpeg(j, L, i)
    BY <1>2
  <2>2. g.number = j + i /\ g.pages[1] = L + i /\ q[g.pages[1]] = w
    BY <1>1, <1>4, <2>1
  <2>3. i - 1 \in 0 .. k
    OBVIOUS
  <2>4. Cardinality(Before(F \cup G, q, w, L + i)) = j + (i - 1)
    BY <1>9, <1>11, <2>3
  <2> QED
    BY <2>2, <2>4
<1>13. Numbered(F \cup G, q)
  <2> HIDE DEF G
  <2> QED
    BY <1>10, <1>12 DEF Numbered
<1>14. Cardinality(Jpegs(F \cup G, q, w)) = j + k
  <2>1. k \in 0 .. k
    OBVIOUS
  <2> QED
    BY <1>5, <1>9, <2>1
<1> QED
  BY <1>13, <1>14

\* PDFs have no part in it.
LEMMA JpegsPdf ==
  ASSUME NEW F, NEW d, NEW o
  PROVE  /\ \A w : Jpegs(F \cup {Pdf(d)}, o, w) = Jpegs(F, o, w)
         /\ Numbered(F, o) => Numbered(F \cup {Pdf(d)}, o)
<1>1. Pdf(d).number = 0
  BY DEF Pdf
<1>2. \A w : Jpegs(F \cup {Pdf(d)}, o, w) = Jpegs(F, o, w)
  BY <1>1 DEF Jpegs
<1>3. \A w, p : Before(F \cup {Pdf(d)}, o, w, p) = Before(F, o, w, p)
  BY <1>2 DEF Before
<1> QED
  BY <1>1, <1>2, <1>3 DEF Numbered

\* What closing the document leaves of the JPEG files.
LEMMA FinishNumbered ==
  ASSUME JpegInv, FinishDocument, UNCHANGED owner
  PROVE  /\ JpegInv'
         /\ \A w : Jpegs(files', owner', w) = Jpegs(files, owner, w)
         /\ Numbered(files, owner) => Numbered(files', owner')
         /\ lost \subseteq lost'
<1>1. files' \in {files, files \cup {Pdf(doc)}} /\ lost \subseteq lost'
  BY DEF FinishDocument, SavePdf, Pdf
<1>2. /\ \A w : Jpegs(files \cup {Pdf(doc)}, owner, w) = Jpegs(files, owner, w)
      /\ Numbered(files, owner) => Numbered(files \cup {Pdf(doc)}, owner)
  BY JpegsPdf
<1>3. JpegInv'
  <2>1. IsFiniteSet(files \cup {Pdf(doc)}) /\ Pdf(doc).number = 0
    BY FS_AddElement DEF JpegInv, Pdf
  <2> QED
    BY <1>1, <2>1 DEF JpegInv
<1> QED
  BY <1>1, <1>2, <1>3

\* Filing keeps the JPEG files what they are, and loses no loss.
LEMMA FilePagesJpegInv ==
  ASSUME DocInv, JpegInv, NEW format, NEW n \in Nat, NEW w, NEW single,
         FilePages(format, n, w, single)
  PROVE  JpegInv' /\ lost \subseteq lost'
<1>1. CASE FilePdf(n, w, single)
  <2> DEFINE e == doc \o Arrived(n)
  <2>1. files' \in {files, files \cup {Pdf(e)}} /\ lost \subseteq lost'
    BY <1>1 DEF FilePdf, SavePdf, Pdf
  <2>2. IsFiniteSet(files \cup {Pdf(e)}) /\ Pdf(e).number = 0
    BY FS_AddElement DEF JpegInv, Pdf
  <2> HIDE DEF e
  <2> QED
    BY <2>1, <2>2 DEF JpegInv
<1>2. CASE FileJpegs(n, w, single)
  <2>1. PICK k \in 0 .. n : files' = files \cup Run(jpegPage, Len(owner), k)
    BY <1>2 DEF FileJpegs, Run, Jpeg
  <2>2. jpegPage \in Nat /\ Len(owner) \in Nat /\ k \in Nat
    BY LenProperties DEF DocInv, DocTypeOK
  <2>3. IsFiniteSet(Run(jpegPage, Len(owner), k))
    <3>1. ExistsBijection(1 .. k, Run(jpegPage, Len(owner), k))
      BY <2>2, RunBijection DEF ExistsBijection
    <3> QED
      BY <2>2, <3>1, FS_Interval, FS_Bijection
  <2>4. \A g \in Run(jpegPage, Len(owner), k) : Len(g.pages) = 1
    BY DEF Run, Jpeg
  <2>5. IsFiniteSet(files')
    BY <2>1, <2>3, FS_Union DEF JpegInv
  <2>6. lost \subseteq lost'
    BY <1>2 DEF FileJpegs
  <2> QED
    BY <2>1, <2>4, <2>5, <2>6 DEF JpegInv
<1> QED
  BY <1>1, <1>2 DEF FilePages

\* When the counter says how many files a walkup has, its next pages get
\* the numbers that follow.
LEMMA FilePagesNumbered ==
  ASSUME DocInv, JpegInv, NEW format, NEW n \in Nat, NEW w \in Nat, NEW single \in BOOLEAN,
         FilePages(format, n, w, single), lost' = {}, Numbered(files, owner),
         jpegPage = Cardinality(Jpegs(files, owner, w))
  PROVE  /\ Numbered(files', owner')
         /\ ~single => jpegPage' = Cardinality(Jpegs(files', owner', w))
         /\ single /\ jpegPage = 0 => jpegPage' = 0
<1> DEFINE L == Len(owner)
<1>1. /\ DocTypeOK /\ Arrive(n, w) /\ L \in Nat /\ jpegPage \in Nat
  BY LenProperties DEF DocInv, DocTypeOK, FilePages, FilePdf, FileJpegs
<1>2. /\ Pages = 1 .. L /\ Pages' = 1 .. L + n
      /\ \A p \in Pages : owner'[p] = owner[p]
      /\ \A p \in Pages' \ Pages : owner'[p] = w
  BY <1>1, ArriveFacts, ArriveOwner DEF Pages
<1>3. /\ \A p \in 1 .. L : owner'[p] = owner[p]
      /\ \A p \in L + 1 .. L + n : owner'[p] = w
  <2>1. \A p \in L + 1 .. L + n : p \in 1 .. L + n /\ p \notin 1 .. L
    BY <1>1
  <2> QED
    BY <1>2, <2>1
<1>4. \A f \in files : f.number # 0 => f.pages[1] \in 1 .. L
  <2> SUFFICES ASSUME NEW f \in files, f.number # 0 PROVE f.pages[1] \in 1 .. L
    OBVIOUS
  <2>1. f.pages \in Seq(Pages) /\ Len(f.pages) = 1
    BY DEF JpegInv, DocInv, DocTypeOK
  <2>2. 1 \in 1 .. Len(f.pages)
    BY <2>1
  <2>3. f.pages[1] \in Pages
    BY <2>1, <2>2, ElementOfSeq
  <2> QED
    BY <1>2, <2>3
<1> HIDE DEF L
<1>5. CASE format = "pdf" /\ FilePdf(n, w, single)
  <2> DEFINE e == doc \o Arrived(n)
  <2>1. files' \in {files, files \cup {Pdf(e)}} /\ jpegPage' = jpegPage
    BY <1>5 DEF FilePdf, SavePdf, Pdf
  <2> HIDE DEF e
  <2>2. /\ Jpegs(files, owner', w) = Jpegs(files, owner, w)
        /\ Numbered(files, owner')
    <3>1. \A v : Jpegs(files, owner', v) = Jpegs(files, owner, v)
      BY <1>3, <1>4 DEF Jpegs
    <3>2. \A v, p : Before(files, owner', v, p) = Before(files, owner, v, p)
      BY <3>1 DEF Before
    <3> QED
      BY <1>3, <1>4, <3>1, <3>2 DEF Numbered
  <2>3. /\ Jpegs(files \cup {Pdf(e)}, owner', w) = Jpegs(files, owner', w)
        /\ Numbered(files \cup {Pdf(e)}, owner')
    BY <2>2, JpegsPdf
  <2> QED
    BY <2>1, <2>2, <2>3
<1>6. CASE format = "jpeg" /\ FileJpegs(n, w, single)
  <2>1. /\ files' = files \cup Run(jpegPage, L, n)
        /\ jpegPage' = IF single THEN 0 ELSE jpegPage + n
    <3>1. PICK k \in 0 .. n :
             /\ files' = files \cup Run(jpegPage, L, k)
             /\ lost' = lost \cup {L + i : i \in k + 1 .. n}
             /\ \/ k = n /\ jpegPage' = IF single THEN 0 ELSE jpegPage + n
                \/ k < n
      BY <1>6 DEF FileJpegs, Run, Jpeg, L
    <3>2. k < n => n \in k + 1 .. n
      OBVIOUS
    <3>3. k = n
      BY <3>1, <3>2
    <3>4. files' = files \cup Run(jpegPage, L, n) /\ ~(k < n)
      BY <3>1, <3>3
    <3> QED
      BY <3>1, <3>4, Zenon
  <2>2. Follows(files, L, jpegPage, n, owner, owner', w)
    BY <1>1, <1>3, <1>4, Zenon DEF Follows, JpegInv
  <2>3. /\ Numbered(files \cup Run(jpegPage, L, n), owner')
        /\ Cardinality(Jpegs(files \cup Run(jpegPage, L, n), owner', w)) = jpegPage + n
    BY <2>2, RunNumbered
  <2>4. CASE single
    BY <2>1, <2>3, <2>4
  <2>5. CASE ~single
    BY <2>1, <2>3, <2>5
  <2> QED
    BY <2>4, <2>5
<1> QED
  BY <1>5, <1>6 DEF FilePages

\* A walkup without pages has no files.
LEMMA NoFiles ==
  ASSUME DocInv, JpegInv, NEW v, v \notin Scanned
  PROVE  Jpegs(files, owner, v) = {} /\ Cardinality(Jpegs(files, owner, v)) = 0
<1>1. ASSUME NEW f \in files, f.number # 0 PROVE owner[f.pages[1]] \in Scanned
  <2>1. f.pages \in Seq(Pages) /\ Len(f.pages) = 1
    BY <1>1 DEF JpegInv, DocInv, DocTypeOK
  <2>2. 1 \in 1 .. Len(f.pages)
    BY <2>1
  <2>3. f.pages[1] \in Pages
    BY <2>1, <2>2, ElementOfSeq
  <2>4. DOMAIN owner = Pages
    BY LenProperties DEF DocInv, DocTypeOK, Pages
  <2> QED
    BY <2>3, <2>4 DEF Scanned, Range
<1>2. Jpegs(files, owner, v) = {}
  BY <1>1 DEF Jpegs
<1> QED
  BY <1>2, FS_EmptySet
=============================================================================

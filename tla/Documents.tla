------------------------------ MODULE Documents ------------------------------
(***************************************************************************)
(* What a session does with the pages a scan returned: the half of the     *)
(* daemon the eSCL and the LEDM paths share (internal/daemon/daemon.go).   *)
(* A PDF grows page by page in memory (d.doc) until something finishes it, *)
(* a JPEG is saved at once under a page number that counts up inside one   *)
(* walkup (d.jpegPage).  Both saves can fail, and then pages are gone.     *)
(*                                                                         *)
(* A page is the number of its arrival from the scanner.  The history      *)
(* variable owner remembers which walkup (which visit of a user to the     *)
(* panel) each page was scanned for; the program does not know that.       *)
(***************************************************************************)
EXTENDS Naturals, Sequences, FiniteSets, Functions

CONSTANT Faults     \* the outside events an instance lets happen, by name

VARIABLES
    owner,      \* history: owner[p] is the walkup page p belongs to
    doc,        \* d.doc.pages; << >> when d.doc is nil (a document has pages)
    jpegPage,   \* d.jpegPage
    files,      \* the saved files: [number |-> 0 for a PDF, pages |-> ...]
    lost        \* pages dropped because a file could not be written

docVars == <<owner, doc, jpegPage, files, lost>>

Pages == 1 .. Len(owner)

DocInit ==
    /\ owner = << >>
    /\ doc = << >>
    /\ jpegPage = 0
    /\ files = {}
    /\ lost = {}

\* The next n pages off the scanner, which are those of walkup w.
Arrived(n) == [i \in 1 .. n |-> Len(owner) + i]
Arrive(n, w) == owner' = owner \o [i \in 1 .. n |-> w]

\* Mutant: d.doc is kept.
SavePdfKeepsDoc(pages) ==
    /\ doc' = pages
    /\ files' = files \cup {[number |-> 0, pages |-> pages]}
    /\ UNCHANGED lost

\* finishDocument: d.doc becomes nil before anything is written, so a PDF
\* that cannot be built or saved takes its pages with it.
SavePdf(pages) ==
    /\ doc' = << >>
    /\ \/ /\ files' = files \cup {[number |-> 0, pages |-> pages]}
          /\ UNCHANGED lost
       \/ /\ "write" \in Faults
          /\ lost' = lost \cup Range(pages)
          /\ UNCHANGED files

FinishDocument ==
    IF doc = << >> THEN UNCHANGED <<doc, files, lost>> ELSE SavePdf(doc)

\* The PDF half of scanPage and esclScan: the pages join the open document;
\* single (a feeder run) finishes it.
FilePdf(n, w, single) ==
    /\ Arrive(n, w)
    /\ UNCHANGED jpegPage
    /\ IF single THEN SavePdf(doc \o Arrived(n))
       ELSE /\ doc' = doc \o Arrived(n)
            /\ UNCHANGED <<files, lost>>

\* The JPEG half: each page takes the next number and is saved.  The first
\* failed save (after k good ones) returns, which drops the pages behind it
\* and skips the reset of the counter.
FileJpegs(n, w, single) ==
    /\ Arrive(n, w)
    /\ UNCHANGED doc
    /\ \E k \in 0 .. n :
          /\ files' = files \cup {[number |-> jpegPage + i, pages |-> <<Len(owner) + i>>] :
                                     i \in 1 .. k}
          /\ lost' = lost \cup {Len(owner) + i : i \in k + 1 .. n}
          /\ \/ k = n /\ jpegPage' = IF single THEN 0 ELSE jpegPage + n
             \/ k < n /\ "write" \in Faults /\ jpegPage' = jpegPage + k + 1

FilePages(format, n, w, single) ==
    \/ format = "pdf" /\ FilePdf(n, w, single)
    \/ format = "jpeg" /\ FileJpegs(n, w, single)

-----------------------------------------------------------------------------
DocTypeOK ==
    /\ owner \in Seq(Nat)
    /\ doc \in Seq(Pages)
    /\ jpegPage \in Nat
    /\ files \subseteq [number : Nat, pages : Seq(Pages)]
    /\ lost \subseteq Pages

(* Every page the scanner handed over is in exactly one place: the open     *)
(* document, one saved file, or the pages a failed save dropped.  No path   *)
(* (expiry, teardown, a feeder run, a failed write half way through a JPEG  *)
(* run) forgets a page or saves it twice.                                   *)
PagesConserved ==
    /\ Pages = Range(doc) \cup lost \cup UNION {Range(f.pages) : f \in files}
    /\ Range(doc) \cap lost = {}
    /\ \A f \in files : Range(f.pages) \cap (Range(doc) \cup lost) = {}
    /\ \A f, g \in files : f # g => Range(f.pages) \cap Range(g.pages) = {}

Increasing(s) == \A i, j \in DOMAIN s : i < j => s[i] < s[j]

(* Pages lie in the order they were scanned, in the open document and in    *)
(* every saved PDF, however many events and scan jobs they came from.       *)
PagesInOrder == Increasing(doc) /\ \A f \in files : Increasing(f.pages)

\* The PDF files, and the walkups a file holds pages of.
Pdfs == {f \in files : f.number = 0}
Walkups(f) == {owner[p] : p \in Range(f.pages)}

(* When nothing goes wrong at the panel, a PDF holds the pages of one       *)
(* walkup and a walkup has one PDF: the extra pages of a walkup, which      *)
(* arrive as further ScanRequested events, are not split off, and the next  *)
(* walkup's pages are not added to the last one's.                          *)
OneWalkupPerPdf ==
    \A f, g \in Pdfs : /\ \A v, w \in Walkups(f) : v = w
                       /\ Walkups(f) \cap Walkups(g) # {} => f = g

(* When nothing goes wrong at the panel, the JPEG files of one walkup are   *)
(* numbered 1, 2, 3, ... in the order their pages were scanned: the counter *)
(* neither runs on from the last walkup nor starts again inside one.        *)
JpegsNumbered ==
    \A f \in files \ Pdfs :
        LET w     == owner[f.pages[1]]
            older == {g \in files \ Pdfs : /\ owner[g.pages[1]] = w
                                           /\ g.pages[1] < f.pages[1]}
        IN f.number = Cardinality(older) + 1
=============================================================================

------------------------------ MODULE Discovery -------------------------------
(***************************************************************************)
(* A browse for HP scanners (discover/mdns.go, discover/legacy.go): the    *)
(* multicast browse and the legacy unicast queries side by side, and the   *)
(* union of what they find.  Any packet may be lost, and where the system  *)
(* owns port 5353 the multicast browse hears nothing.                      *)
(*                                                                         *)
(* The collector files every record under the name of its instance or      *)
(* host, and merge compares hosts, so that printers do not meet: each      *)
(* operator is about one printer.  A scanner is what is known of it: its   *)
(* IP address or not, its TXT record or not.                               *)
(***************************************************************************)

CONSTANTS
    SaysHP,     \* printers with "hp" in their instance names
    Terse       \* printers that answer nothing but what they are asked

Scanner == [ip : BOOLEAN, txt : BOOLEAN]
Records == {"PTR", "SRV", "TXT", "A"}

Reply(p, asked) == IF asked = {} \/ p \in Terse THEN asked ELSE Records

\* The follow-up questions about an instance of which records are there.
Missing(c) ==
    IF "PTR" \notin c THEN {}
    ELSE IF "SRV" \notin c THEN {"SRV", "TXT"}
    ELSE {"TXT", "A"} \ c

Scanners(c) ==
    IF {"PTR", "SRV"} \subseteq c THEN {[ip |-> "A" \in c, txt |-> "TXT" \in c]} ELSE {}

\* Two rounds of questions, each of which may lose records.  What comes in the
\* first round, what is there after the second, and if nothing is lost.
First(p) == SUBSET Reply(p, {"PTR"})
Second(p, c) == {c \cup d : d \in SUBSET (Reply(p, Missing(c)) \ c)}
BrowseLegacy(p) == UNION {{Scanners(c) : c \in Second(p, first)} : first \in First(p)}
AllLegacy(p) ==
    LET c == Reply(p, {"PTR"}) IN Scanners(c \cup Reply(p, Missing(c)))

\* What the library hands to fromEntry, which copes without the two records.
BrowseMulticast == {{}} \cup {{s} : s \in Scanner}

\* Mutant: what both found is found twice.
MergeAll(a, b) == a \cup b

\* Of two scanners on one host the first counts.
Merge(a, b) == IF a # {} THEN a ELSE b

\* By the maker in its TXT record, or by its name.
IsHP(p, s) == s.txt \/ p \in SaysHP
AllHP(p, scanners) == {s \in scanners : IsHP(p, s)}


\* The best host to connect to: the IP address when known, else the host name.
Address(s) == IF s.ip THEN "ip" ELSE "host"
AllAddresses(p, scanners) == {Address(s) : s \in AllHP(p, scanners)}

\* What a browse may find of p, and what it finds if nothing is lost.
Browse(p, multicast) ==
    {AllAddresses(p, Merge(m, l)) :
        m \in IF multicast THEN BrowseMulticast ELSE {{}}, l \in BrowseLegacy(p)}

BrowseAll(p, multicast) ==
    AllAddresses(p, Merge(IF multicast THEN {[ip |-> TRUE, txt |-> TRUE]} ELSE {}, AllLegacy(p)))
===============================================================================

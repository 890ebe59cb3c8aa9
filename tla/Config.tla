-------------------------------- MODULE Config --------------------------------
(***************************************************************************)
(* The configuration file: what a daemon makes of it when it starts (Load) *)
(* and what `hpscan config set` and `hpscan printer` make of it (Set)      *)
(* (config/config.go).  The two judge a file differently: Load fills in    *)
(* the keys that are missing, Set also the values that are empty.          *)
(*                                                                         *)
(* A file is a function from the keys it has to their values, the setting  *)
(* "printer" being a list.  Letter case and comments are left out; a value *)
(* of the wrong type is refused by Set like one that is out of range.      *)
(***************************************************************************)
EXTENDS Integers, Sequences

CONSTANTS
    NoFile,     \* there is no file
    Garbled,    \* a file that is no YAML
    Hostname,   \* os.Hostname, or "hpscan"
    Durations   \* the strings time.ParseDuration accepts

ConfigAssumption ==
    /\ NoFile # Garbled /\ Hostname # ""
    /\ "120s" \in Durations /\ "" \notin Durations

Defaults ==
    [printer |-> << >>, port |-> 8080, name |-> Hostname, output_dir |-> "~/Scans",
     format |-> "pdf", resolution |-> 300, color_mode |-> "color", paper |-> "a4",
     filename |-> "scan_{date}_{time}", page_timeout |-> "120s",
     log_level |-> "info", log_file |-> ""]

Keys == DOMAIN Defaults

Zero(k) == IF k = "printer" THEN << >> ELSE IF k \in {"port", "resolution"} THEN 0 ELSE ""

\* A document without content, which is what opening the file for writing leaves.
Empty == [k \in {} |-> 0]
IsMapping(f) == f \notin {NoFile, Garbled} /\ DOMAIN f # {}

Validate(c) ==
    /\ c.format \in {"pdf", "jpeg"}
    /\ c.color_mode \in {"color", "gray"}
    /\ c.paper \in {"a4", "letter"}
    /\ c.resolution \in 75 .. 1200
    /\ c.name # "" /\ c.filename # ""
    /\ c.page_timeout \in Durations

\* Load: the file over the defaults.  An empty value in the file stays empty.
Load(f) == [k \in Keys |-> IF k \in DOMAIN f THEN f[k] ELSE Defaults[k]]
Loads(f) == f \notin {NoFile, Garbled} /\ Validate(Load(f))

\* Set parses into a zero Config instead, and merge fills what is empty, but
\* for three keys that may be.
Parsed(f) == [k \in Keys |-> IF k \in DOMAIN f THEN f[k] ELSE Zero(k)]
Merge(d, c) ==
    [k \in Keys |->
        IF c[k] = Zero(k) /\ k \notin {"printer", "output_dir", "log_file"} THEN d[k] ELSE c[k]]

Put(f, k, v) == [x \in DOMAIN f \cup {k} |-> IF x = k THEN v ELSE f[x]]

\* Mutant: Set does not check the new value.
SetUnchecked(f, k, v) == IsMapping(f) /\ k \in Keys

SetAccepts(f, k, v) ==
    /\ IsMapping(f) /\ k \in Keys
    /\ Validate(Merge(Defaults, Parsed(Put(f, k, v))))

\* What `hpscan config init` writes: the defaults with the printer it found.
Sample(list) == [Defaults EXCEPT !.printer = list]
===============================================================================

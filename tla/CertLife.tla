------------------------------ MODULE CertLife ------------------------------
(***************************************************************************)
(* One certificate file and one key file, and everybody who touches them:   *)
(* the workers of one master, each with a watcher (src/server.rs,           *)
(* cert_watcher), an ACME renewal task (src/acme/renewal.rs) and the pair    *)
(* it serves (src/tls/reload.rs); atomic_install (src/acme/certificate.rs)   *)
(* with its two temporary files, which all workers share; and an operator   *)
(* (a deploy hook) who replaces the two files one after the other.  The     *)
(* storage directory of ACME is taken to hold the files that are served.    *)
(*                                                                         *)
(* A version is one issued pair: certificate v and key v match each other    *)
(* and nothing else.  A file holds a version, is Torn from its truncation to *)
(* its first write, or is Mixed, what the writes of several can leave.  The  *)
(* modification time of a file stands for what was written last: a version   *)
(* is written to a name once.                                               *)
(***************************************************************************)
EXTENDS Integers

CONSTANTS
    Workers,        \* the worker processes that serve this pair
    Acme,           \* those started with the --acme options
    Sni,            \* those that have the pair as the default of an SNI table
    Disturbances,   \* among "io" (a file operation fails) and "operator"
    MaxVersions,    \* how many pairs are issued, the first included (a bound)
    MaxStops        \* how many times a worker stops or crashes (a bound)

ASSUME CertAssumption ==
    /\ Acme \subseteq Workers /\ Sni \subseteq Workers
    /\ Disturbances \subseteq {"io", "operator"}
    /\ MaxVersions \in Nat \ {0} /\ MaxStops \in Nat

VARIABLES
    live,       \* the certificate and the key file
    tmp,        \* cert.pem.tmp and key.key.tmp
    issued,     \* versions issued so far are 1..issued
    fresh,      \* versions that need no renewal yet
    renewal,    \* where the renewal task of a worker stands
    new,        \* the version it installs
    handle,     \* the file it has open for writing
    watcher,    \* where the worker's start, then its cert_watcher, stands
    seen,       \* last_cert_mtime and last_key_mtime
    look,       \* the times of this tick
    read,       \* what a reload of the worker has read, per task
    mem,        \* the pair the worker serves
    operator,   \* the version whose key the operator has yet to copy, or Torn
    stops,      \* times a worker has stopped
    disturbed   \* installs that another writer has overlapped (history)

diskVars  == <<live, tmp>>
issueVars == <<issued, fresh>>
renewVars == <<renewal, new, handle>>
watchVars == <<watcher, seen, look>>
loadVars  == <<read, mem>>
envVars   == <<operator, stops>>
vars == <<diskVars, issueVars, renewVars, watchVars, loadVars, envVars, disturbed>>

Absent   == -2
Mixed    == -1
Torn     == 0
Versions == 1..MaxVersions
Kinds    == {"cert", "key"}
Tasks    == {"watcher", "renewal"}
Pair     == [Kinds -> Mixed..MaxVersions]
Both(v)  == [k \in Kinds |-> v]
NoPair   == Both(Torn)

Installing == {"openCert", "writeCert", "openKey", "writeKey", "renameCert", "renameKey"}

TypeOK ==
    /\ live \in Pair
    /\ tmp \in [Kinds -> Absent..MaxVersions]
    /\ issued \in Versions /\ fresh \subseteq 1..issued
    /\ renewal \in [Workers -> {"down", "sleep", "readCert", "readKey", "store"} \cup Installing]
    /\ new \in [Workers -> 0..issued]
    /\ handle \in [Workers -> {"none", "tmp", "live", "gone"}]
    /\ watcher \in [Workers -> {"down", "bootCert", "first", "firstKey", "tick", "tickKey",
                                "debounce", "readKey", "store", "stopped"}]
    /\ seen \in [Workers -> Pair] /\ look \in [Workers -> Pair]
    /\ read \in [Workers -> [Tasks -> Pair]]
    /\ mem \in [Workers -> Pair]
    /\ operator \in Torn..issued
    /\ stops \in 0..MaxStops
    /\ disturbed \subseteq Workers

\* The pair on disk is the first one issued, and due for renewal; no worker is up.
Init ==
    /\ live = Both(1) /\ tmp = [k \in Kinds |-> Absent]
    /\ issued = 1 /\ fresh = {}
    /\ renewal = [w \in Workers |-> "down"]
    /\ new = [w \in Workers |-> 0] /\ handle = [w \in Workers |-> "none"]
    /\ watcher = [w \in Workers |-> "down"]
    /\ seen = [w \in Workers |-> NoPair] /\ look = [w \in Workers |-> NoPair]
    /\ read = [w \in Workers |-> [t \in Tasks |-> NoPair]]
    /\ mem = [w \in Workers |-> NoPair]
    /\ operator = Torn /\ stops = 0 /\ disturbed = {}

-----------------------------------------------------------------------------
(* build_single_config and reload: the certificate is read, then the key,   *)
(* the two are validated against each other, then the new pair is stored.   *)
(* Two tasks of a worker may be in it at once.                              *)

Go(pc, w, from, to) == pc[w] = from /\ pc' = [pc EXCEPT ![w] = to]

ReadCert(w, t) == read' = [read EXCEPT ![w][t]["cert"] = live["cert"]]
Forget(w, t)   == read' = [read EXCEPT ![w][t] = NoPair]     \* out of scope

\* validate_pair
Valid(pair) == pair["cert"] = pair["key"] /\ pair["key"] \in Versions

\* Mutant: both files parse, but nobody compares them.
KeyParses(w, t) == {read[w][t]["cert"], live["key"]} \subseteq Versions

KeyMatches(w, t) == Valid([read[w][t] EXCEPT !["key"] = live["key"]])
ReadKey(w, t)  == read' = [read EXCEPT ![w][t]["key"] = live["key"]]
Store(w, t)    == mem' = [mem EXCEPT ![w] = read[w][t]]

-----------------------------------------------------------------------------
(* The life of a worker: from_pem_files (or from_sni_entries, which keeps no  *)
(* paths, so that there is no watcher), then RenewalTask::spawn and the      *)
(* watcher.  A pair that does not load is a fatal error; the master forks    *)
(* the next worker.                                                         *)

BootCert(w) ==
    /\ Go(watcher, w, "down", "bootCert")
    /\ ReadCert(w, "watcher")
    /\ UNCHANGED <<diskVars, issueVars, renewVars, seen, look, mem, envVars, disturbed>>

BootKey(w) ==
    /\ watcher[w] = "bootCert"
    /\ IF KeyMatches(w, "watcher")
       THEN /\ mem' = [mem EXCEPT ![w] = [read[w]["watcher"] EXCEPT !["key"] = live["key"]]]
            /\ watcher' = [watcher EXCEPT ![w] = IF w \in Sni THEN "stopped" ELSE "first"]
            /\ renewal' = IF w \in Acme THEN [renewal EXCEPT ![w] = "sleep"] ELSE renewal
       ELSE /\ watcher' = [watcher EXCEPT ![w] = "down"]
            /\ UNCHANGED <<mem, renewal>>
    /\ Forget(w, "watcher")
    /\ UNCHANGED <<diskVars, issueVars, new, handle, seen, look, envVars, disturbed>>

\* The process ends, by a shutdown or a crash, wherever its tasks stand.
Stop(w) ==
    /\ watcher[w] # "down" /\ stops < MaxStops
    /\ stops' = stops + 1
    /\ watcher' = [watcher EXCEPT ![w] = "down"]
    /\ renewal' = [renewal EXCEPT ![w] = "down"]
    /\ new' = [new EXCEPT ![w] = 0] /\ handle' = [handle EXCEPT ![w] = "none"]
    /\ seen' = [seen EXCEPT ![w] = NoPair] /\ look' = [look EXCEPT ![w] = NoPair]
    /\ read' = [read EXCEPT ![w] = [t \in Tasks |-> NoPair]]
    /\ mem' = [mem EXCEPT ![w] = NoPair]
    /\ disturbed' = disturbed \ {w}
    /\ UNCHANGED <<diskVars, issueVars, operator>>

-----------------------------------------------------------------------------
(* cert_watcher.                                                            *)

\* The first times are read from the files as they are now, not as they were
\* when they were loaded.
FirstLookCert(w) ==
    /\ Go(watcher, w, "first", "firstKey")
    /\ seen' = [seen EXCEPT ![w]["cert"] = live["cert"]]
    /\ UNCHANGED <<diskVars, issueVars, renewVars, look, loadVars, envVars, disturbed>>

FirstLookKey(w) ==
    /\ Go(watcher, w, "firstKey", "tick")
    /\ seen' = [seen EXCEPT ![w]["key"] = live["key"]]
    /\ UNCHANGED <<diskVars, issueVars, renewVars, look, loadVars, envVars, disturbed>>

TickOver(w) ==
    /\ watcher' = [watcher EXCEPT ![w] = "tick"]
    /\ look' = [look EXCEPT ![w] = NoPair]

TickCert(w) ==
    /\ Go(watcher, w, "tick", "tickKey")
    /\ look' = [look EXCEPT ![w]["cert"] = live["cert"]]
    /\ UNCHANGED <<diskVars, issueVars, renewVars, seen, loadVars, envVars, disturbed>>

TickKey(w) ==
    /\ watcher[w] = "tickKey"
    /\ LET now == [look[w] EXCEPT !["key"] = live["key"]]
       IN  IF now # seen[w]
           THEN Go(watcher, w, "tickKey", "debounce") /\ look' = [look EXCEPT ![w] = now]
           ELSE TickOver(w)
    /\ UNCHANGED <<diskVars, issueVars, renewVars, seen, loadVars, envVars, disturbed>>

\* 500 ms later, reload_from_pem.
Reload(w) ==
    /\ Go(watcher, w, "debounce", "readKey")
    /\ ReadCert(w, "watcher")
    /\ UNCHANGED <<diskVars, issueVars, renewVars, seen, look, mem, envVars, disturbed>>

\* "keeping old": the times are not updated, and the next tick tries again.
ReloadKey(w) ==
    /\ watcher[w] = "readKey"
    /\ IF KeyMatches(w, "watcher")
       THEN Go(watcher, w, "readKey", "store") /\ ReadKey(w, "watcher") /\ UNCHANGED look
       ELSE TickOver(w) /\ Forget(w, "watcher")
    /\ UNCHANGED <<diskVars, issueVars, renewVars, seen, mem, envVars, disturbed>>

\* Mutant: the times are read again after the reload.
ReloadStoresNow(w) ==
    /\ watcher[w] = "store"
    /\ Store(w, "watcher") /\ Forget(w, "watcher")
    /\ seen' = [seen EXCEPT ![w] = live]
    /\ TickOver(w)
    /\ UNCHANGED <<diskVars, issueVars, renewVars, envVars, disturbed>>

ReloadStores(w) ==
    /\ watcher[w] = "store"
    /\ Store(w, "watcher") /\ Forget(w, "watcher")
    /\ seen' = [seen EXCEPT ![w] = look[w]]
    /\ TickOver(w)
    /\ UNCHANGED <<diskVars, issueVars, renewVars, envVars, disturbed>>

\* The shutdown is seen between two ticks; the worker serves on while it drains.
WatcherStops(w) ==
    /\ Go(watcher, w, "tick", "stopped")
    /\ seen' = [seen EXCEPT ![w] = NoPair]
    /\ UNCHANGED <<diskVars, issueVars, renewVars, look, loadVars, envVars, disturbed>>

-----------------------------------------------------------------------------
(* RenewalTask and atomic_install.                                          *)

Installers == {w \in Workers : renewal[w] \in Installing}

\* w is about to write a new pair, while others are at it.
Overlap(w) ==
    disturbed' = IF Installers \ {w} # {} \/ operator # Torn
                 THEN disturbed \cup Installers \cup {w}
                 ELSE disturbed

Issue(v) == issued < MaxVersions /\ v = issued + 1 /\ issued' = v /\ fresh' = fresh \cup {v}

\* The certificate has expired or cannot be read.  (A failed order leaves
\* everything as it was, until the next hour.)
Due == live["cert"] \notin fresh

Order(w) ==
    /\ Go(renewal, w, "sleep", "openCert")
    /\ Due
    /\ \E v \in Versions : Issue(v) /\ new' = [new EXCEPT ![w] = v]
    /\ Overlap(w)
    /\ UNCHANGED <<diskVars, handle, watchVars, loadVars, envVars>>

\* fs::write: the file is created or truncated, then written.  A file that
\* another worker has open is the same file; renaming it takes the writer along.
Open(w, k, from, to) ==
    /\ Go(renewal, w, from, to)
    /\ tmp' = [tmp EXCEPT ![k] = Torn]
    /\ handle' = [handle EXCEPT ![w] = "tmp"]
    /\ UNCHANGED <<live, issueVars, new, watchVars, loadVars, envVars, disturbed>>

\* The first write after a truncation leaves its version; one over the bytes of
\* another may cover them or not.
Written(old, v) == IF old = Torn THEN {v} ELSE {v, Mixed}

WriteFile(w, k, from, to) ==
    /\ Go(renewal, w, from, to)
    /\ \/ handle[w] = "tmp" /\ UNCHANGED live
          /\ \E c \in Written(tmp[k], new[w]) : tmp' = [tmp EXCEPT ![k] = c]
       \/ handle[w] = "live" /\ UNCHANGED tmp
          /\ \E c \in Written(live[k], new[w]) : live' = [live EXCEPT ![k] = c]
       \/ handle[w] = "gone" /\ UNCHANGED diskVars
    /\ handle' = [handle EXCEPT ![w] = "none"]
    /\ UNCHANGED <<issueVars, new, watchVars, loadVars, envVars, disturbed>>

\* What becomes of the handles on file k when another file takes its name.
Replaced(k, named) ==
    handle' = [x \in Workers |->
        IF renewal[x] # (IF k = "cert" THEN "writeCert" ELSE "writeKey") THEN handle[x]
        ELSE IF handle[x] = "live" THEN "gone"
        ELSE IF handle[x] = "tmp" /\ named THEN "live" ELSE handle[x]]

\* Mutant: a temporary file that another worker has renamed is renamed again.
RenameBlind(w, k, from, to) ==
    /\ Go(renewal, w, from, to)
    /\ live' = [live EXCEPT ![k] = tmp[k]] /\ tmp' = [tmp EXCEPT ![k] = Absent]
    /\ Replaced(k, TRUE)
    /\ UNCHANGED <<issueVars, new, watchVars, loadVars, envVars, disturbed>>

Rename(w, k, from, to) ==
    /\ tmp[k] # Absent
    /\ Go(renewal, w, from, to)
    /\ live' = [live EXCEPT ![k] = tmp[k]] /\ tmp' = [tmp EXCEPT ![k] = Absent]
    /\ Replaced(k, TRUE)
    /\ UNCHANGED <<issueVars, new, watchVars, loadVars, envVars, disturbed>>

\* Mutant: the key is renamed before it is written.
WriteKeyLate(w) ==
    /\ Go(renewal, w, "writeKey", "renameCert")
    /\ handle' = [handle EXCEPT ![w] = "none"]
    /\ UNCHANGED <<diskVars, issueVars, new, watchVars, loadVars, envVars, disturbed>>

OpenCert(w)   == Open(w, "cert", "openCert", "writeCert")
WriteCert(w)  == WriteFile(w, "cert", "writeCert", "openKey")
OpenKey(w)    == Open(w, "key", "openKey", "writeKey")
WriteKey(w)   == WriteFile(w, "key", "writeKey", "renameCert")
RenameCert(w) == Rename(w, "cert", "renameCert", "renameKey")
RenameKey(w)  == Rename(w, "key", "renameKey", "readCert")

\* Back to the hourly sleep, with the locals of the iteration gone.
Sleep(w) ==
    /\ renewal' = [renewal EXCEPT ![w] = "sleep"]
    /\ new' = [new EXCEPT ![w] = 0] /\ handle' = [handle EXCEPT ![w] = "none"]
    /\ Forget(w, "renewal")
    /\ disturbed' = disturbed \ {w}

\* A rename fails when another worker has renamed the file; any file operation
\* may fail for reasons of its own.
TmpGone(w) == \/ renewal[w] = "renameCert" /\ tmp["cert"] = Absent
              \/ renewal[w] = "renameKey" /\ tmp["key"] = Absent

InstallFails(w) ==
    /\ TmpGone(w) \/ ("io" \in Disturbances /\ renewal[w] \in Installing)
    /\ Sleep(w)
    /\ UNCHANGED <<diskVars, issueVars, watchVars, mem, envVars>>

RenewalReads(w) ==
    /\ Go(renewal, w, "readCert", "readKey")
    /\ ReadCert(w, "renewal")
    /\ UNCHANGED <<diskVars, issueVars, new, handle, watchVars, mem, envVars, disturbed>>

RenewalKey(w) ==
    /\ Go(renewal, w, "readKey", "store")
    /\ KeyMatches(w, "renewal") /\ ReadKey(w, "renewal")
    /\ UNCHANGED <<diskVars, issueVars, new, handle, watchVars, mem, envVars, disturbed>>

RenewalRefused(w) ==
    /\ renewal[w] = "readKey" /\ ~KeyMatches(w, "renewal")
    /\ Sleep(w)
    /\ UNCHANGED <<diskVars, issueVars, watchVars, mem, envVars>>

RenewalStores(w) ==
    /\ renewal[w] = "store"
    /\ Store(w, "renewal")
    /\ Sleep(w)
    /\ UNCHANGED <<diskVars, issueVars, watchVars, envVars>>

-----------------------------------------------------------------------------
(* The operator replaces the certificate, then the key.  Time passes.       *)

OperatorCert ==
    /\ "operator" \in Disturbances /\ operator = Torn
    /\ \E v \in Versions : Issue(v) /\ operator' = v /\ live' = [live EXCEPT !["cert"] = v]
    /\ disturbed' = disturbed \cup Installers
    /\ Replaced("cert", FALSE)
    /\ UNCHANGED <<tmp, renewal, new, watchVars, loadVars, stops>>

OperatorKey ==
    /\ operator # Torn
    /\ live' = [live EXCEPT !["key"] = operator] /\ operator' = Torn
    /\ Replaced("key", FALSE)
    /\ UNCHANGED <<tmp, issueVars, renewal, new, watchVars, loadVars, stops, disturbed>>

\* Of a version that is not on disk it makes no difference.
Expire ==
    /\ live["cert"] \in fresh /\ fresh' = fresh \ {live["cert"]}
    /\ UNCHANGED <<diskVars, issued, renewVars, watchVars, loadVars, envVars, disturbed>>

-----------------------------------------------------------------------------
Boot(w)      == BootCert(w) \/ BootKey(w)
Watch(w)     == \/ FirstLookCert(w) \/ FirstLookKey(w) \/ TickCert(w) \/ TickKey(w)
                \/ Reload(w) \/ ReloadKey(w) \/ ReloadStores(w)
Install(w)   == \/ OpenCert(w) \/ WriteCert(w) \/ OpenKey(w) \/ WriteKey(w)
                \/ RenameCert(w) \/ RenameKey(w) \/ InstallFails(w)
Renew(w)     == \/ Order(w) \/ Install(w)
                \/ RenewalReads(w) \/ RenewalKey(w) \/ RenewalRefused(w) \/ RenewalStores(w)

Next == \/ \E w \in Workers : Boot(w) \/ Watch(w) \/ WatcherStops(w) \/ Renew(w) \/ Stop(w)
        \/ OperatorCert \/ OperatorKey \/ Expire

(***************************************************************************)
(* Fairness: a watcher ticks every two seconds while its worker serves.     *)
(* Nothing is assumed of renewals, of the operator and of restarts.         *)
(***************************************************************************)
Spec     == Init /\ [][Next]_vars
FairSpec == Spec /\ \A w \in Workers : WF_vars(Watch(w))

-----------------------------------------------------------------------------
(* What the certificate must keep.                                          *)

Loaded(w)   == watcher[w] \notin {"down", "bootCert"}
DiskMatches == Valid(live)

\* Whatever the files go through, a worker serves a certificate with the key
\* that belongs to it: two files read one after the other, between the renames
\* and the copies of others, are never combined into a pair.
ServedPairMatches ==
    \A w \in Workers : Loaded(w) => Valid(mem[w])

\* An install that nobody overlaps leaves its own pair on disk, also over the
\* temporary files that an install cut short has left behind.
LoneInstallMatches ==
    [][\A w \in Workers :
         RenameKey(w) /\ w \notin disturbed => live' = Both(new[w])]_vars

\* A pair on disk that the watcher has not taken note of is served in the end,
\* unless the files change for the worse or the worker goes.  (What the watcher
\* believes to have seen without having loaded it is not covered: see the README.)
Unseen(w) == watcher[w] \in {"tick", "tickKey", "debounce", "readKey", "store"}
             /\ seen[w] # live /\ DiskMatches
RotationServed ==
    \A w \in Workers :
        Unseen(w) ~> (mem[w] = live \/ ~DiskMatches \/ watcher[w] \in {"down", "stopped"})

\* certificate.rs: "Atomically install cert and key": when no install is under
\* way the two files match.
AtRestDiskMatches == Installers = {} /\ operator = Torn => DiskMatches
=============================================================================

--------------------------- MODULE CertLifeProofs ---------------------------
(***************************************************************************)
(* Proofs about CertLife, for any set of workers, any number of versions    *)
(* and any disturbance: the types are kept, a worker never serves a         *)
(* certificate with another one's key, and an install that no other writer  *)
(* overlaps leaves its own pair on disk.                                    *)
(***************************************************************************)
EXTENDS CertLife, TLAPS

-----------------------------------------------------------------------------
(* The types.                                                               *)

LEMMA PairFacts ==
    /\ NoPair \in Pair
    /\ \A v \in Versions : Both(v) \in Pair
  BY CertAssumption DEF NoPair, Both, Pair, Versions, Mixed, Torn

Content == Mixed..MaxVersions
Reads   == [Workers -> [Tasks -> Pair]]

\* One file of a pair, of one worker's pair, of what one of its tasks has read.
LEMMA HalfOfPair ==
    ASSUME NEW p \in Pair, NEW k \in Kinds, NEW v \in Content
    PROVE  /\ p[k] \in Content
           /\ [p EXCEPT ![k] = v] \in Pair
  BY DEF Pair, Content

LEMMA HalfOfWorker ==
    ASSUME NEW f \in [Workers -> Pair], NEW w \in Workers, NEW k \in Kinds, NEW v \in Content
    PROVE  [f EXCEPT ![w][k] = v] \in [Workers -> Pair]
  BY HalfOfPair DEF Pair, Content

LEMMA HalfOfRead ==
    ASSUME NEW f \in Reads, NEW w \in Workers, NEW t \in Tasks, NEW k \in Kinds,
           NEW v \in Content
    PROVE  [f EXCEPT ![w][t][k] = v] \in Reads
  BY DEF Pair, Content, Reads

LEMMA InitTypes == Init => TypeOK
<1> SUFFICES ASSUME Init PROVE TypeOK
  OBVIOUS
<1>1. 1 \in Versions
  BY CertAssumption DEF Versions
<1>2. tmp \in [Kinds -> Absent..MaxVersions]
  BY CertAssumption DEF Init, Absent
<1>3. operator \in Torn..issued /\ stops \in 0..MaxStops
  BY CertAssumption DEF Init, Torn
<1> QED
  BY <1>1, <1>2, <1>3, PairFacts DEF Init, TypeOK

\* Steps of a starting worker and of its watcher.
LEMMA WatchTypes ==
    ASSUME TypeOK, NEW w \in Workers, Boot(w) \/ Watch(w) \/ WatcherStops(w)
    PROVE  TypeOK'
<1> USE DEF diskVars, issueVars, renewVars, loadVars, envVars, Go
<1>1. UNCHANGED <<live, tmp, issued, fresh, new, handle, operator, stops, disturbed>>
  BY DEF Boot, BootCert, BootKey, Watch, FirstLookCert, FirstLookKey, TickCert, TickKey,
         Reload, ReloadKey, ReloadStores, WatcherStops
<1>2. /\ watcher' \in [Workers -> {"down", "bootCert", "first", "firstKey", "tick", "tickKey",
                                   "debounce", "readKey", "store", "stopped"}]
      /\ renewal' \in [Workers -> {"down", "sleep", "readCert", "readKey", "store"}
                                    \cup Installing]
  <2>1. watcher' \in [Workers -> {"down", "bootCert", "first", "firstKey", "tick", "tickKey",
                                  "debounce", "readKey", "store", "stopped"}]
    BY DEF TypeOK, TickOver, Boot, BootCert, BootKey, Watch, FirstLookCert, FirstLookKey,
           TickCert, TickKey, Reload, ReloadKey, ReloadStores, WatcherStops
  <2>2. renewal' \in [Workers -> {"down", "sleep", "readCert", "readKey", "store"}
                                    \cup Installing]
    BY DEF TypeOK, TickOver, Boot, BootCert, BootKey, Watch, FirstLookCert, FirstLookKey,
           TickCert, TickKey, Reload, ReloadKey, ReloadStores, WatcherStops
  <2> QED
    BY <2>1, <2>2
<1>3. /\ live["cert"] \in Content /\ live["key"] \in Content
      /\ NoPair \in Pair /\ "cert" \in Kinds /\ "key" \in Kinds /\ "watcher" \in Tasks
  BY PairFacts DEF TypeOK, Pair, Kinds, Tasks, Content
<1>4. seen' \in [Workers -> Pair]
  <2>1. CASE FirstLookCert(w) \/ FirstLookKey(w)
    <3>1. seen \in [Workers -> Pair]
      BY DEF TypeOK
    <3>2. /\ [seen EXCEPT ![w]["cert"] = live["cert"]] \in [Workers -> Pair]
          /\ [seen EXCEPT ![w]["key"] = live["key"]] \in [Workers -> Pair]
      BY <3>1, <1>3, HalfOfWorker
    <3> QED
      BY <2>1, <3>2 DEF FirstLookCert, FirstLookKey
  <2>2. CASE UNCHANGED seen \/ seen' = [seen EXCEPT ![w] = look[w]]
             \/ seen' = [seen EXCEPT ![w] = NoPair]
    BY <2>2, <1>3 DEF TypeOK
  <2> QED
    BY <2>1, <2>2 DEF Boot, BootCert, BootKey, Watch, TickCert, TickKey, Reload, ReloadKey,
         ReloadStores, WatcherStops
<1>5. look' \in [Workers -> Pair]
  <2>1. CASE TickCert(w)
    BY <2>1, <1>3, HalfOfWorker DEF TypeOK, TickCert
  <2>2. CASE TickKey(w)
    <3>1. [look[w] EXCEPT !["key"] = live["key"]] \in Pair
      BY <1>3, HalfOfPair DEF TypeOK
    <3> QED
      BY <2>2, <3>1, <1>3 DEF TypeOK, TickKey, TickOver
  <2>3. CASE UNCHANGED look \/ TickOver(w)
    BY <2>3, <1>3 DEF TypeOK, TickOver
  <2> QED
    BY <2>1, <2>2, <2>3 DEF Boot, BootCert, BootKey, Watch, FirstLookCert, FirstLookKey,
         Reload, ReloadKey, ReloadStores, WatcherStops
<1>6. read' \in Reads
  <2>1. read \in Reads
    BY DEF TypeOK, Reads
  <2>2. CASE ReadCert(w, "watcher") \/ ReadKey(w, "watcher")
    BY <2>1, <2>2, <1>3, HalfOfRead DEF ReadCert, ReadKey
  <2>3. CASE UNCHANGED read \/ Forget(w, "watcher")
    BY <2>1, <2>3, <1>3 DEF Forget, Reads
  <2> QED
    BY <2>2, <2>3 DEF Boot, BootCert, BootKey, Watch, FirstLookCert, FirstLookKey, TickCert,
         TickKey, Reload, ReloadKey, ReloadStores, WatcherStops
<1>7. mem' \in [Workers -> Pair]
  <2>1. read[w]["watcher"] \in Pair /\ [read[w]["watcher"] EXCEPT !["key"] = live["key"]] \in Pair
    BY <1>3, HalfOfPair DEF TypeOK
  <2> QED
    BY <2>1 DEF TypeOK, Store, Boot, BootCert, BootKey, Watch, FirstLookCert, FirstLookKey,
         TickCert, TickKey, Reload, ReloadKey, ReloadStores, WatcherStops
<1> QED
  BY <1>1, <1>2, <1>4, <1>5, <1>6, <1>7 DEF TypeOK, Reads

\* Steps of the renewal task.
LEMMA RenewTypes ==
    ASSUME TypeOK, NEW w \in Workers, Renew(w)
    PROVE  TypeOK'
<1> USE DEF issueVars, watchVars, envVars, Go
<1> DEFINE Act == \/ Order(w) \/ Install(w) \/ RenewalReads(w) \/ RenewalKey(w)
                  \/ RenewalRefused(w) \/ RenewalStores(w)
<1>0. Act
  BY DEF Renew
<1>1. UNCHANGED <<watcher, seen, look, operator, stops>>
  BY DEF Renew, Order, Install, OpenCert, WriteCert, OpenKey, WriteKey, RenameCert,
         RenameKey, Open, WriteFile, Rename, InstallFails, RenewalReads, RenewalKey,
         RenewalRefused, RenewalStores
<1>2. renewal' \in [Workers -> {"down", "sleep", "readCert", "readKey", "store"} \cup Installing]
  <2>1. \E s \in {"down", "sleep", "readCert", "readKey", "store"} \cup Installing :
           renewal' = [renewal EXCEPT ![w] = s]
    <3>1. CASE Install(w)
      BY <3>1 DEF Installing, Sleep, Install, OpenCert, WriteCert, OpenKey, WriteKey,
         RenameCert, RenameKey, Open, WriteFile, Rename, InstallFails
    <3>2. CASE ~Install(w)
      BY <1>0, <3>2 DEF Installing, Sleep, Order, RenewalReads, RenewalKey, RenewalRefused,
         RenewalStores
    <3> QED
      BY <3>1, <3>2
  <2> QED
    BY <2>1 DEF TypeOK
<1>3. /\ issued' \in Versions /\ issued \in 0..issued' /\ fresh' \subseteq 1..issued'
      /\ new' \in [Workers -> 0..issued']
  <2>1. CASE Order(w)
    BY <2>1 DEF TypeOK, Order, Issue, Versions
  <2>2. CASE UNCHANGED <<issued, fresh>> /\ new' \in {new, [new EXCEPT ![w] = 0]}
    BY <2>2 DEF TypeOK, Versions
  <2> QED
    BY <1>0, <2>1, <2>2 DEF Install, OpenCert, WriteCert, OpenKey, WriteKey, RenameCert,
         RenameKey, Open, WriteFile, Rename, InstallFails, RenewalReads, RenewalKey,
         RenewalRefused, RenewalStores, Sleep
<1>4. /\ live["cert"] \in Content /\ live["key"] \in Content
      /\ NoPair \in Pair /\ "cert" \in Kinds /\ "key" \in Kinds
      /\ "watcher" \in Tasks /\ "renewal" \in Tasks
  BY PairFacts DEF TypeOK, Pair, Kinds, Tasks, Content
<1>5. live' \in Pair /\ tmp' \in [Kinds -> Absent..MaxVersions]
  <2>1. ASSUME NEW k \in Kinds, NEW from, NEW to, WriteFile(w, k, from, to)
        PROVE  live' \in Pair /\ tmp' \in [Kinds -> Absent..MaxVersions]
    <3>1. \A old : Written(old, new[w]) \subseteq Content
      BY CertAssumption DEF Written, TypeOK, Content, Mixed, Torn, Versions
    <3>2. \A c \in Content : [live EXCEPT ![k] = c] \in Pair
      BY HalfOfPair DEF TypeOK
    <3>3. \A c \in Content : [tmp EXCEPT ![k] = c] \in [Kinds -> Absent..MaxVersions]
      BY DEF TypeOK, Content, Mixed, Torn, Absent
    <3> QED
      BY <2>1, <3>1, <3>2, <3>3 DEF TypeOK, WriteFile, diskVars
  <2>2. ASSUME NEW k \in Kinds, NEW from, NEW to, Rename(w, k, from, to)
        PROVE  live' \in Pair /\ tmp' \in [Kinds -> Absent..MaxVersions]
    <3>1. tmp[k] \in Content
      BY <2>2 DEF TypeOK, Rename, Content, Mixed, Torn, Absent
    <3>2. [live EXCEPT ![k] = tmp[k]] \in Pair
      BY <3>1, HalfOfPair DEF TypeOK
    <3>3. [tmp EXCEPT ![k] = Absent] \in [Kinds -> Absent..MaxVersions]
      BY CertAssumption DEF TypeOK, Absent
    <3> QED
      BY <2>2, <3>2, <3>3 DEF Rename
  <2>3. ASSUME NEW k \in Kinds, NEW from, NEW to, Open(w, k, from, to)
        PROVE  live' \in Pair /\ tmp' \in [Kinds -> Absent..MaxVersions]
    BY <2>3, CertAssumption DEF TypeOK, Open, Mixed, Torn, Absent
  <2>4. CASE UNCHANGED diskVars
    BY <2>4 DEF TypeOK, diskVars
  <2> QED
    BY <1>0, <1>4, <2>1, <2>2, <2>3, <2>4 DEF Install, OpenCert, WriteCert, OpenKey,
         WriteKey, RenameCert, RenameKey, InstallFails, RenewalReads, RenewalKey,
         RenewalRefused, RenewalStores, Order
<1>6. handle' \in [Workers -> {"none", "tmp", "live", "gone"}]
  <2>1. \A k, named : Replaced(k, named) => handle' \in [Workers -> {"none", "tmp", "live", "gone"}]
    BY DEF TypeOK, Replaced
  <2> QED
    BY <1>0, <2>1 DEF TypeOK, Sleep, Order, Install, OpenCert, WriteCert, OpenKey, WriteKey,
         RenameCert, RenameKey, Open, WriteFile, Rename, InstallFails, RenewalReads,
         RenewalKey, RenewalRefused, RenewalStores
<1>7. read' \in Reads
  <2>1. read \in Reads
    BY DEF TypeOK, Reads
  <2>2. CASE ReadCert(w, "renewal") \/ ReadKey(w, "renewal")
    BY <2>1, <2>2, <1>4, HalfOfRead DEF ReadCert, ReadKey
  <2>3. CASE UNCHANGED read \/ Forget(w, "renewal")
    BY <2>1, <2>3, <1>4 DEF Forget, Reads
  <2> QED
    BY <1>0, <2>2, <2>3 DEF Sleep, Order, Install, OpenCert, WriteCert, OpenKey, WriteKey,
         RenameCert, RenameKey, Open, WriteFile, Rename, InstallFails, RenewalReads,
         RenewalKey, RenewalRefused, RenewalStores, loadVars
<1>8. mem' \in [Workers -> Pair]
  <2>1. read[w]["renewal"] \in Pair
    BY <1>4 DEF TypeOK
  <2> QED
    BY <1>0, <2>1 DEF TypeOK, Store, Order, Install, OpenCert, WriteCert, OpenKey, WriteKey,
         RenameCert, RenameKey, Open, WriteFile, Rename, InstallFails, RenewalReads,
         RenewalKey, RenewalRefused, RenewalStores, loadVars
<1>9. disturbed' \subseteq Workers
  <2>1. CASE Overlap(w)
    BY <2>1 DEF TypeOK, Overlap, Installers
  <2>2. CASE disturbed' \in {disturbed, disturbed \ {w}}
    BY <2>2 DEF TypeOK
  <2> QED
    BY <1>0, <2>1, <2>2 DEF Sleep, Order, Install, OpenCert, WriteCert, OpenKey, WriteKey,
         RenameCert, RenameKey, Open, WriteFile, Rename, InstallFails, RenewalReads,
         RenewalKey, RenewalRefused, RenewalStores
<1>10. operator \in Torn..issued'
  BY <1>3 DEF TypeOK, Torn, Versions
<1> QED
  BY <1>1, <1>2, <1>3, <1>5, <1>6, <1>7, <1>8, <1>9, <1>10 DEF TypeOK, Reads

\* The process ends; the operator copies a file; a certificate expires.
LEMMA OtherTypes ==
    ASSUME TypeOK,
           (\E w \in Workers : Stop(w)) \/ OperatorCert \/ OperatorKey \/ Expire
    PROVE  TypeOK'
<1> USE DEF diskVars, issueVars, renewVars, watchVars, loadVars, envVars
<1>1. ASSUME NEW w \in Workers, Stop(w) PROVE TypeOK'
  <2>1. stops' \in 0..MaxStops /\ disturbed' \subseteq Workers /\ new' \in [Workers -> 0..issued]
    BY <1>1, CertAssumption DEF TypeOK, Stop, Versions
  <2>2. /\ seen' \in [Workers -> Pair] /\ look' \in [Workers -> Pair]
        /\ read' \in [Workers -> [Tasks -> Pair]] /\ mem' \in [Workers -> Pair]
    BY <1>1, PairFacts DEF TypeOK, Stop
  <2> QED
    BY <1>1, <2>1, <2>2 DEF TypeOK, Stop
<1>2. /\ \A k \in Kinds, v \in Content : [live EXCEPT ![k] = v] \in Pair
      /\ "cert" \in Kinds /\ "key" \in Kinds
  BY HalfOfPair DEF TypeOK, Kinds
<1>3. \A k, named : Replaced(k, named) => handle' \in [Workers -> {"none", "tmp", "live", "gone"}]
  BY DEF TypeOK, Replaced
<1>4. CASE OperatorCert
  <2>1. PICK v \in Versions : Issue(v) /\ operator' = v /\ live' = [live EXCEPT !["cert"] = v]
    BY <1>4 DEF OperatorCert
  <2>2. v \in Content
    BY DEF Content, Versions, Mixed, Torn
  <2>3. live' \in Pair
    BY <2>1, <2>2, <1>2
  <2>4. /\ issued' \in Versions /\ fresh' \subseteq 1..issued' /\ operator' \in Torn..issued'
        /\ new' \in [Workers -> 0..issued']
    BY <2>1, <1>4 DEF TypeOK, OperatorCert, Issue, Versions, Torn
  <2>5. disturbed' \subseteq Workers
    BY <1>4 DEF TypeOK, OperatorCert, Installers
  <2> QED
    BY <1>3, <1>4, <2>3, <2>4, <2>5 DEF TypeOK, OperatorCert
<1>5. CASE OperatorKey
  <2>1. operator \in Content
    BY CertAssumption DEF TypeOK, Content, Versions, Mixed, Torn
  <2>2. live' \in Pair /\ operator' \in Torn..issued
    <3>1. [live EXCEPT !["key"] = operator] \in Pair
      BY <1>2, <2>1
    <3>2. Torn \in Torn..issued
      BY CertAssumption DEF TypeOK, Torn, Versions
    <3> QED
      BY <1>5, <3>1, <3>2 DEF OperatorKey
  <2> QED
    BY <1>3, <1>5, <2>2 DEF TypeOK, OperatorKey
<1>6. CASE Expire
  BY <1>6 DEF TypeOK, Expire
<1> QED
  BY <1>1, <1>4, <1>5, <1>6

LEMMA NextTypes == TypeOK /\ [Next]_vars => TypeOK'
<1>1. TypeOK /\ UNCHANGED vars => TypeOK'
  BY DEF TypeOK, vars, diskVars, issueVars, renewVars, watchVars, loadVars, envVars
<1> QED
  BY <1>1, WatchTypes, RenewTypes, OtherTypes DEF Next

\* Files, tasks and pairs keep their types, whatever fails or stops.
THEOREM TypeCorrect == Spec => []TypeOK
<1> QED
  BY InitTypes, NextTypes, PTL DEF Spec

-----------------------------------------------------------------------------
(* A worker serves a certificate with its own key.                          *)

\* What waits to be stored has been validated: the files may change between
\* the two, the pair that was read does not.
Validated ==
    \A w \in Workers :
        /\ watcher[w] = "store" => Valid(read[w]["watcher"])
        /\ renewal[w] = "store" => Valid(read[w]["renewal"])

Served == TypeOK /\ Validated /\ ServedPairMatches

\* Reading for one task leaves what the other task and other workers have read.
LEMMA ReadsApart ==
    ASSUME NEW f \in Reads, NEW w \in Workers, NEW t \in Tasks, NEW k \in Kinds,
           NEW v \in Content
    PROVE  /\ [f EXCEPT ![w][t][k] = v][w][t] = [f[w][t] EXCEPT ![k] = v]
           /\ \A x \in Workers, u \in Tasks :
                 x # w \/ u # t => [f EXCEPT ![w][t][k] = v][x][u] = f[x][u]
  BY DEF Reads, Pair

LEMMA ReadStep ==
    ASSUME TypeOK, NEW w \in Workers, NEW t \in Tasks,
           ReadCert(w, t) \/ ReadKey(w, t) \/ Forget(w, t) \/ UNCHANGED read
    PROVE  /\ \A x \in Workers \ {w} : read'[x] = read[x]
           /\ \A x \in Workers, u \in Tasks : x # w \/ u # t => read'[x][u] = read[x][u]
           /\ ReadKey(w, t) => read'[w][t] = [read[w][t] EXCEPT !["key"] = live["key"]]
<1>1. /\ read \in Reads /\ "cert" \in Kinds /\ "key" \in Kinds /\ NoPair \in Pair
      /\ live["cert"] \in Content /\ live["key"] \in Content
  BY PairFacts DEF TypeOK, Reads, Kinds, Pair, Content
<1>2. ReadKey(w, t) => read'[w][t] = [read[w][t] EXCEPT !["key"] = live["key"]]
  <2>1. [read EXCEPT ![w][t]["key"] = live["key"]][w][t] = [read[w][t] EXCEPT !["key"] = live["key"]]
    BY <1>1, ReadsApart
  <2> QED
    BY <2>1 DEF ReadKey
<1>3. CASE \E k \in Kinds, v \in Content : read' = [read EXCEPT ![w][t][k] = v]
  <2>1. PICK k \in Kinds, v \in Content : read' = [read EXCEPT ![w][t][k] = v]
    BY <1>3
  <2>2. /\ read'[w][t] = [read[w][t] EXCEPT ![k] = v]
        /\ \A x \in Workers, u \in Tasks : x # w \/ u # t => read'[x][u] = read[x][u]
    BY <1>1, <2>1, ReadsApart
  <2>3. \A x \in Workers \ {w} : read'[x] = read[x]
    <3>1. read' = [read EXCEPT ![w] = [read[w] EXCEPT ![t] = [read[w][t] EXCEPT ![k] = v]]]
      BY <2>1
    <3> QED
      BY <1>1, <3>1 DEF Reads
  <2> QED
    BY <2>2, <2>3, <1>2
<1>4. CASE Forget(w, t) \/ UNCHANGED read
  <2>1. \A x \in Workers \ {w} : read'[x] = read[x]
    BY <1>1, <1>4 DEF Forget, Reads
  <2>2. \A x \in Workers, u \in Tasks : x # w \/ u # t => read'[x][u] = read[x][u]
    BY <1>1, <1>4 DEF Forget, Reads
  <2> QED
    BY <2>1, <2>2, <1>2
<1> QED
  BY <1>1, <1>3, <1>4 DEF ReadCert, ReadKey

\* What a step of one worker must keep for Served.
LEMMA WorkerStep ==
    ASSUME Served, TypeOK', NEW w \in Workers,
           \A x \in Workers \ {w} :
               /\ watcher'[x] = watcher[x] /\ renewal'[x] = renewal[x]
               /\ mem'[x] = mem[x] /\ read'[x] = read[x],
           watcher'[w] = "store" => Valid(read'[w]["watcher"]),
           renewal'[w] = "store" => Valid(read'[w]["renewal"]),
           watcher'[w] \notin {"down", "bootCert"} => Valid(mem'[w])
    PROVE  Served'
  BY DEF Served, Validated, ServedPairMatches, Loaded, Valid

LEMMA WatchServed ==
    ASSUME Served, NEW w \in Workers, Boot(w) \/ Watch(w) \/ WatcherStops(w)
    PROVE  Served'
<1> USE DEF Go, diskVars, issueVars, renewVars, loadVars, envVars
<1>1. TypeOK /\ TypeOK'
  BY WatchTypes DEF Served
<1>2. /\ read \in Reads /\ "watcher" \in Tasks /\ "renewal" \in Tasks /\ "watcher" # "renewal"
      /\ "cert" \in Kinds /\ "key" \in Kinds /\ NoPair \in Pair
      /\ live["cert"] \in Content /\ live["key"] \in Content
  BY <1>1, PairFacts DEF TypeOK, Reads, Tasks, Kinds, Pair, Content
<1>3. /\ \A x \in Workers, u \in Tasks : x # w \/ u # "watcher" => read'[x][u] = read[x][u]
      /\ \A x \in Workers \ {w} : read'[x] = read[x]
  <2>1. ReadCert(w, "watcher") \/ ReadKey(w, "watcher") \/ Forget(w, "watcher") \/ UNCHANGED read
    BY DEF Boot, BootCert, BootKey, Watch, FirstLookCert, FirstLookKey,
         TickCert, TickKey, Reload, ReloadKey, ReloadStores, WatcherStops
  <2> QED
    BY <1>1, <1>2, <2>1, ReadStep
<1>4. \A x \in Workers \ {w} : /\ watcher'[x] = watcher[x] /\ renewal'[x] = renewal[x]
                               /\ mem'[x] = mem[x]
  BY <1>1 DEF TypeOK, TickOver, Store, Boot, BootCert, BootKey, Watch, FirstLookCert,
         FirstLookKey, TickCert, TickKey, Reload, ReloadKey, ReloadStores, WatcherStops
<1>5. watcher'[w] = "store" => Valid(read'[w]["watcher"])
  <2>1. CASE ReloadKey(w)
    <3>1. ReadKey(w, "watcher") => read'[w]["watcher"] = [read[w]["watcher"] EXCEPT !["key"] = live["key"]]
      BY <1>1, <1>2, ReadStep
    <3> QED
      BY <1>1, <2>1, <3>1 DEF TypeOK, ReloadKey, TickOver, KeyMatches
  <2>2. CASE ~ReloadKey(w)
    BY <1>1, <2>2 DEF TypeOK, TickOver, Boot, BootCert, BootKey, Watch, FirstLookCert,
         FirstLookKey, TickCert, TickKey, Reload, ReloadStores, WatcherStops
  <2> QED
    BY <2>1, <2>2
<1>6. renewal'[w] = "store" => Valid(read'[w]["renewal"])
  <2>1. renewal'[w] = "store" => renewal[w] = "store"
    BY <1>1 DEF TypeOK, Boot, BootCert, BootKey, Watch, FirstLookCert, FirstLookKey,
         TickCert, TickKey, Reload, ReloadKey, ReloadStores, WatcherStops
  <2> QED
    BY <2>1, <1>2, <1>3 DEF Served, Validated
<1>7. watcher'[w] \notin {"down", "bootCert"} => Valid(mem'[w])
  <2>1. CASE BootKey(w)
    BY <1>1, <2>1 DEF TypeOK, BootKey, KeyMatches
  <2>2. CASE ReloadStores(w)
    BY <1>1, <2>2 DEF TypeOK, ReloadStores, Store, TickOver, Served, Validated
  <2>3. CASE ~BootKey(w) /\ ~ReloadStores(w)
    BY <1>1, <2>3 DEF TypeOK, TickOver, Boot, BootCert, Watch, FirstLookCert,
         FirstLookKey, TickCert, TickKey, Reload, ReloadKey, WatcherStops, Served,
         ServedPairMatches, Loaded
  <2> QED
    BY <2>1, <2>2, <2>3
<1> QED
  BY <1>1, <1>3, <1>4, <1>5, <1>6, <1>7, WorkerStep

LEMMA RenewServed ==
    ASSUME Served, NEW w \in Workers, Renew(w)
    PROVE  Served'
<1> USE DEF Go, issueVars, watchVars, loadVars, envVars
<1>1. TypeOK /\ TypeOK'
  BY RenewTypes DEF Served
<1>2. /\ read \in Reads /\ "watcher" \in Tasks /\ "renewal" \in Tasks /\ "watcher" # "renewal"
      /\ "cert" \in Kinds /\ "key" \in Kinds /\ NoPair \in Pair
      /\ live["cert"] \in Content /\ live["key"] \in Content
  BY <1>1, PairFacts DEF TypeOK, Reads, Tasks, Kinds, Pair, Content
<1>3. /\ \A x \in Workers, u \in Tasks : x # w \/ u # "renewal" => read'[x][u] = read[x][u]
      /\ \A x \in Workers \ {w} : read'[x] = read[x]
  <2>1. ReadCert(w, "renewal") \/ ReadKey(w, "renewal") \/ Forget(w, "renewal") \/ UNCHANGED read
    BY DEF Renew, Sleep, Order, Install, OpenCert, WriteCert, OpenKey,
         WriteKey, RenameCert, RenameKey, Open, WriteFile, Rename, InstallFails, RenewalReads,
         RenewalKey, RenewalRefused, RenewalStores
  <2> QED
    BY <1>1, <1>2, <2>1, ReadStep
<1>4. /\ UNCHANGED watcher
      /\ \A x \in Workers \ {w} : renewal'[x] = renewal[x] /\ mem'[x] = mem[x]
  <2>1. UNCHANGED watcher
    BY DEF Renew, Order, Install, OpenCert, WriteCert, OpenKey,
         WriteKey, RenameCert, RenameKey, Open, WriteFile, Rename, InstallFails, RenewalReads,
         RenewalKey, RenewalRefused, RenewalStores
  <2>2. \A x \in Workers \ {w} : renewal'[x] = renewal[x]
    BY <1>1 DEF TypeOK, Renew, Sleep, Order, Install, OpenCert, WriteCert, OpenKey,
         WriteKey, RenameCert, RenameKey, Open, WriteFile, Rename, InstallFails, RenewalReads,
         RenewalKey, RenewalRefused, RenewalStores
  <2>3. \A x \in Workers \ {w} : mem'[x] = mem[x]
    BY <1>1 DEF TypeOK, Store, Renew, Order, Install, OpenCert, WriteCert, OpenKey,
         WriteKey, RenameCert, RenameKey, Open, WriteFile, Rename, InstallFails, RenewalReads,
         RenewalKey, RenewalRefused, RenewalStores
  <2> QED
    BY <2>1, <2>2, <2>3
<1>5. watcher'[w] = "store" => Valid(read'[w]["watcher"])
  BY <1>2, <1>3, <1>4 DEF Served, Validated
<1>6. renewal'[w] = "store" => Valid(read'[w]["renewal"])
  <2>1. CASE RenewalKey(w)
    <3>1. read'[w]["renewal"] = [read[w]["renewal"] EXCEPT !["key"] = live["key"]]
      BY <2>1, <1>1, <1>2, ReadStep DEF RenewalKey
    <3> QED
      BY <2>1, <3>1 DEF RenewalKey, KeyMatches
  <2>2. CASE ~RenewalKey(w)
    BY <1>1, <2>2 DEF TypeOK, Renew, Sleep, Order, Install, OpenCert, WriteCert, OpenKey,
         WriteKey, RenameCert, RenameKey, Open, WriteFile, Rename, InstallFails, RenewalReads,
         RenewalRefused, RenewalStores
  <2> QED
    BY <2>1, <2>2
<1>7. watcher'[w] \notin {"down", "bootCert"} => Valid(mem'[w])
  <2>1. CASE RenewalStores(w)
    BY <1>1, <2>1 DEF TypeOK, RenewalStores, Store, Served, Validated
  <2>2. CASE ~RenewalStores(w)
    BY <1>1, <1>4, <2>2 DEF TypeOK, Renew, Order, Install, OpenCert, WriteCert, OpenKey,
         WriteKey, RenameCert, RenameKey, Open, WriteFile, Rename, InstallFails, RenewalReads,
         RenewalKey, RenewalRefused, Served, ServedPairMatches, Loaded
  <2> QED
    BY <2>1, <2>2
<1> QED
  BY <1>1, <1>3, <1>4, <1>5, <1>6, <1>7, WorkerStep

LEMMA OtherServed ==
    ASSUME Served,
           (\E w \in Workers : Stop(w)) \/ OperatorCert \/ OperatorKey \/ Expire
    PROVE  Served'
<1>1. TypeOK'
  BY OtherTypes DEF Served
<1>2. ASSUME NEW w \in Workers, Stop(w) PROVE Served'
  BY <1>1, <1>2, WorkerStep DEF Stop, Served, TypeOK
<1>3. CASE UNCHANGED <<watcher, renewal, read, mem>>
  BY <1>1, <1>3 DEF Served, Validated, ServedPairMatches, Loaded
<1> QED
  BY <1>2, <1>3 DEF OperatorCert, OperatorKey, Expire, renewVars, watchVars, loadVars

LEMMA ServedInvariant == Spec => []Served
<1>1. Init => Served
  BY InitTypes DEF Init, Served, Validated, ServedPairMatches, Loaded
<1>2. Served /\ [Next]_vars => Served'
  <2>1. Served /\ UNCHANGED vars => Served'
    BY NextTypes DEF Served, Validated, ServedPairMatches, Loaded, vars, renewVars,
       watchVars, loadVars
  <2> QED
    BY <2>1, WatchServed, RenewServed, OtherServed DEF Next
<1> QED
  BY <1>1, <1>2, PTL DEF Spec

\* Whatever the files go through, no worker combines a certificate with a key
\* it does not belong to: what a reload stores is what it has validated.
THEOREM PairMatches == Spec => []ServedPairMatches
<1>1. Served => ServedPairMatches
  BY DEF Served
<1> QED
  BY <1>1, ServedInvariant, PTL

-----------------------------------------------------------------------------
(* An install that nobody overlaps leaves its own pair.                     *)

\* A worker that installs undisturbed is the only writer there is.
Alone ==
    \A w \in Installers \ disturbed : Installers = {w} /\ operator = Torn

\* It finds in the temporary files, then in the live ones, what it wrote.
Progress ==
    \A w \in Installers \ disturbed :
        /\ renewal[w] = "writeCert" => handle[w] = "tmp" /\ tmp["cert"] = Torn
        /\ renewal[w] = "writeKey" => handle[w] = "tmp" /\ tmp["key"] = Torn
        /\ renewal[w] \in {"openKey", "writeKey", "renameCert"} => tmp["cert"] = new[w]
        /\ renewal[w] \in {"renameCert", "renameKey"} => tmp["key"] = new[w]
        /\ renewal[w] = "renameKey" => live["cert"] = new[w]

Lone == Alone /\ Progress

\* A step that no undisturbed install takes or notices.
LEMMA QuietStep ==
    ASSUME Lone, Installers' \subseteq Installers,
           \A x \in Installers' \ disturbed' :
               /\ x \in Installers \ disturbed
               /\ renewal'[x] = renewal[x] /\ new'[x] = new[x] /\ handle'[x] = handle[x]
               /\ UNCHANGED <<live, tmp, operator>>
    PROVE  Lone'
<1>1. Alone'
  <2> SUFFICES ASSUME NEW x \in Installers' \ disturbed'
               PROVE  Installers' = {x} /\ operator' = Torn
    BY DEF Alone
  <2> QED
    BY DEF Lone, Alone
<1>2. Progress'
  BY DEF Lone, Progress
<1> QED
  BY <1>1, <1>2 DEF Lone

\* Steps of a worker that is not installing, or gives its install up.
LEMMA IdleLone ==
    ASSUME TypeOK, Lone, NEW w \in Workers,
           \/ Boot(w) \/ Watch(w) \/ WatcherStops(w) \/ Stop(w) \/ InstallFails(w)
           \/ RenewalReads(w) \/ RenewalKey(w) \/ RenewalRefused(w) \/ RenewalStores(w)
    PROVE  Lone'
<1> USE DEF Go, renewVars, diskVars, envVars
<1>1. UNCHANGED <<live, tmp, operator>>
  BY DEF Boot, BootCert, BootKey, Watch, FirstLookCert, FirstLookKey, TickCert, TickKey,
         Reload, ReloadKey, ReloadStores, WatcherStops, Stop, InstallFails, RenewalReads,
         RenewalKey, RenewalRefused, RenewalStores
<1>2. \/ UNCHANGED <<new, handle, disturbed>>
      \/ /\ new' = [new EXCEPT ![w] = 0] /\ handle' = [handle EXCEPT ![w] = "none"]
         /\ disturbed' = disturbed \ {w}
  BY DEF Sleep, Boot, BootCert, BootKey, Watch, FirstLookCert, FirstLookKey, TickCert, TickKey,
         Reload, ReloadKey, ReloadStores, WatcherStops, Stop, InstallFails, RenewalReads,
         RenewalKey, RenewalRefused, RenewalStores
<1>3. \/ UNCHANGED <<renewal, new, handle, disturbed>>
      \/ \E to \in {"down", "sleep", "readKey", "store"} : renewal' = [renewal EXCEPT ![w] = to]
  BY DEF Sleep, Boot, BootCert, BootKey, Watch, FirstLookCert, FirstLookKey, TickCert, TickKey,
         Reload, ReloadKey, ReloadStores, WatcherStops, Stop, InstallFails, RenewalReads,
         RenewalKey, RenewalRefused, RenewalStores
<1>4. CASE UNCHANGED <<renewal, new, handle, disturbed>>
  BY <1>1, <1>4, QuietStep DEF Installers
<1>5. CASE \E to \in {"down", "sleep", "readKey", "store"} : renewal' = [renewal EXCEPT ![w] = to]
  <2>1. Installers' = Installers \ {w}
    BY <1>5 DEF TypeOK, Installers, Installing
  <2>2. \A x \in Workers \ {w} :
           renewal'[x] = renewal[x] /\ new'[x] = new[x] /\ handle'[x] = handle[x]
    BY <1>2, <1>5 DEF TypeOK
  <2>3. Installers \subseteq Workers
    BY DEF Installers
  <2>4. disturbed \ {w} \subseteq disturbed'
    BY <1>2
  <2> QED
    BY <1>1, <2>1, <2>2, <2>3, <2>4, QuietStep
<1> QED
  BY <1>3, <1>4, <1>5

LEMMA OrderLone ==
    ASSUME TypeOK, Lone, NEW w \in Workers, Order(w)
    PROVE  Lone'
<1>1. /\ renewal' = [renewal EXCEPT ![w] = "openCert"] /\ renewal[w] = "sleep"
      /\ Overlap(w) /\ UNCHANGED operator
  BY DEF Order, Go, envVars
<1>2. /\ Installers' = Installers \cup {w} /\ w \notin Installers
      /\ renewal'[w] = "openCert"
  BY <1>1 DEF TypeOK, Installers, Installing
<1>3. CASE Installers \ {w} # {} \/ operator # Torn
  <2>1. Installers' \ disturbed' = {}
    BY <1>1, <1>2, <1>3 DEF Overlap
  <2> QED
    BY <2>1 DEF Lone, Alone, Progress
<1>4. CASE Installers = {} /\ operator = Torn
  <2>1. Installers' = {w} /\ operator' = Torn
    BY <1>1, <1>2, <1>4
  <2> QED
    BY <1>2, <2>1 DEF Lone, Alone, Progress
<1> QED
  BY <1>2, <1>3, <1>4

\* A step of an install, seen by the undisturbed install there is, if any: its own.
LEMMA InstallLone ==
    ASSUME TypeOK, Lone, NEW w \in Workers,
           \/ OpenCert(w) \/ WriteCert(w) \/ OpenKey(w)
           \/ WriteKey(w) \/ RenameCert(w) \/ RenameKey(w)
    PROVE  Lone'
<1> USE DEF Go, envVars
<1>1. /\ w \in Installers /\ Installers' \subseteq Installers
      /\ UNCHANGED <<disturbed, operator, new>>
      /\ \A x \in Workers \ {w} : renewal'[x] = renewal[x]
  BY DEF TypeOK, Installers, Installing, OpenCert, WriteCert, OpenKey, WriteKey, RenameCert,
         RenameKey, Open, WriteFile, Rename
<1>2. CASE w \in disturbed
  <2>1. Installers' \ disturbed' = {}
    BY <1>1, <1>2 DEF Lone, Alone
  <2> QED
    BY <2>1 DEF Lone, Alone, Progress
<1>3. CASE w \notin disturbed
  <2>1. Installers = {w} /\ operator = Torn
    BY <1>1, <1>3 DEF Lone, Alone
  <2>2. Alone'
    BY <1>1, <2>1 DEF Alone
  <2> DEFINE P == /\ renewal[w] = "writeCert" => handle[w] = "tmp" /\ tmp["cert"] = Torn
                  /\ renewal[w] = "writeKey" => handle[w] = "tmp" /\ tmp["key"] = Torn
                  /\ renewal[w] \in {"openKey", "writeKey", "renameCert"} => tmp["cert"] = new[w]
                  /\ renewal[w] \in {"renameCert", "renameKey"} => tmp["key"] = new[w]
                  /\ renewal[w] = "renameKey" => live["cert"] = new[w]
  <2>3. P
    BY <1>1, <1>3 DEF Lone, Progress
  <2>4. "cert" \in Kinds /\ "key" \in Kinds /\ live \in [Kinds -> Content]
    BY DEF TypeOK, Pair, Kinds, Content
  <2>5. P'
    <3>1. CASE OpenCert(w) \/ OpenKey(w)
      BY <2>3, <2>4, <3>1 DEF TypeOK, OpenCert, OpenKey, Open
    <3>2. CASE WriteCert(w)
      BY <2>3, <2>4, <3>2 DEF TypeOK, WriteCert, WriteFile, Written
    <3>3. CASE WriteKey(w)
      BY <2>3, <2>4, <3>3 DEF TypeOK, WriteKey, WriteFile, Written
    <3>4. CASE RenameCert(w) \/ RenameKey(w)
      BY <2>3, <2>4, <3>4 DEF TypeOK, RenameCert, RenameKey, Rename
    <3> QED
      BY <3>1, <3>2, <3>3, <3>4
  <2>6. Progress'
    BY <1>1, <2>1, <2>5 DEF Progress
  <2> QED
    BY <2>2, <2>6 DEF Lone
<1> QED
  BY <1>2, <1>3

\* The operator's two steps and the passing of time.
LEMMA EnvironmentLone ==
    ASSUME Lone, OperatorCert \/ OperatorKey \/ Expire
    PROVE  Lone'
<1> USE DEF renewVars, diskVars, envVars
<1>1. CASE OperatorCert
  <2>1. Installers' \ disturbed' = {}
    BY <1>1 DEF OperatorCert, Installers
  <2> QED
    BY <2>1 DEF Lone, Alone, Progress
<1>2. CASE OperatorKey
  <2>1. Installers \ disturbed = {}
    BY <1>2 DEF OperatorKey, Lone, Alone
  <2>2. Installers' \ disturbed' = {}
    BY <1>2, <2>1 DEF OperatorKey, Installers
  <2> QED
    BY <2>2 DEF Lone, Alone, Progress
<1>3. CASE Expire
  BY <1>3, QuietStep DEF Expire, Installers
<1> QED
  BY <1>1, <1>2, <1>3

LEMMA LoneInvariant == Spec => [](TypeOK /\ Lone)
<1>1. Init => TypeOK /\ Lone
  <2>1. Init => Installers = {}
    BY DEF Init, Installers, Installing
  <2> QED
    BY <2>1, InitTypes DEF Lone, Alone, Progress
<1>2. TypeOK /\ Lone /\ [Next]_vars => (TypeOK /\ Lone)'
  <2> SUFFICES ASSUME TypeOK, Lone, [Next]_vars PROVE Lone'
    BY NextTypes
  <2>1. CASE UNCHANGED vars
    BY <2>1, QuietStep DEF vars, diskVars, renewVars, envVars, Installers
  <2> QED
    BY <2>1, IdleLone, OrderLone, InstallLone, EnvironmentLone DEF Next, Renew, Install
<1> QED
  BY <1>1, <1>2, PTL DEF Spec

\* An install that no renewal of another worker and no operator overlaps ends
\* with its own certificate and key on disk, over whatever an install cut short
\* has left in the temporary files.
THEOREM LoneInstall == Spec => LoneInstallMatches
<1>1. TypeOK /\ Lone /\ [Next]_vars =>
        [\A w \in Workers : RenameKey(w) /\ w \notin disturbed => live' = Both(new[w])]_vars
  <2> SUFFICES ASSUME TypeOK, Lone, NEW w \in Workers, RenameKey(w), w \notin disturbed
               PROVE  live' = Both(new[w])
    OBVIOUS
  <2>1. renewal[w] = "renameKey" /\ live' = [live EXCEPT !["key"] = tmp["key"]]
    BY DEF RenameKey, Rename, Go
  <2>2. tmp["key"] = new[w] /\ live["cert"] = new[w]
    BY <2>1 DEF Lone, Progress, Installers, Installing
  <2> QED
    BY <2>1, <2>2 DEF TypeOK, Pair, Kinds, Both
<1> QED
  BY <1>1, LoneInvariant, PTL DEF Spec, LoneInstallMatches
=============================================================================

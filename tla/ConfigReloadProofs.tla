------------------------- MODULE ConfigReloadProofs -------------------------
(***************************************************************************)
(* Proofs about ConfigReload, for every set of files and versions.         *)
(***************************************************************************)
EXTENDS ConfigReload, TLAPS

\* What a list reload builds from a config whose database opens.
LEMMA ipOfType ==
    ASSUME NEW c \in YamlContent, NEW d, buildGeoStateOK(c, d)
    PROVE  ipOf(c, d) \in [ver : Version, db : DB \cup {noDB}]
BY DEF ipOf, buildGeoStateOK, YamlContent

\* Every component always serves contents that its own loader accepted.
THEOREM ReloadTypeCorrect == Spec => []TypeOK
<1>1. Init => TypeOK
  <2> SUFFICES ASSUME Init PROVE TypeOK
    OBVIOUS
  <2>1. yaml \in YamlContent
    BY ReloadAssumption DEF Init
  <2>2. ip \in [ver : Version, db : DB \cup {noDB}]
    BY <2>1, ipOfType DEF Init, Bootable
  <2>3. waf \in Rules \cup {Missing} /\ rate \in Version /\ wafEngine \in BOOLEAN
    BY <2>1 DEF Init, Bootable, LoadRuleSetOK, YamlContent
  <2> QED
    BY <2>2, <2>3 DEF Init, TypeOK, comps
<1>2. TypeOK /\ [Next]_vars => TypeOK'
  <2> SUFFICES ASSUME TypeOK, [Next]_vars PROVE TypeOK'
    OBVIOUS
  <2> USE DEF TypeOK, files, comps, vars
  <2>0. yaml \in YamlContent /\ newCfg \in YamlContent
    BY ReloadAssumption
  <2>1. CASE EditFiles
    <3>1. yaml' \in Yaml /\ rulesFile' \in RulesContent /\ mmdb' \in DBContent
      BY <2>1 DEF EditFiles
    <3>2. UNCHANGED <<wafEngine, waf, ip, rate, pc, newCfg, chan, canceled, failed, before>>
      BY <2>1 DEF EditFiles
    <3>3. hup' \in BOOLEAN /\ steady' \in BOOLEAN
      BY <2>1 DEF EditFiles
    <3> QED
      BY <3>1, <3>2, <3>3
  <2>2. CASE Sighup
    BY <2>2 DEF Sighup
  <2>3. CASE SighupKills
    BY <2>3 DEF SighupKills
  <2>4. CASE Sigterm
    BY <2>4 DEF Sigterm
  <2>5. CASE Notify
    BY <2>5 DEF Notify
  <2>6. CASE Receive
    BY <2>6 DEF Receive
  <2>7. CASE Exit
    BY <2>7 DEF Exit
  <2>8. CASE Load
    BY <2>8 DEF Load, fails
  <2>9. CASE ReloadWAF
    <3>1. waf' \in Rules \cup {Missing}
      BY <2>9 DEF ReloadWAF, LoadRuleSetOK
    <3> QED
      BY <2>9, <3>1 DEF ReloadWAF, fails
  <2>10. CASE ReloadIP
    <3>1. ip' \in [ver : Version, db : DB \cup {noDB}]
      BY <2>10, <2>0, ipOfType DEF ReloadIP
    <3> QED
      BY <2>10, <3>1 DEF ReloadIP, fails
  <2>11. CASE ReloadRate
    BY <2>11, <2>0 DEF ReloadRate, YamlContent
  <2>12. CASE UNCHANGED vars
    BY <2>12
  <2> QED
    BY <2>1, <2>2, <2>3, <2>4, <2>5, <2>6, <2>7, <2>8, <2>9, <2>10, <2>11, <2>12
       DEF Next, Watch, reloadOnce
<1> QED
  BY <1>1, <1>2, PTL DEF Spec

-----------------------------------------------------------------------------
(***************************************************************************)
(* IdleMeansCurrent says nothing of the steps between a SIGHUP and the     *)
(* moment the loop is idle again, so it is not inductive.  SighupOwed says *)
(* where the obligation of a SIGHUP is: still in the channel, or with the  *)
(* loop, which then reads the current files and has already applied to the *)
(* components it has passed what those files say, or fulfilled.            *)
(***************************************************************************)
applied(c, r, d, w, i) ==
    /\ newCfg = c
    /\ w /\ wafEngine => waf = r
    /\ i => ip = ipOf(c, d)

SighupOwed ==
    hup /\ Reloadable(yaml, rulesFile, mmdb) /\ ~chan =>
        /\ pc # "starting"
        /\ pc = "waf"  => applied(yaml, rulesFile, mmdb, FALSE, FALSE)
        /\ pc = "ip"   => applied(yaml, rulesFile, mmdb, TRUE, FALSE)
        /\ pc = "rate" => applied(yaml, rulesFile, mmdb, TRUE, TRUE)
        /\ pc \in {"wait", "exit"} => UpToDate

\* The obligation of a SIGHUP is never dropped, although signals are.
THEOREM SighupNeverLost == Spec => []IdleMeansCurrent
<1>1. Init => SighupOwed
  BY DEF Init, SighupOwed
<1>2. TypeOK /\ SighupOwed /\ [Next]_vars => SighupOwed'
  <2> SUFFICES ASSUME TypeOK, SighupOwed, [Next]_vars PROVE SighupOwed'
    OBVIOUS
  <2> USE DEF TypeOK, SighupOwed, files, comps, vars, applied, UpToDate, Reloadable
  <2>1. CASE EditFiles
    BY <2>1 DEF EditFiles
  <2>2. CASE Sighup
    BY <2>2 DEF Sighup
  <2>3. CASE SighupKills
    BY <2>3 DEF SighupKills
  <2>4. CASE Sigterm
    BY <2>4 DEF Sigterm
  <2>5. CASE Notify
    BY <2>5 DEF Notify
  <2>6. CASE Receive
    BY <2>6 DEF Receive
  <2>7. CASE Exit
    BY <2>7 DEF Exit
  <2>8. CASE Load
    BY <2>8 DEF Load, fails
  <2>9. CASE ReloadWAF
    BY <2>9 DEF ReloadWAF, fails
  <2>10. CASE ReloadIP
    BY <2>10 DEF ReloadIP, fails
  <2>11. CASE ReloadRate
    BY <2>11 DEF ReloadRate
  <2>12. CASE UNCHANGED vars
    BY <2>12
  <2> QED
    BY <2>1, <2>2, <2>3, <2>4, <2>5, <2>6, <2>7, <2>8, <2>9, <2>10, <2>11, <2>12
       DEF Next, Watch, reloadOnce
<1>3. SighupOwed => IdleMeansCurrent
  BY DEF SighupOwed, IdleMeansCurrent
<1> QED
  BY <1>1, <1>2, <1>3, ReloadTypeCorrect, PTL DEF Spec

-----------------------------------------------------------------------------
(***************************************************************************)
(* The condition under which reloadOnce's comment is right.  While the     *)
(* files are as the reload found them, the loaded config is the file's    *)
(* from Load on, so a database that the config needs exists; if it can be  *)
(* opened, nothing fails after ReloadWAF, and before it nothing changed.   *)
(***************************************************************************)
ReloadInStep ==
    /\ pc \in {"load", "waf"} => comps = before
    /\ pc \in {"waf", "ip", "rate"} /\ steady =>
          newCfg = yaml /\ Validate(yaml, rulesFile, mmdb)
    /\ pc \in {"load", "waf", "ip", "rate"} => ~failed
    /\ failed /\ steady /\ mmdb # Broken => comps = before

\* A reload that fails, although the files hold still and the database can be
\* opened if it exists, leaves every component as it was (Reload_partial shows
\* that the condition on the database is needed).
THEOREM FailedReloadIsClean == Spec => []FailedReloadKeepsStateIfOpenable
<1>1. Init => ReloadInStep
  BY DEF Init, ReloadInStep
<1>2. TypeOK /\ ReloadInStep /\ [Next]_vars => ReloadInStep'
  <2> SUFFICES ASSUME TypeOK, ReloadInStep, [Next]_vars PROVE ReloadInStep'
    OBVIOUS
  <2> USE DEF TypeOK, ReloadInStep, files, comps, vars
  <2>1. CASE EditFiles
    BY <2>1 DEF EditFiles
  <2>2. CASE Sighup
    BY <2>2 DEF Sighup
  <2>3. CASE SighupKills
    BY <2>3 DEF SighupKills
  <2>4. CASE Sigterm
    BY <2>4 DEF Sigterm
  <2>5. CASE Notify
    BY <2>5 DEF Notify
  <2>6. CASE Receive
    BY <2>6 DEF Receive
  <2>7. CASE Exit
    BY <2>7 DEF Exit
  <2>8. CASE Load
    BY <2>8 DEF Load, fails
  <2>9. CASE ReloadWAF
    BY <2>9 DEF ReloadWAF, fails
  <2>10. CASE ReloadIP
    <3>1. steady /\ mmdb # Broken => buildGeoStateOK(newCfg, mmdb)
      BY <2>10, ReloadAssumption DEF ReloadIP, buildGeoStateOK, Validate, DBContent
    <3> QED
      BY <2>10, <3>1 DEF ReloadIP, fails
  <2>11. CASE ReloadRate
    BY <2>11 DEF ReloadRate
  <2>12. CASE UNCHANGED vars
    BY <2>12
  <2> QED
    BY <2>1, <2>2, <2>3, <2>4, <2>5, <2>6, <2>7, <2>8, <2>9, <2>10, <2>11, <2>12
       DEF Next, Watch, reloadOnce
<1>3. ReloadInStep => FailedReloadKeepsStateIfOpenable
  BY DEF ReloadInStep, FailedReloadKeepsStateIfOpenable
<1> QED
  BY <1>1, <1>2, <1>3, ReloadTypeCorrect, PTL DEF Spec
=============================================================================

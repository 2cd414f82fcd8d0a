---------------------------- MODULE ConfigReload ----------------------------
(***************************************************************************)
(* The SIGHUP reload of cmd/go-firewall: watchForReload's signal channel   *)
(* and loop, reloadOnce's load-then-apply sequence, and what config.Load   *)
(* checks before a live component is touched.                              *)
(*                                                                         *)
(* The operator rewrites three files independently: the YAML config, the   *)
(* rules file and the geo database it names.  Each component is reduced to *)
(* the file contents it was last built from; IPFilter has the detail of    *)
(* how a list reload is applied.                                           *)
(***************************************************************************)
CONSTANTS
    Yaml,         \* contents of the config file
    Version,      \* tells apart the IP lists and rate limits of two configs
    Rules,        \* contents of a rules file that LoadRuleSet accepts
    DB,           \* contents of a database that geoip.Open accepts
    Missing, Broken,
    Unreadable    \* which of Missing, Broken the rules file and database may be

\* ok: it parses and passes the checks of Validate that look at the YAML alone.
\* waf: waf.enabled; rules: waf.rules_file is set; geo: geo.enabled with a
\* country list, and db_path set.
YamlContent == [ok : BOOLEAN, ver : Version, waf : BOOLEAN, rules : BOOLEAN, geo : BOOLEAN]

ASSUME ReloadAssumption ==
    /\ Yaml \subseteq YamlContent
    /\ Missing \notin Rules \cup DB /\ Broken \notin Rules \cup DB
    /\ Unreadable \subseteq {Missing, Broken}

VARIABLES
    yaml, rulesFile, mmdb,  \* the files
    wafEngine,              \* whether run built a WAF engine
    waf, ip, rate,          \* what each component serves: file contents
    pc,                     \* watchForReload
    newCfg,                 \* the loaded config of the reload under way
    chan,                   \* whether the sighup channel (capacity 1) holds a signal
    canceled,               \* ctx, by SIGINT or SIGTERM
    hup,                    \* history: SIGHUP was sent since the files last changed
    failed, before,         \* history: how the last reload ended, and what it found
    steady                  \* history: the files did not change since it began

files == <<yaml, rulesFile, mmdb>>
comps == <<waf, ip, rate>>
vars  == <<files, wafEngine, comps, pc, newCfg, chan, canceled, hup, failed, before, steady>>

noDB == Missing

RulesContent == Rules \cup Unreadable
DBContent    == DB \cup Unreadable

-----------------------------------------------------------------------------
\* Mutant: without the check of the database's existence.
ValidateNoStat(y, r, d) ==
    /\ y.ok
    /\ y.waf => y.rules /\ r # Missing

\* Validate: a file that the config needs is only checked to exist.
Validate(y, r, d) ==
    /\ y.ok
    /\ y.geo => d # Missing
    /\ y.waf => y.rules /\ r # Missing

\* LoadRuleSet and buildGeoState, on what the files hold when they are called.
LoadRuleSetOK(y, r)   == y.rules /\ r \in Rules
buildGeoStateOK(y, d) == y.geo => d \in DB

ipOf(y, d) == [ver |-> y.ver, db |-> IF y.geo THEN d ELSE noDB]

\* run would start with these files.
Bootable(y, r, d) ==
    /\ Validate(y, r, d)
    /\ buildGeoStateOK(y, d)
    /\ y.waf => LoadRuleSetOK(y, r)

\* reloadOnce would succeed with these files.
Reloadable(y, r, d) ==
    /\ Validate(y, r, d)
    /\ buildGeoStateOK(y, d)
    /\ wafEngine => LoadRuleSetOK(y, r)

\* run, up to "go watchForReload": every component is built from the files.
Init ==
    /\ yaml \in Yaml /\ rulesFile \in RulesContent /\ mmdb \in DBContent
    /\ Bootable(yaml, rulesFile, mmdb)
    /\ wafEngine = yaml.waf
    /\ waf = IF yaml.waf THEN rulesFile ELSE Missing
    /\ ip = ipOf(yaml, mmdb) /\ rate = yaml.ver
    /\ pc = "starting"
    /\ newCfg = yaml
    /\ chan = FALSE /\ canceled = FALSE
    /\ hup = FALSE /\ failed = FALSE /\ before = comps /\ steady = TRUE

(***************************************************************************)
(* The operator and the kernel.                                            *)
(***************************************************************************)
EditFiles ==
    /\ \/ yaml' \in Yaml \ {yaml} /\ UNCHANGED <<rulesFile, mmdb>>
       \/ rulesFile' \in RulesContent \ {rulesFile} /\ UNCHANGED <<yaml, mmdb>>
       \/ mmdb' \in DBContent \ {mmdb} /\ UNCHANGED <<yaml, rulesFile>>
    /\ hup' = FALSE /\ steady' = FALSE
    /\ UNCHANGED <<wafEngine, comps, pc, newCfg, chan, canceled, failed, before>>

\* Mutant: an unbuffered channel drops the signal unless the loop is receiving.
SighupUnbuffered ==
    /\ pc \in {"wait", "load", "waf", "ip", "rate"}
    /\ chan' = (chan \/ pc = "wait")
    /\ hup' = TRUE
    /\ UNCHANGED <<files, wafEngine, comps, pc, newCfg, canceled, failed, before, steady>>

\* os/signal's delivery does not block: a full channel drops the signal.
Sighup ==
    /\ pc \in {"wait", "load", "waf", "ip", "rate"}
    /\ chan' = TRUE
    /\ hup' = TRUE
    /\ UNCHANGED <<files, wafEngine, comps, pc, newCfg, canceled, failed, before, steady>>

\* Before signal.Notify, and after signal.Stop, SIGHUP has its default effect.
SighupKills ==
    /\ pc \in {"starting", "exit"}
    /\ pc' = "killed"
    /\ UNCHANGED <<files, wafEngine, comps, newCfg, chan, canceled, hup, failed, before, steady>>

Sigterm ==
    /\ ~canceled /\ pc # "killed"
    /\ canceled' = TRUE
    /\ UNCHANGED <<files, wafEngine, comps, pc, newCfg, chan, hup, failed, before, steady>>

(***************************************************************************)
(* watchForReload.                                                         *)
(***************************************************************************)
Notify ==
    /\ pc = "starting"
    /\ pc' = "wait"
    /\ UNCHANGED <<files, wafEngine, comps, newCfg, chan, canceled, hup, failed, before, steady>>

Receive ==
    /\ pc = "wait" /\ chan
    /\ pc' = "load" /\ chan' = FALSE
    /\ failed' = FALSE /\ before' = comps /\ steady' = TRUE
    /\ UNCHANGED <<files, wafEngine, comps, newCfg, canceled, hup>>

Exit ==
    /\ pc = "wait" /\ canceled
    /\ pc' = "exit"
    /\ UNCHANGED <<files, wafEngine, comps, newCfg, chan, canceled, hup, failed, before, steady>>

(***************************************************************************)
(* reloadOnce.  An error goes back to the loop: "config reload failed,     *)
(* keeping previous state".                                                *)
(***************************************************************************)
fails == pc' = "wait" /\ failed' = TRUE

Load ==
    /\ pc = "load"
    /\ IF Validate(yaml, rulesFile, mmdb)
       THEN newCfg' = yaml /\ pc' = "waf" /\ UNCHANGED failed
       ELSE fails /\ UNCHANGED newCfg
    /\ UNCHANGED <<files, wafEngine, comps, chan, canceled, hup, before, steady>>

ReloadWAF ==
    /\ pc = "waf"
    /\ IF wafEngine /\ ~LoadRuleSetOK(newCfg, rulesFile)
       THEN fails /\ UNCHANGED waf
       ELSE /\ pc' = "ip" /\ UNCHANGED failed
            /\ waf' = IF wafEngine THEN rulesFile ELSE waf
    /\ UNCHANGED <<files, wafEngine, ip, rate, newCfg, chan, canceled, hup, before, steady>>

ReloadIP ==
    /\ pc = "ip"
    /\ IF buildGeoStateOK(newCfg, mmdb)
       THEN ip' = ipOf(newCfg, mmdb) /\ pc' = "rate" /\ UNCHANGED failed
       ELSE fails /\ UNCHANGED ip
    /\ UNCHANGED <<files, wafEngine, waf, rate, newCfg, chan, canceled, hup, before, steady>>

ReloadRate ==
    /\ pc = "rate"
    /\ rate' = newCfg.ver
    /\ pc' = "wait"
    /\ UNCHANGED <<files, wafEngine, waf, ip, newCfg, chan, canceled, hup, failed, before, steady>>

reloadOnce == Load \/ ReloadWAF \/ ReloadIP \/ ReloadRate

Watch == Notify \/ Receive \/ Exit \/ reloadOnce

Next == EditFiles \/ Sighup \/ SighupKills \/ Sigterm \/ Watch

Spec == Init /\ [][Next]_vars

\* The goroutine is scheduled and no call in reloadOnce blocks for ever.
FairSpec == Spec /\ WF_vars(Notify \/ Receive \/ reloadOnce)
-----------------------------------------------------------------------------
\* Type invariant.
TypeOK ==
    /\ yaml \in Yaml /\ rulesFile \in RulesContent /\ mmdb \in DBContent
    /\ wafEngine \in BOOLEAN
    /\ waf \in Rules \cup {Missing}
    /\ ip \in [ver : Version, db : DB \cup {noDB}]
    /\ rate \in Version
    /\ pc \in {"starting", "wait", "load", "waf", "ip", "rate", "exit", "killed"}
    /\ newCfg \in Yaml
    /\ chan \in BOOLEAN /\ canceled \in BOOLEAN /\ hup \in BOOLEAN /\ failed \in BOOLEAN
    /\ steady \in BOOLEAN
    /\ before \in (Rules \cup {Missing}) \X [ver : Version, db : DB \cup {noDB}] \X Version

UpToDate ==
    /\ wafEngine => waf = rulesFile
    /\ ip = ipOf(yaml, mmdb)
    /\ rate = yaml.ver

\* No SIGHUP is lost, although the channel holds one and drops the others: when
\* the loop waits with nothing pending, and a SIGHUP followed the last change of
\* files that reloadOnce can load, every component serves those files.
IdleMeansCurrent ==
    pc = "wait" /\ ~chan /\ hup /\ Reloadable(yaml, rulesFile, mmdb) => UpToDate

\* Once the files stop changing and a SIGHUP was sent, they are served in the
\* end (unless the process is told to exit).
SighupApplied ==
    <>[](hup /\ Reloadable(yaml, rulesFile, mmdb) /\ pc \notin {"exit", "killed"})
        => <>[]UpToDate

\* "A failed reload logs and leaves every component serving its previous state"
\* (main.go:171), "nothing is partially applied" (README.md:81): at least when
\* the files did not change under the reload and the database can be opened if
\* it exists.  What Validate checks is then all that can fail after the first
\* component was swapped.
FailedReloadKeepsStateIfOpenable ==
    mmdb # Broken /\ pc = "wait" /\ failed /\ steady => comps = before
=============================================================================

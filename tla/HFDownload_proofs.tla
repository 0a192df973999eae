-------------------------- MODULE HFDownload_proofs --------------------------
(* For every set of files and commits, every list of sources and every      *)
(* bound: what a record promises, what the engine is bound to, and what a   *)
(* pass that came through leaves for the next boot.                         *)
EXTENDS HFDownload, FiniteSetTheorems, TLAPS

\* What the hf process has not got still to do is there, and when it is over
\* everything its source wants is.
DownloadTells ==
  /\ pc = "run" /\ hf.c # 0 =>
       hf.c = ref /\ \A f \in Wants[pass.at] : f \in hf.todo \/ Linked(ref, f)
  /\ pc = "exited" =>
       ref # 0 /\ \A f \in Wants[pass.at] : Linked(ref, f)

Undamaged == count.damage = MaxDamage

\* As long as the volume loses nothing, what is recorded is there in full.
RecordsHold ==
  /\ count.damage <= MaxDamage
  /\ Undamaged =>
       /\ \A b \in Blobs : store[b] \in {"gone", "ok"}
       /\ \A c \in Commits, s \in Sources : \A f \in DOMAIN rec[c][s] :
            Linked(c, f) /\ rec[c][s][f] = "full"

\* Each source the pass has behind it has a record under its commit, and the
\* last one's is the commit the ref names.
PassTells ==
  /\ \A s \in Sources : s < pass.at =>
       pass.got[s] \in Commits /\ DOMAIN rec[pass.got[s]][s] # {}
  /\ pc \in {"finish", "idle"} /\ pass.at > Len(Wants) => pass.got[Len(Wants)] = ref

CacheInv ==
  /\ TypeOK /\ DownloadTells /\ RecordIsComplete /\ RecordsHold /\ PassTells
  /\ SentinelIsWhole

USE DEF cache, world

\* What the assumptions say of sources, commits and blobs.
LEMMA ConstantFacts ==
  /\ Len(Wants) \in Nat \ {0} /\ Sources = 1 .. Len(Wants)
  /\ \A s \in Sources : Wants[s] # {} /\ Wants[s] \subseteq Files
  /\ Commits \subseteq Nat /\ 0 \notin Commits /\ 1 \in Commits
  /\ \A c \in Commits, f \in Files : Blob[c][f] \in Blobs
<1> USE SourcesAssumption DEF SourcesAssumption
<1>1. Len(Wants) \in Nat \ {0} /\ Sources = 1 .. Len(Wants)
  BY DEF Sources
<1>2. \A s \in Sources : Wants[s] # {} /\ Wants[s] \subseteq Files
  BY DEF Sources
<1>3. Cardinality(Commits) \in Nat
  BY FS_CardinalityType
<1>4. Commits \subseteq Nat /\ 0 \notin Commits /\ 1 \in Commits
  BY <1>3
<1>5. \A c \in Commits, f \in Files : Blob[c][f] \in Blobs
  BY DEF Blobs
<1> QED BY <1>1, <1>2, <1>4, <1>5

\* An empty record lists nothing.
LEMMA NoRecType == NoRec \in Records /\ DOMAIN NoRec = {}
<1>1. NoRec \in [{} -> {"full", "short"}] /\ DOMAIN NoRec = {}
  BY DEF NoRec
<1> QED BY <1>1 DEF Records

\* scanHFSnapshot lists exactly what a source wants when all of it is linked,
\* and writes down the lengths it found.
LEMMA ScanIs ==
  ASSUME TypeOK, NEW c \in Commits, NEW s \in Sources,
         \A f \in Wants[s] : Linked(c, f)
  PROVE  /\ ScanHFSnapshot(c, s) \in Records
         /\ DOMAIN ScanHFSnapshot(c, s) = Wants[s]
         /\ \A f \in Wants[s] : ScanHFSnapshot(c, s)[f] = Length(Blob[c][f])
<1> DEFINE all == {f \in Files : Linked(c, f)}
           mine == {f \in all : MatchPatterns(f, s)}
<1>1. mine = Wants[s]
  BY ConstantFacts DEF MatchPatterns
<1>2. mine # {}
  BY <1>1, ConstantFacts
<1>3. ScanHFSnapshot(c, s) = [f \in Wants[s] |-> Length(Blob[c][f])]
  BY <1>1, <1>2 DEF ScanHFSnapshot
<1>4. ScanHFSnapshot(c, s) \in [Wants[s] -> {"full", "short"}]
  BY <1>3 DEF Length
<1>5. Wants[s] \in SUBSET Files
  BY ConstantFacts
<1> QED BY <1>3, <1>4, <1>5 DEF Records

\* A source that is through is noted with its commit, and the next one is up.
LEMMA ResultIs ==
  ASSUME pass \in Passes, pass.at \in Sources, NEW c \in Commits
  PROVE  /\ Result(c) \in Passes
         /\ Result(c).at = pass.at + 1
         /\ Result(c).got = [pass.got EXCEPT ![pass.at] = c]
<1>0. pass.got \in [Sources -> Commits \cup {0}]
  BY DEF Passes
<1>1. pass.at + 1 \in 1 .. Len(Wants) + 1
  <2>1. Len(Wants) \in Nat /\ Sources = 1 .. Len(Wants)
    BY ConstantFacts
  <2> QED BY <2>1
<1>2. [pass.got EXCEPT ![pass.at] = c] \in [Sources -> Commits \cup {0}]
  BY <1>0
<1>3. Result(c) = [[pass EXCEPT !.got = [pass.got EXCEPT ![pass.at] = c]]
                     EXCEPT !.at = pass.at + 1]
  BY DEF Result, Passes
<1> QED BY <1>1, <1>2, <1>3 DEF Passes

\* So it is when the source's drift was asked about.
LEMMA ReusePass ==
  ASSUME TypeOK, NEW v, Reuse(v)
  PROVE  /\ pass' \in Passes /\ pass'.at = pass.at + 1
         /\ pass'.got = [pass.got EXCEPT ![pass.at] = ref]
         /\ ref \in Commits /\ pass.at \in Sources
         /\ Reusable(pass.at, pass.level)
         /\ note' \in {"", "found", "unknown"}
<1>1. pass \in Passes /\ pass.at \in Sources /\ ref \in Commits
      /\ Reusable(pass.at, pass.level)
  BY DEF Reuse, Reusable, TypeOK, CacheTypeOK, PassTypeOK
<1>2. /\ Result(ref) \in Passes /\ Result(ref).at = pass.at + 1
      /\ Result(ref).got = [pass.got EXCEPT ![pass.at] = ref]
  BY <1>1, ResultIs
<1>3. CASE pass.level = "remote"
  <2>1. v \in {"unknown", "found", "none"}
    BY <1>3 DEF Reuse, Verdicts
  <2>2. Text(v) \in {"", "found", "unknown"}
    BY <2>1 DEF Text
  <2>3. note' \in {"", "found", "unknown"}
    BY <1>3, <2>2 DEF Reuse, SetDriftNote, TypeOK, CacheTypeOK, PassTypeOK
  <2>4. pass' = [Result(ref) EXCEPT !.said = Text(v),
                   !.drifted = IF v = "found" THEN @ \cup {pass.at} ELSE @]
    BY <1>3 DEF Reuse
  <2> HIDE DEF Result, Text
  <2>5. pass' \in Passes /\ pass'.at = pass.at + 1
        /\ pass'.got = [pass.got EXCEPT ![pass.at] = ref]
    BY <1>1, <1>2, <2>2, <2>4 DEF Passes
  <2> QED BY <1>1, <2>3, <2>5
<1>4. CASE pass.level # "remote"
  BY <1>1, <1>2, <1>4 DEF Reuse, TypeOK, CacheTypeOK, PassTypeOK
<1> QED BY <1>3, <1>4

\* Where the lifecycle goes after a source has been noted.
LEMMA MoreType ==
  ASSUME NEW p \in Passes, p.at \in 2 .. Len(Wants) + 1, More(p)
  PROVE  /\ pc' \in {"source", "finish"}
         /\ pc' = "source" => p.at \in Sources
         /\ pc' = "finish" => p.at = Len(Wants) + 1
<1>1. Len(Wants) \in Nat /\ Sources = 1 .. Len(Wants)
  BY ConstantFacts
<1> QED BY <1>1 DEF More

Counts == [passes : Nat, failures : Nat, hangs : Nat, damage : Nat, crashes : Nat]

\* A bound is spent one by one, and no step spends on damage but Damage.
LEMMA SpendIs ==
  ASSUME count \in Counts,
         NEW what \in {"passes", "failures", "hangs", "damage", "crashes"},
         count[what] > 0, Spend(what)
  PROVE  /\ count' \in Counts
         /\ what # "damage" => count'.damage = count.damage
         /\ what = "damage" => count'.damage = count.damage - 1
<1>1. count[what] - 1 \in Nat
  BY DEF Counts
<1> QED BY <1>1 DEF Spend, Counts

\* A pass that has not begun has nothing behind it.
LEMMA NoPassType ==
  /\ NoPass \in Passes /\ NoPass.at = 1
  /\ \A force \in BOOLEAN, level \in Levels :
       LET p == [NoPass EXCEPT !.force = force, !.level = level]
       IN  p \in Passes /\ p.at = 1
<1>1. 1 \in 1 .. Len(Wants) + 1
  <2>1. Len(Wants) \in Nat
    BY ConstantFacts
  <2> QED BY <2>1
<1>2. [s \in Sources |-> 0] \in [Sources -> Commits \cup {0}]
  OBVIOUS
<1>3. NoPass \in Passes /\ NoPass.at = 1
  BY <1>1, <1>2 DEF NoPass, Passes, Levels
<1> HIDE DEF NoPass
<1> QED BY <1>3 DEF Passes

\* Every step keeps the types.
LEMMA NextTypeOK == TypeOK /\ DownloadTells /\ [Next]_vars => TypeOK'
<1> SUFFICES ASSUME TypeOK, DownloadTells, [Next]_vars PROVE TypeOK'
  OBVIOUS
<1>0. NoProcess \in [c : Commits \cup {0}, todo : SUBSET Files, hung : BOOLEAN]
  BY DEF NoProcess
<1>c. count \in Counts
  BY DEF TypeOK, CacheTypeOK, PassTypeOK, Counts
<1>1. ASSUME NEW force \in BOOLEAN, NEW level \in Levels, Start(force, level)
      PROVE  TypeOK'
  <2>1. count' \in Counts
    BY <1>1, <1>c, SpendIs DEF Start
  <2>2. pass' \in Passes /\ pass'.at \in Sources
    <3>1. 1 \in Sources
      BY ConstantFacts
    <3> QED BY <1>1, <3>1, NoPassType DEF Start
  <2> QED BY <1>1, <2>1, <2>2, ZenonT(60) DEF Start, TypeOK, CacheTypeOK, PassTypeOK, Counts
<1>2. ASSUME NEW v, Reuse(v) PROVE TypeOK'
  <2>1. /\ pass' \in Passes /\ pass'.at \in 2 .. Len(Wants) + 1
        /\ note' \in {"", "found", "unknown"} /\ More(pass')
        /\ UNCHANGED <<world, cache, sentinel, phase, hf, count>>
    <3>1. pass.at \in Sources /\ pass'.at = pass.at + 1 /\ pass' \in Passes
          /\ note' \in {"", "found", "unknown"}
      BY <1>2, ReusePass
    <3>2. Len(Wants) \in Nat /\ Sources = 1 .. Len(Wants)
      BY ConstantFacts
    <3>3. pass'.at \in 2 .. Len(Wants) + 1
      <4>1. pass.at \in 1 .. Len(Wants) /\ pass'.at = pass.at + 1
        BY <3>1, <3>2
      <4> QED BY <3>2, <4>1
    <3>4. More(pass') /\ UNCHANGED <<world, cache, sentinel, phase, hf, count>>
      BY <1>2 DEF Reuse
    <3> QED BY <3>1, <3>3, <3>4
  <2>2. /\ pc' \in {"source", "finish"}
        /\ pc' = "source" => pass'.at \in Sources
        /\ pc' = "finish" => pass'.at = Len(Wants) + 1
    BY <2>1, MoreType
  <2> QED BY <2>1, <2>2, ZenonT(60) DEF TypeOK, CacheTypeOK, PassTypeOK
<1>3. CASE Spawn
  <2>1. pass' \in Passes /\ pass'.at = pass.at /\ pass.at \in Sources
    BY <1>3 DEF Spawn, TypeOK, CacheTypeOK, PassTypeOK, Passes
  <2>2. rec' \in [Commits -> [Sources -> Records]]
    BY <1>3, NoRecType DEF Spawn, RemoveHFSidecars, TypeOK, CacheTypeOK, PassTypeOK
  <2> QED BY <1>0, <1>3, <2>1, <2>2 DEF Spawn, TypeOK, CacheTypeOK, PassTypeOK
<1>4. CASE Resolve
  <2>1. hf' \in [c : Commits \cup {0}, todo : SUBSET Files, hung : BOOLEAN]
    BY <1>4 DEF Resolve, BuildArgs, TypeOK, CacheTypeOK, PassTypeOK
  <2> QED BY <1>4, <2>1 DEF Resolve, TypeOK, CacheTypeOK, PassTypeOK
<1>5. ASSUME NEW f \in Files, Fetch(f) PROVE TypeOK'
  <2>1. hf' \in [c : Commits \cup {0}, todo : SUBSET Files, hung : BOOLEAN]
    BY <1>5 DEF Fetch, TypeOK, CacheTypeOK, PassTypeOK
  <2>2. snap' \in [Commits -> SUBSET Files]
    BY <1>5 DEF Fetch, TypeOK, CacheTypeOK, PassTypeOK
  <2>3. store' \in [Blobs -> {"gone", "ok", "short", "flipped"}]
    BY <1>5 DEF Fetch, TypeOK, CacheTypeOK, PassTypeOK
  <2> QED BY <1>5, <2>1, <2>2, <2>3, ZenonT(60) DEF Fetch, TypeOK, CacheTypeOK, PassTypeOK
<1>6. CASE Hang
  <2>1. hf' \in [c : Commits \cup {0}, todo : SUBSET Files, hung : BOOLEAN]
    BY <1>6 DEF Hang, TypeOK, CacheTypeOK, PassTypeOK
  <2>2. count' \in Counts
    BY <1>6, <1>c, SpendIs DEF Hang
  <2> QED BY <1>6, <2>1, <2>2, ZenonT(60) DEF Hang, TypeOK, CacheTypeOK, PassTypeOK, Counts
<1>7. CASE Kill
  BY <1>0, <1>7 DEF Kill, Fail, TypeOK, CacheTypeOK, PassTypeOK
<1>8. ASSUME NEW why, Exit(why) PROVE TypeOK'
  <2>1. count' \in Counts
    BY <1>8, <1>c, SpendIs DEF Exit
  <2> QED BY <1>0, <1>8, <2>1 DEF Exit, Fail, TypeOK, CacheTypeOK, PassTypeOK, Counts
<1>9. CASE ExitOk
  BY <1>9 DEF ExitOk, Running, TypeOK, CacheTypeOK, PassTypeOK
<1>10. CASE Record
  <2>1. pass.at \in Sources /\ ref \in Commits
    BY <1>10 DEF Record, TypeOK, CacheTypeOK, PassTypeOK, DownloadTells
  <2>2. ScanHFSnapshot(ref, pass.at) \in Records
    BY <1>10, <2>1, ScanIs DEF Record, DownloadTells
  <2>3. rec' \in [Commits -> [Sources -> Records]]
    BY <1>10, <2>1, <2>2 DEF Record, WriteHFSidecar, TypeOK, CacheTypeOK, PassTypeOK
  <2>4. pass' \in Passes /\ pass'.at = pass.at + 1
    BY <1>10, <2>1, ResultIs DEF Record, TypeOK, CacheTypeOK, PassTypeOK
  <2>5. pass'.at \in 2 .. Len(Wants) + 1
    <3>1. Len(Wants) \in Nat /\ Sources = 1 .. Len(Wants)
      BY ConstantFacts
    <3> QED BY <2>1, <2>4, <3>1
  <2>6. /\ pc' \in {"source", "finish"}
        /\ pc' = "source" => pass'.at \in Sources
        /\ pc' = "finish" => pass'.at = Len(Wants) + 1
    BY <1>10, <2>4, <2>5, MoreType DEF Record
  <2>7. hf' = NoProcess /\ UNCHANGED <<world, ref, snap, store, sentinel, phase, note, count>>
    BY <1>10 DEF Record
  <2> QED BY <1>0, <2>3, <2>4, <2>6, <2>7, ZenonT(60) DEF TypeOK, CacheTypeOK, PassTypeOK
<1>11. CASE Finish
  <2>1. 1 \in Sources
    BY ConstantFacts
  <2>2. pass.got[1] \in Commits \cup {0}
    BY <2>1 DEF TypeOK, CacheTypeOK, PassTypeOK, Passes
  <2>3. /\ phase' = "loading" /\ sentinel' = pass.got[1] /\ pc' = "idle"
        /\ UNCHANGED <<world, cache, note, pass, hf, count>>
    BY <1>11 DEF Finish
  <2> QED BY <2>2, <2>3 DEF TypeOK, CacheTypeOK, PassTypeOK
<1>12. CASE BranchMoves \/ Network
  <2>1. hub' \in Commits /\ online' \in BOOLEAN
    BY <1>12 DEF BranchMoves, Network, TypeOK, CacheTypeOK, PassTypeOK
  <2>2. UNCHANGED <<follow, cache, sentinel, phase, note, pc, pass, hf, count>>
    BY <1>12 DEF BranchMoves, Network
  <2>3. CacheTypeOK'
    BY <2>1, <2>2 DEF TypeOK, CacheTypeOK
  <2>4. PassTypeOK'
    BY <2>2 DEF TypeOK, PassTypeOK
  <2> QED BY <2>3, <2>4 DEF TypeOK
<1>13. CASE Crash
  <2>1. count' \in Counts
    BY <1>13, <1>c, SpendIs DEF Crash
  <2>2. /\ pc' = "idle" /\ pass' = NoPass /\ hf' = NoProcess /\ phase' = "init"
        /\ UNCHANGED <<world, cache, sentinel>>
    BY <1>13 DEF Crash
  <2>3. note' \in {"", "found", "unknown"}
    BY <1>13 DEF Crash, TypeOK, CacheTypeOK, PassTypeOK
  <2>4. NoPass \in Passes
    BY NoPassType
  <2> QED BY <1>0, <2>1, <2>2, <2>3, <2>4 DEF TypeOK, CacheTypeOK, PassTypeOK, Counts
<1>14. ASSUME NEW b \in DOMAIN store, NEW how \in {"gone", "short", "flipped"},
              Damage(b, how)
       PROVE  TypeOK'
  <2>1. count' \in Counts
    BY <1>14, <1>c, SpendIs DEF Damage
  <2>2. store' \in [Blobs -> {"gone", "ok", "short", "flipped"}]
    BY <1>14 DEF Damage, TypeOK, CacheTypeOK, PassTypeOK
  <2> QED BY <1>14, <2>1, <2>2, ZenonT(60) DEF Damage, TypeOK, CacheTypeOK, PassTypeOK, Counts
<1>15. CASE UNCHANGED vars
  <2>1. UNCHANGED <<hub, online, follow, ref, snap, store, rec, sentinel, phase, note>>
    BY <1>15 DEF vars
  <2>2. UNCHANGED <<pc, pass, hf, count>>
    BY <1>15 DEF vars
  <2>3. CacheTypeOK'
    BY <2>1 DEF TypeOK, CacheTypeOK
  <2>4. PassTypeOK'
    BY <2>1, <2>2 DEF TypeOK, PassTypeOK
  <2> QED BY <2>3, <2>4 DEF TypeOK
<1> QED BY <1>1, <1>2, <1>3, <1>4, <1>5, <1>6, <1>7, <1>8, <1>9, <1>10, <1>11, <1>12,
           <1>13, <1>14, <1>15
        DEF Next, Lifecycle, Subprocess

-----------------------------------------------------------------------------

\* Only fetching and damage touch what the links lead to, and only damage takes
\* something away; it does so between passes.
LEMMA LinksStay ==
  ASSUME TypeOK, [Next]_vars
  PROVE  /\ \A c \in Commits : snap[c] \subseteq snap'[c]
         /\ count' \in Counts /\ count'.damage <= count.damage
         /\ pc # "idle" \/ count'.damage = count.damage =>
              /\ count'.damage = count.damage
              /\ \A c \in Commits, f \in Files : Linked(c, f) => Linked(c, f)'
              /\ \A b \in Blobs : store'[b] \in {store[b], "ok"}
<1>c. count \in Counts /\ count.damage \in Nat
  BY DEF TypeOK, PassTypeOK, Counts
<1>1. CASE UNCHANGED <<snap, store>> /\ count' \in Counts /\ count'.damage = count.damage
  BY <1>1, <1>c DEF Linked, TypeOK, CacheTypeOK
<1>2. ASSUME NEW f \in Files, Fetch(f)
      PROVE  /\ \A c \in Commits : snap[c] \subseteq snap'[c]
             /\ count' \in Counts /\ count'.damage = count.damage
             /\ \A c \in Commits, g \in Files : Linked(c, g) => Linked(c, g)'
             /\ \A b \in Blobs : store'[b] \in {store[b], "ok"}
  <2>1. \A c \in Commits : snap[c] \subseteq snap'[c]
    BY <1>2 DEF Fetch, TypeOK, CacheTypeOK
  <2>2. \A b \in Blobs : store'[b] \in {store[b], "ok"}
    BY <1>2 DEF Fetch, TypeOK, CacheTypeOK
  <2>3. count' = count
    BY <1>2 DEF Fetch
  <2>4. \A c \in Commits, g \in Files : Linked(c, g) => Linked(c, g)'
    BY <2>1, <2>2, ConstantFacts DEF Linked
  <2> QED BY <1>c, <2>1, <2>2, <2>3, <2>4
<1>3. ASSUME NEW b \in DOMAIN store, NEW how, Damage(b, how)
      PROVE  /\ snap' = snap /\ pc = "idle"
             /\ count' \in Counts /\ count'.damage = count.damage - 1
  BY <1>3, <1>c, SpendIs DEF Damage
<1>4. CASE \E force, level : Start(force, level)
  BY <1>1, <1>4, <1>c, SpendIs DEF Start
<1>5. CASE (\E v : Reuse(v)) \/ Spawn \/ Record \/ Finish \/ Resolve \/ Kill \/ ExitOk
           \/ BranchMoves \/ Network \/ UNCHANGED vars
  BY <1>1, <1>5, <1>c
  DEF Reuse, Spawn, Record, Finish, Resolve, Kill, Fail, ExitOk, BranchMoves, Network, vars
<1>6. CASE Hang
  BY <1>1, <1>6, <1>c, SpendIs DEF Hang
<1>7. CASE \E why : Exit(why)
  BY <1>1, <1>7, <1>c, SpendIs DEF Exit, Fail
<1>8. CASE Crash
  BY <1>1, <1>8, <1>c, SpendIs DEF Crash
<1>9. CASE \E f \in Files : Fetch(f)
  BY <1>2, <1>9, <1>c
<1>10. CASE \E b \in DOMAIN store, how \in {"gone", "short", "flipped"} : Damage(b, how)
  BY <1>3, <1>10, <1>c
<1> QED BY <1>4, <1>5, <1>6, <1>7, <1>8, <1>9, <1>10 DEF Next, Lifecycle, Subprocess

\* hf is done only when everything its source wants is linked.
LEMMA NextDownloadTells ==
  TypeOK /\ DownloadTells /\ [Next]_vars => DownloadTells'
<1> SUFFICES ASSUME TypeOK, DownloadTells, [Next]_vars PROVE DownloadTells'
  OBVIOUS
<1>0. /\ pc # "idle" => \A c \in Commits, f \in Files : Linked(c, f) => Linked(c, f)'
      /\ pass.at \in Sources => Wants[pass.at] \subseteq Files
  BY LinksStay, ConstantFacts
<1>1. CASE \E force, level : Start(force, level)
  BY <1>1 DEF Start, DownloadTells
<1>2. CASE (\E v : Reuse(v)) \/ Record
  BY <1>2 DEF Reuse, Record, More, DownloadTells
<1>3. CASE Spawn
  BY <1>3 DEF Spawn, NoProcess, DownloadTells
<1>4. CASE Resolve
  <2>1. /\ pc' = "run" /\ hf'.c = hub /\ ref' = hub /\ pass' = pass
        /\ hf'.todo = {f \in BuildArgs(pass.at) : pass.force \/ ~Linked(hub, f)}
        /\ hub \in Commits /\ pass.at \in Sources
    BY <1>4 DEF Resolve, Running, TypeOK, CacheTypeOK, PassTypeOK
  <2>2. hub' = hub
    BY <1>4 DEF Resolve
  <2>3. \A f \in Wants[pass.at] : f \in hf'.todo \/ Linked(hub, f)'
    BY <1>0, <1>4, <2>1, <2>2 DEF Resolve, Running, BuildArgs, MatchPatterns
  <2> QED BY <2>1, <2>2, <2>3 DEF DownloadTells, Linked
<1>5. ASSUME NEW g \in Files, Fetch(g) PROVE DownloadTells'
  <2>1. /\ pc = "run" /\ pc' = "run" /\ hf'.c = hf.c /\ hf'.todo = hf.todo \ {g}
        /\ ref' = ref /\ pass' = pass /\ pass.at \in Sources
    BY <1>5 DEF Fetch, Running, TypeOK, PassTypeOK
  <2>2. CASE hf.c # 0
    <3>1. hf.c = ref /\ ref \in Commits /\ Blob[ref][g] \in Blobs
      BY <2>1, <2>2, ConstantFacts DEF DownloadTells, TypeOK, PassTypeOK
    <3>2. g \in snap'[ref] /\ store'[Blob[ref][g]] # "gone"
      BY <1>5, <3>1 DEF Fetch, TypeOK, CacheTypeOK
    <3>3. Linked(ref, g)'
      BY <2>1, <3>2 DEF Linked
    <3>4. \A f \in Wants[pass.at] : f \in hf'.todo \/ Linked(ref, f)'
      BY <1>0, <2>1, <2>2, <3>1, <3>3 DEF DownloadTells
    <3> QED BY <2>1, <3>1, <3>4 DEF DownloadTells, Linked
  <2>3. CASE hf.c = 0
    BY <2>1, <2>3 DEF DownloadTells
  <2> QED BY <2>2, <2>3
<1>6. CASE Hang
  <2>1. /\ pc = "run" /\ pc' = pc /\ hf'.c = hf.c /\ hf'.todo = hf.todo
        /\ UNCHANGED <<ref, snap, store, pass>>
    BY <1>6 DEF Hang, Running, TypeOK, PassTypeOK
  <2> QED BY <2>1 DEF DownloadTells, Linked
<1>7. CASE Kill \/ (\E why : Exit(why)) \/ Finish \/ Crash
  BY <1>7 DEF Kill, Exit, Fail, Finish, Crash, DownloadTells
<1>8. CASE ExitOk
  BY <1>8 DEF ExitOk, Running, DownloadTells, Linked
<1>9. CASE BranchMoves \/ Network \/ UNCHANGED vars
  BY <1>9 DEF BranchMoves, Network, vars, DownloadTells, Linked
<1>10. CASE \E b \in DOMAIN store : \E how : Damage(b, how)
  BY <1>10 DEF Damage, DownloadTells
<1> QED BY <1>1, <1>2, <1>3, <1>4, <1>5, <1>6, <1>7, <1>8, <1>9, <1>10
        DEF Next, Lifecycle, Subprocess

-----------------------------------------------------------------------------

\* What is recorded is what the source wants, all of it there; no other record
\* changes.
LEMMA RecordIs ==
  ASSUME TypeOK, DownloadTells, Record
  PROVE  /\ pass.at \in Sources /\ ref \in Commits
         /\ \A f \in Wants[pass.at] : Linked(ref, f)
         /\ DOMAIN rec'[ref][pass.at] = Wants[pass.at]
         /\ \A f \in Wants[pass.at] : rec'[ref][pass.at][f] = Length(Blob[ref][f])
         /\ \A c \in Commits, s \in Sources :
              c # ref \/ s # pass.at => rec'[c][s] = rec[c][s]
         /\ UNCHANGED <<ref, snap, store, count>>
<1>1. pass.at \in Sources /\ ref \in Commits /\ \A f \in Wants[pass.at] : Linked(ref, f)
  BY DEF Record, TypeOK, CacheTypeOK, PassTypeOK, DownloadTells
<1>2. rec' = [rec EXCEPT ![ref][pass.at] = ScanHFSnapshot(ref, pass.at)]
  BY DEF Record, WriteHFSidecar
<1>3. /\ rec'[ref][pass.at] = ScanHFSnapshot(ref, pass.at)
      /\ \A c \in Commits, s \in Sources :
           c # ref \/ s # pass.at => rec'[c][s] = rec[c][s]
  BY <1>1, <1>2 DEF TypeOK, CacheTypeOK
<1>4. UNCHANGED <<ref, snap, store, count>>
  BY DEF Record
<1> QED BY <1>1, <1>3, <1>4, ScanIs

\* A forced pass removes the records of the source at hand, and of no other.
LEMMA SpawnForgets ==
  ASSUME TypeOK, Spawn
  PROVE  /\ \A c \in Commits, s \in Sources :
              /\ rec'[c][s] = rec[c][s] \/ DOMAIN rec'[c][s] = {}
              /\ s # pass.at => rec'[c][s] = rec[c][s]
         /\ pass'.at = pass.at /\ pass'.got = pass.got /\ pc' = "run"
         /\ UNCHANGED <<ref, snap, store, count>>
<1>1. \A c \in Commits, s \in Sources :
        /\ rec'[c][s] = rec[c][s] \/ rec'[c][s] = NoRec
        /\ s # pass.at => rec'[c][s] = rec[c][s]
  BY DEF Spawn, RemoveHFSidecars, TypeOK, CacheTypeOK
<1>2. /\ pass'.at = pass.at /\ pass'.got = pass.got /\ pc' = "run"
      /\ UNCHANGED <<ref, snap, store, count>>
  BY DEF Spawn, TypeOK, PassTypeOK, Passes
<1> QED BY <1>1, <1>2, NoRecType

\* Nobody else writes a record.
LEMMA OthersLeaveRecords ==
  [Next]_vars => Spawn \/ Record \/ rec' = rec
BY DEF Next, Lifecycle, Subprocess, Start, Reuse, Finish, Resolve, Fetch, Hang, Kill, Exit,
       Fail, ExitOk, BranchMoves, Network, Damage, Crash, vars

\* A record stays complete: it is written after hf is done, and the links of a
\* commit only become more.
LEMMA NextRecordIsComplete ==
  TypeOK /\ DownloadTells /\ RecordIsComplete /\ [Next]_vars => RecordIsComplete'
<1> SUFFICES ASSUME TypeOK, DownloadTells, RecordIsComplete, [Next]_vars,
                    NEW c \in Commits, NEW s \in Sources, DOMAIN rec'[c][s] # {}
             PROVE  Wants[s] \subseteq DOMAIN rec'[c][s] \cap snap'[c]
  BY DEF RecordIsComplete
<1>0. snap[c] \subseteq snap'[c]
  BY LinksStay
<1>1. CASE rec'[c][s] = rec[c][s]
  BY <1>0, <1>1 DEF RecordIsComplete
<1>2. CASE Record /\ c = ref /\ s = pass.at
  BY <1>0, <1>2, RecordIs DEF Linked
<1> QED BY <1>1, <1>2, RecordIs, SpawnForgets, OthersLeaveRecords

\* Without damage every recorded file stays where it is, at its full length.
LEMMA NextRecordsHold ==
  TypeOK /\ DownloadTells /\ RecordsHold /\ [Next]_vars => RecordsHold'
<1> SUFFICES ASSUME TypeOK, DownloadTells, RecordsHold, [Next]_vars PROVE RecordsHold'
  OBVIOUS
<1>0. count.damage \in Nat /\ count'.damage \in Nat /\ count'.damage <= count.damage
      /\ count.damage <= MaxDamage /\ MaxDamage \in Nat
  BY LinksStay, BoundsAssumption
  DEF TypeOK, PassTypeOK, Counts, RecordsHold, BoundsAssumption
<1>1. count'.damage <= MaxDamage
  BY <1>0
<1>2. ASSUME Undamaged'
      PROVE  /\ \A b \in Blobs : store'[b] \in {"gone", "ok"}
             /\ \A c \in Commits, s \in Sources : \A f \in DOMAIN rec'[c][s] :
                  Linked(c, f)' /\ rec'[c][s][f] = "full"
  <2>1. Undamaged /\ count'.damage = count.damage
    BY <1>0, <1>2 DEF Undamaged
  <2>2. /\ \A b \in Blobs : store[b] \in {"gone", "ok"}
        /\ \A c \in Commits, s \in Sources : \A f \in DOMAIN rec[c][s] :
             Linked(c, f) /\ rec[c][s][f] = "full"
    BY <2>1 DEF RecordsHold
  <2>3. \A c \in Commits, f \in Files : Linked(c, f) => Linked(c, f)'
    BY <2>1, LinksStay
  <2>4. \A b \in Blobs : store'[b] \in {"gone", "ok"}
    BY <2>1, <2>2, LinksStay
  <2>5. ASSUME NEW c \in Commits, NEW s \in Sources, NEW f \in DOMAIN rec'[c][s]
        PROVE  Linked(c, f)' /\ rec'[c][s][f] = "full"
    <3>1. CASE rec'[c][s] = rec[c][s]
      <4>1. f \in DOMAIN rec[c][s] /\ Linked(c, f) /\ rec[c][s][f] = "full"
        BY <2>2, <2>5, <3>1
      <4>2. f \in Files
        BY <4>1 DEF Linked, TypeOK, CacheTypeOK
      <4> QED BY <2>3, <3>1, <4>1, <4>2
    <3>2. CASE Record /\ c = ref /\ s = pass.at
      <4>1. f \in Wants[s] /\ Linked(c, f) /\ rec'[c][s][f] = Length(Blob[c][f])
        BY <2>5, <3>2, RecordIs
      <4>2. f \in Files
        BY <4>1, ConstantFacts
      <4>3. Length(Blob[c][f]) = "full"
        BY <2>2, <4>2, ConstantFacts DEF Length
      <4> QED BY <2>3, <4>1, <4>2, <4>3
    <3> QED BY <2>5, <3>1, <3>2, RecordIs, SpawnForgets, OthersLeaveRecords
  <2> QED BY <2>4, <2>5
<1> QED BY <1>1, <1>2 DEF RecordsHold

-----------------------------------------------------------------------------

\* A source that is through, reused or recorded, adds its commit to what the
\* pass has behind it, and its record stands under it.
LEMMA SourceIsThrough ==
  ASSUME TypeOK, TypeOK', PassTells, pass.at \in Sources, ref \in Commits,
         pass'.at = pass.at + 1, pass'.got = [pass.got EXCEPT ![pass.at] = ref],
         ref' = ref, DOMAIN rec'[ref][pass.at] # {},
         \A c \in Commits, s \in Sources : s # pass.at => rec'[c][s] = rec[c][s]
  PROVE  PassTells'
<1>0. Len(Wants) \in Nat \ {0} /\ Sources = 1 .. Len(Wants)
  BY ConstantFacts
<1>1. pass.got \in [Sources -> Commits \cup {0}] /\ pass.at \in Nat
  <2>1. pass.got \in [Sources -> Commits \cup {0}]
    BY DEF TypeOK, PassTypeOK, Passes
  <2> QED BY <1>0, <2>1
<1>2. pass'.got[pass.at] = ref
  BY <1>1
<1>3. ASSUME NEW s \in Sources, s < pass'.at
      PROVE  pass'.got[s] \in Commits /\ DOMAIN rec'[pass'.got[s]][s] # {}
  <2>1. CASE s = pass.at
    BY <1>2, <2>1
  <2>2. CASE s # pass.at
    <3>1. s < pass.at
      BY <1>0, <1>1, <1>3, <2>2
    <3>2. pass'.got[s] = pass.got[s]
      BY <1>1, <2>2
    <3> QED BY <2>2, <3>1, <3>2 DEF PassTells
  <2> QED BY <2>1, <2>2
<1>4. pass'.at > Len(Wants) => pass'.got[Len(Wants)] = ref
  BY <1>0, <1>1, <1>2
<1> QED BY <1>3, <1>4 DEF PassTells

\* The pass keeps what it has behind it.
LEMMA NextPassTells ==
  TypeOK /\ TypeOK' /\ DownloadTells /\ PassTells /\ [Next]_vars => PassTells'
<1> SUFFICES ASSUME TypeOK, TypeOK', DownloadTells, PassTells, [Next]_vars
             PROVE  PassTells'
  OBVIOUS
<1>0. Len(Wants) \in Nat \ {0} /\ Sources = 1 .. Len(Wants)
  BY ConstantFacts
<1>1. CASE pass'.at = 1
  BY <1>0, <1>1 DEF PassTells
<1>2. ASSUME NEW force \in BOOLEAN, NEW level \in Levels, Start(force, level)
      PROVE  PassTells'
  BY <1>1, <1>2, NoPassType DEF Start
<1>3. CASE Crash
  BY <1>1, <1>3, NoPassType DEF Crash
<1>4. ASSUME NEW v, Reuse(v) PROVE PassTells'
  <2>1. /\ pass.at \in Sources /\ ref \in Commits /\ pass'.at = pass.at + 1
        /\ pass'.got = [pass.got EXCEPT ![pass.at] = ref]
        /\ DOMAIN rec[ref][pass.at] # {}
    BY <1>4, ReusePass DEF Reusable, CheckLocal
  <2>2. rec' = rec /\ ref' = ref
    BY <1>4 DEF Reuse
  <2> QED BY <2>1, <2>2, SourceIsThrough
<1>5. CASE Record
  <2>1. pass'.at = pass.at + 1 /\ pass'.got = [pass.got EXCEPT ![pass.at] = ref]
    BY <1>5, RecordIs, ResultIs DEF Record, TypeOK, PassTypeOK
  <2>2. DOMAIN rec'[ref][pass.at] # {}
    BY <1>5, RecordIs, ConstantFacts
  <2> QED BY <1>5, <2>1, <2>2, RecordIs, SourceIsThrough
<1>6. CASE Spawn
  <2>1. \A s \in Sources : s < pass.at => s # pass.at
    BY <1>0
  <2> QED BY <1>6, <2>1, SpawnForgets DEF PassTells
<1>7. CASE Resolve \/ (\E f \in Files : Fetch(f)) \/ Hang \/ ExitOk
  BY <1>7 DEF Resolve, Fetch, Hang, ExitOk, Running, PassTells
<1>8. CASE Kill \/ \E why : Exit(why)
  <2>1. pass.at \in Sources /\ UNCHANGED <<pass, rec, ref>>
    BY <1>8 DEF Kill, Exit, Fail, Running, TypeOK, PassTypeOK
  <2>2. ~(pass.at > Len(Wants))
    BY <1>0, <2>1
  <2> QED BY <2>1, <2>2 DEF PassTells
<1>9. CASE Finish \/ BranchMoves \/ Network \/ UNCHANGED vars
           \/ \E b \in DOMAIN store : \E how : Damage(b, how)
  <2>1. /\ UNCHANGED <<pass, rec, ref>>
        /\ pc' \in {"finish", "idle"} => pc \in {"finish", "idle"}
    BY <1>9 DEF Finish, BranchMoves, Network, vars, Damage
  <2> QED BY <2>1 DEF PassTells
<1> QED BY <1>2, <1>3, <1>4, <1>5, <1>6, <1>7, <1>8, <1>9 DEF Next, Lifecycle, Subprocess

\* The engine is bound to a commit under which the main source has a record.
LEMMA NextSentinelIsWhole ==
  CacheInv /\ TypeOK' /\ RecordsHold' /\ [Next]_vars => SentinelIsWhole'
<1> SUFFICES ASSUME CacheInv, TypeOK', RecordsHold', [Next]_vars,
                    sentinel' # 0, Undamaged', NEW f \in Wants[1]
             PROVE  Linked(sentinel, f)'
  BY DEF SentinelIsWhole, Undamaged
<1> USE DEF CacheInv
<1>0. 1 \in Sources /\ f \in Files
  BY ConstantFacts
<1>1. Undamaged /\ count'.damage = count.damage
  <2>1. count.damage \in Nat /\ count'.damage \in Nat /\ count'.damage <= count.damage
        /\ count.damage <= MaxDamage /\ MaxDamage \in Nat
    BY LinksStay, BoundsAssumption
    DEF TypeOK, PassTypeOK, Counts, RecordsHold, BoundsAssumption
  <2> QED BY <2>1 DEF Undamaged
<1>2. \A c \in Commits : Linked(c, f) => Linked(c, f)'
  BY <1>0, <1>1, LinksStay
<1>3. CASE Finish
  <2>1. sentinel' = pass.got[1] /\ pass.at = Len(Wants) + 1
    BY <1>3 DEF Finish, TypeOK, PassTypeOK
  <2>2. 1 < pass.at
    <3>1. Len(Wants) \in Nat \ {0}
      BY ConstantFacts
    <3> QED BY <2>1, <3>1
  <2>3. sentinel' \in Commits /\ DOMAIN rec[sentinel'][1] # {}
    BY <1>0, <2>1, <2>2 DEF PassTells
  <2>4. f \in DOMAIN rec[sentinel'][1]
    BY <1>0, <2>3 DEF RecordIsComplete
  <2>5. Linked(sentinel', f)
    BY <1>0, <1>1, <2>3, <2>4 DEF RecordsHold
  <2> QED BY <1>2, <2>3, <2>5 DEF Linked
<1>4. CASE sentinel' = sentinel
  <2>1. sentinel \in Commits /\ Linked(sentinel, f)
    BY <1>1, <1>4 DEF SentinelIsWhole, Undamaged, TypeOK, CacheTypeOK
  <2> QED BY <1>2, <1>4, <2>1 DEF Linked
<1>5. Finish \/ sentinel' = sentinel
  BY DEF Next, Lifecycle, Subprocess, Start, Reuse, Spawn, Record, Resolve, Fetch, Hang,
         Kill, Exit, Fail, ExitOk, BranchMoves, Network, Damage, Crash, vars
<1> QED BY <1>3, <1>4, <1>5

-----------------------------------------------------------------------------

\* The invariant holds of an empty cache and is kept by every step.
LEMMA CacheInvariant == Spec => []CacheInv
<1>1. Init => CacheInv
  <2> SUFFICES ASSUME Init PROVE CacheInv
    OBVIOUS
  <2>1. CacheTypeOK
    BY ConstantFacts, NoRecType DEF Init, CacheTypeOK
  <2>2. PassTypeOK
    BY NoPassType, BoundsAssumption DEF Init, PassTypeOK, NoProcess, BoundsAssumption
  <2>3. DownloadTells
    BY DEF Init, DownloadTells
  <2>4. RecordIsComplete
    BY NoRecType DEF Init, RecordIsComplete
  <2>5. RecordsHold
    <3>1. \A c \in Commits, s \in Sources : DOMAIN rec[c][s] = {}
      BY NoRecType DEF Init
    <3>2. \A b \in Blobs : store[b] = "gone"
      BY DEF Init
    <3>3. count.damage <= MaxDamage
      <4>1. count.damage = MaxDamage
        BY DEF Init
      <4> QED BY <4>1, BoundsAssumption DEF BoundsAssumption
    <3> QED BY <3>1, <3>2, <3>3 DEF RecordsHold
  <2>6. PassTells
    <3>1. Len(Wants) \in Nat \ {0} /\ Sources = 1 .. Len(Wants) /\ pass.at = 1
      BY ConstantFacts, NoPassType DEF Init
    <3> QED BY <3>1 DEF PassTells
  <2>7. SentinelIsWhole
    BY DEF Init, SentinelIsWhole
  <2> QED BY <2>1, <2>2, <2>3, <2>4, <2>5, <2>6, <2>7 DEF CacheInv, TypeOK
<1>2. CacheInv /\ [Next]_vars => CacheInv'
  BY NextTypeOK, NextDownloadTells, NextRecordIsComplete, NextRecordsHold, NextPassTells,
     NextSentinelIsWhole
  DEF CacheInv
<1> QED BY <1>1, <1>2, PTL DEF Spec

\* Killed, crashed and failed downloads leave no record that calls a part the
\* whole (writeHFSidecar only after Run returned without an error).
THEOREM RecordsAreComplete == Spec => []RecordIsComplete
<1>1. CacheInv => RecordIsComplete
  BY DEF CacheInv
<1> QED BY <1>1, CacheInvariant, PTL

\* The path handed to the engine leads to every file of the main source, also
\* when the branch moves between two downloads of a pass (ensureHF).
THEOREM SentinelStaysWhole == Spec => []SentinelIsWhole
<1>1. CacheInv => SentinelIsWhole
  BY DEF CacheInv
<1> QED BY <1>1, CacheInvariant, PTL

\* A pass that completed, and downloaded all its sources at one commit, leaves
\* records from which the next boot reuses everything without the Hub
\* (reuseHFDownload).
THEOREM CompletedPassesBootOffline == Spec => []CompletedPassBootsOffline
<1>1. CacheInv => CompletedPassBootsOffline
  <2> SUFFICES ASSUME CacheInv, pc = "idle", pass.at > Len(Wants), Undamaged,
                      \A s \in Sources : pass.got[s] = pass.got[1],
                      NEW s \in Sources
               PROVE  Reusable(s, "sha256")
    BY DEF CompletedPassBootsOffline, Undamaged
  <2> USE DEF CacheInv
  <2>1. Len(Wants) \in Sources /\ s < pass.at
    <3>1. Len(Wants) \in Nat \ {0} /\ Sources = 1 .. Len(Wants)
      BY ConstantFacts
    <3>2. pass.at \in 1 .. Len(Wants) + 1
      BY DEF TypeOK, PassTypeOK, Passes
    <3> QED BY <3>1, <3>2
  <2>2. pass.got[s] = ref
    BY <2>1 DEF PassTells
  <2>3. ref \in Commits /\ DOMAIN rec[ref][s] # {}
    BY <2>1, <2>2 DEF PassTells
  <2>4. ASSUME NEW f \in DOMAIN rec[ref][s]
        PROVE  /\ Linked(ref, f) /\ Length(Blob[ref][f]) = rec[ref][s][f]
               /\ store[Blob[ref][f]] = "ok"
    <3>1. Linked(ref, f) /\ rec[ref][s][f] = "full"
      BY <2>3 DEF RecordsHold
    <3>2. f \in Files
      BY <2>3, <3>1 DEF Linked, TypeOK, CacheTypeOK
    <3>3. store[Blob[ref][f]] = "ok"
      BY <2>3, <3>1, <3>2, ConstantFacts DEF RecordsHold, Linked
    <3> QED BY <3>1, <3>3 DEF Length
  <2>5. ref # 0
    BY <2>3, ConstantFacts
  <2> QED BY <2>3, <2>4, <2>5 DEF Reusable, CheckLocal
<1> QED BY <1>1, CacheInvariant, PTL

=============================================================================

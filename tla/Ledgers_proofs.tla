----------------------------- MODULE Ledgers_proofs -----------------------------
(***************************************************************************)
(* Theorems about Migrations, WlcEvidence and Collectors for any number of  *)
(* migrations, runners, versions, attempts, badges and access points: what  *)
(* the ledger of migrations records is in place, the row of an attempt is of*)
(* one evidence report, and what the collectors write was observed.         *)
(***************************************************************************)
EXTENDS Migrations, WlcEvidence, Collectors, TLAPS

-----------------------------------------------------------------------------
(***************************************************************************)
(* The ledger of migrations (Migrations).                                   *)
(***************************************************************************)

Held   == {"open", "table", "drop", "add", "record"}
Runs   == [at : {"idle", "hash", "look"} \cup Held, dry : BOOLEAN, id : Migration,
           checksum : 0..MaxVersion, body : 0..MaxVersion]
Places == [table : 0..MaxVersion, check : 0..MaxVersion]

TypeOK ==
  /\ text \in [Migration -> Version]
  /\ place \in [Migration -> Places]
  /\ ledger \in [Migration -> 0..MaxVersion]
  /\ runner \in [Runner -> Runs]
  /\ mixed \subseteq Migration

(* A migration that is not mixed is made of one text: half of its file's    *)
(* before it is recorded, all of the recorded one afterwards.               *)
OfOneText(m) ==
  m \notin mixed =>
    IF ledger[m] = Missing
    THEN place[m].table \in {Missing, text[m]} /\ place[m].check \in {Missing, text[m]}
    ELSE place[m].table = ledger[m] /\ place[m].check = ledger[m]

InOrder(m) == ledger[m] # Missing => \A earlier \in 1..m : ledger[earlier] # Missing

(* What a runner knows at each of its steps.                                *)
Fits(x) ==
  /\ x.at = "idle" => x.id = 1
  /\ x.at # "idle" /\ ~x.dry => \A earlier \in 1..(x.id - 1) : ledger[earlier] # Missing
  /\ x.at \in Held => ~x.dry
  /\ x.at \notin {"idle", "hash"} => x.checksum # Missing
  /\ x.id \notin mixed =>
       /\ x.at \notin {"idle", "hash"} /\ ledger[x.id] = Missing => x.checksum = text[x.id]
       /\ x.at \in Held => ledger[x.id] = Missing
       /\ x.at \in {"table", "drop", "add", "record"} => x.body = x.checksum
       /\ x.at \in {"drop", "add", "record"} => place[x.id].table = x.body
       /\ x.at = "add" => place[x.id].check = Missing
       /\ x.at = "record" => place[x.id].check = x.body

(* Two runners do not hold a migration that is not mixed.                   *)
OneHolder ==
  \A r, q \in Runner :
    /\ runner[r].at \in Held /\ runner[q].at \in Held
    /\ runner[r].id = runner[q].id /\ runner[r].id \notin mixed
    => r = q

IInv ==
  /\ TypeOK
  /\ \A m \in Migration : OfOneText(m) /\ InOrder(m)
  /\ \A r \in Runner : Fits(runner[r])
  /\ OneHolder

-----------------------------------------------------------------------------
(* Steps of a runner that touch nothing else.                               *)

LEMMA MoveStep ==
  ASSUME IInv, NEW r \in Runner, NEW x \in Runs,
         runner' = [runner EXCEPT ![r] = x], UNCHANGED <<text, place, ledger, mixed>>,
         Fits(x), x.at \in Held => runner[r].at \in Held /\ x.id = runner[r].id
  PROVE  IInv'
<1>0. runner \in [Runner -> Runs]  BY DEF IInv, TypeOK
<1>1. \A q \in Runner : runner'[q] = IF q = r THEN x ELSE runner[q]  BY <1>0
<1>2. TypeOK'  BY <1>0 DEF IInv, TypeOK
<1>3. ASSUME NEW m \in Migration PROVE OfOneText(m)' /\ InOrder(m)'
  BY DEF IInv, OfOneText, InOrder
<1>4. ASSUME NEW q \in Runner PROVE Fits(runner[q])'
  <2>1. CASE q = r  BY <1>1, <2>1 DEF Fits
  <2>2. CASE q # r  BY <1>1, <2>2 DEF IInv, Fits
  <2> QED  BY <2>1, <2>2
<1>5. OneHolder'
  <2> SUFFICES ASSUME NEW p \in Runner, NEW q \in Runner,
                      runner'[p].at \in Held, runner'[q].at \in Held,
                      runner'[p].id = runner'[q].id, runner'[p].id \notin mixed
               PROVE  p = q
    BY DEF OneHolder
  <2>1. ASSUME NEW o \in Runner, runner'[o].at \in Held
        PROVE  runner[o].at \in Held /\ runner[o].id = runner'[o].id
    BY <1>1, <2>1
  <2> QED  BY <2>1 DEF IInv, OneHolder
<1> QED  BY <1>2, <1>3, <1>4, <1>5 DEF IInv

(* A runner that gives up or is killed.                                     *)
LEMMA GoneStep ==
  ASSUME IInv, NEW r \in Runner, runner' = [runner EXCEPT ![r] = Waiting],
         UNCHANGED <<text, place, ledger, mixed>>
  PROVE  IInv'
<1>1. Waiting \in Runs /\ Waiting.at = "idle" /\ Waiting.id = 1
  BY BoundsAssumption DEF Waiting, Runs, Migration, Missing, Held
<1>2. Fits(Waiting)  BY <1>1 DEF Fits, Held
<1> QED  BY <1>1, <1>2, MoveStep DEF Held

(* The runner a finished file leaves.                                       *)
NextRun(x) ==
  IF x.id = Last THEN Waiting ELSE [Waiting EXCEPT !.at = "hash", !.dry = x.dry, !.id = x.id + 1]

LEMMA NextRunFacts ==
  ASSUME NEW x \in Runs
  PROVE  /\ NextRun(x) \in Runs /\ NextRun(x).at \notin Held
         /\ NextRun(x).at = "idle" => NextRun(x).id = 1
         /\ NextRun(x).at # "idle" =>
              NextRun(x).at = "hash" /\ NextRun(x).id = x.id + 1 /\ NextRun(x).dry = x.dry
<1>1. Waiting \in Runs /\ Waiting.at = "idle" /\ Waiting.id = 1
  BY BoundsAssumption DEF Waiting, Runs, Migration, Missing, Held
<1>2. CASE x.id = Last
  BY <1>1, <1>2 DEF NextRun, Held
<1>3. CASE x.id # Last
  <2> DEFINE y == [Waiting EXCEPT !.at = "hash", !.dry = x.dry, !.id = x.id + 1]
  <2>1. x.id \in 1..Last /\ x.dry \in BOOLEAN  BY DEF Runs, Migration
  <2>2. x.id + 1 \in Migration  BY <2>1, <1>3, BoundsAssumption DEF Migration
  <2>3. /\ y.at = "hash" /\ y.dry = x.dry /\ y.id = x.id + 1
        /\ y \in Runs
    BY <1>1, <2>1, <2>2 DEF Runs
  <2>4. NextRun(x) = y  BY <1>3 DEF NextRun
  <2> HIDE DEF y
  <2> QED  BY <2>3, <2>4 DEF Held
<1> QED  BY <1>2, <1>3

LEMMA SkipStep ==
  ASSUME IInv, NEW r \in Runner, NextFile(r), UNCHANGED <<text, place, ledger, mixed>>,
         runner[r].at # "idle", runner[r].dry \/ ledger[runner[r].id] # Missing
  PROVE  IInv'
<1> DEFINE old == runner[r]
           new == NextRun(old)
<1>0. old \in Runs /\ old.id \in 1..Last  BY DEF IInv, TypeOK, Runs, Migration
<1>1. runner' = [runner EXCEPT ![r] = new]  BY DEF NextFile, NextRun
<1>2. /\ new \in Runs /\ new.at \notin Held
      /\ new.at = "idle" => new.id = 1
      /\ new.at # "idle" => new.at = "hash" /\ new.id = old.id + 1 /\ new.dry = old.dry
  BY <1>0, NextRunFacts
<1>3. ~old.dry => \A earlier \in 1..(old.id - 1) : ledger[earlier] # Missing
  BY DEF IInv, Fits
<1> HIDE DEF new
<1>4. new.at # "idle" /\ ~new.dry => \A earlier \in 1..(new.id - 1) : ledger[earlier] # Missing
  <2> SUFFICES ASSUME new.at # "idle", ~new.dry, NEW e \in 1..(new.id - 1)
               PROVE  ledger[e] # Missing
    OBVIOUS
  <2>1. ~old.dry /\ new.id = old.id + 1  BY <1>2
  <2>2. e \in 1..(old.id - 1) \/ e = old.id  BY <2>1, <1>0, BoundsAssumption
  <2> QED  BY <2>1, <2>2, <1>3
<1>5. Fits(new)  BY <1>2, <1>4 DEF Fits, Held
<1> QED  BY <1>1, <1>2, <1>5, MoveStep
-----------------------------------------------------------------------------
(* The other steps.                                                         *)

(* A runner takes a migration that is not recorded: if another one holds it, *)
(* it is mixed from now on.                                                 *)
LEMMA OpenStep ==
  ASSUME IInv, NEW r \in Runner, Stands(r, "look"), Proceed(r, "open"),
         ledger[runner[r].id] = Missing, ~runner[r].dry,
         mixed' = IF Holding(runner[r].id) # {} THEN mixed \cup {runner[r].id} ELSE mixed,
         UNCHANGED <<text, place, ledger>>
  PROVE  IInv'
<1> DEFINE m == runner[r].id
           x == [runner[r] EXCEPT !.at = "open"]
<1>0. runner \in [Runner -> Runs] /\ runner[r] \in Runs /\ m \in Migration
  BY DEF IInv, TypeOK, Runs
<1>1. /\ x \in Runs /\ x.at = "open" /\ x.id = m /\ x.dry = runner[r].dry
      /\ x.checksum = runner[r].checksum /\ x.body = runner[r].body
  BY <1>0 DEF Runs, Held
<1>2. runner' = [runner EXCEPT ![r] = x]  BY <1>0 DEF Proceed
<1> HIDE DEF x
<1>3. \A q \in Runner : runner'[q] = IF q = r THEN x ELSE runner[q]  BY <1>0, <1>2
<1>4. mixed \subseteq mixed' /\ mixed' \subseteq mixed \cup {m}  OBVIOUS
<1>5. TypeOK'  BY <1>0, <1>1, <1>2, <1>4 DEF IInv, TypeOK
<1>6. ASSUME NEW n \in Migration PROVE OfOneText(n)' /\ InOrder(n)'
  BY <1>4 DEF IInv, OfOneText, InOrder
<1>7. ASSUME NEW q \in Runner PROVE Fits(runner[q])'
  <2>1. CASE q = r
    <3>1. Fits(runner[r]) /\ runner[r].at = "look"  BY DEF IInv, Stands
    <3>2. Fits(x)  BY <1>1, <3>1 DEF Fits, Held
    <3> QED  BY <1>3, <1>4, <2>1, <3>2 DEF Fits
  <2>2. CASE q # r
    <3>1. Fits(runner[q]) /\ runner'[q] = runner[q]  BY <1>3, <2>2 DEF IInv
    <3> QED  BY <1>4, <3>1 DEF Fits
  <2> QED  BY <2>1, <2>2
<1>8. OneHolder'
  <2> SUFFICES ASSUME NEW p \in Runner, NEW q \in Runner, p # q,
                      runner'[p].at \in Held, runner'[q].at \in Held,
                      runner'[p].id = runner'[q].id
               PROVE  runner'[p].id \in mixed'
    BY DEF OneHolder
  <2>1. ASSUME NEW o \in Runner, o # r, runner'[o].at \in Held, runner'[o].id = m
        PROVE  m \in mixed'
    <3>1. o \in Holding(m)  BY <1>3, <2>1 DEF Holding, Held
    <3> QED  BY <3>1
  <2>2. CASE p = r
    BY <1>1, <1>3, <2>1, <2>2
  <2>3. CASE q = r
    BY <1>1, <1>3, <2>1, <2>3
  <2>4. CASE p # r /\ q # r
    BY <1>3, <1>4, <2>4 DEF IInv, OneHolder
  <2> QED  BY <2>2, <2>3, <2>4
<1> QED  BY <1>5, <1>6, <1>7, <1>8 DEF IInv

(* A statement of a migration: nobody else is at work on it, or it is mixed. *)
LEMMA StatementStep ==
  ASSUME IInv, NEW r \in Runner, NEW p \in Places, NEW s \in Held,
         runner[r].at \in Held, Proceed(r, s),
         place' = [place EXCEPT ![runner[r].id] = p], UNCHANGED <<text, ledger, mixed>>,
         runner[r].id \notin mixed =>
           /\ p.table \in {Missing, text[runner[r].id]} /\ p.check \in {Missing, text[runner[r].id]}
           /\ s \in {"table", "drop", "add", "record"} => runner[r].body = runner[r].checksum
           /\ s \in {"drop", "add", "record"} => p.table = runner[r].body
           /\ s = "add" => p.check = Missing
           /\ s = "record" => p.check = runner[r].body
  PROVE  IInv'
<1> DEFINE m == runner[r].id
           x == [runner[r] EXCEPT !.at = s]
<1>0. /\ runner \in [Runner -> Runs] /\ runner[r] \in Runs /\ m \in Migration
      /\ place \in [Migration -> Places] /\ Fits(runner[r])
  BY DEF IInv, TypeOK, Runs
<1>1. /\ x \in Runs /\ x.at = s /\ x.id = m /\ x.dry = runner[r].dry
      /\ x.checksum = runner[r].checksum /\ x.body = runner[r].body
  BY <1>0 DEF Runs, Held
<1>2. runner' = [runner EXCEPT ![r] = x]  BY <1>0 DEF Proceed
<1> HIDE DEF x
<1>3. \A q \in Runner : runner'[q] = IF q = r THEN x ELSE runner[q]  BY <1>0, <1>2
<1>4. \A n \in Migration : place'[n] = IF n = m THEN p ELSE place[n]  BY <1>0
<1>5. TypeOK'  BY <1>0, <1>1, <1>2 DEF IInv, TypeOK
<1>6. m \notin mixed => ledger[m] = Missing  BY <1>0 DEF Fits
<1>7. ASSUME NEW n \in Migration PROVE OfOneText(n)' /\ InOrder(n)'
  <2>1. InOrder(n)'  BY DEF IInv, InOrder
  <2>2. CASE n = m  BY <1>4, <1>6, <2>1, <2>2 DEF OfOneText
  <2>3. CASE n # m  BY <1>4, <2>1, <2>3 DEF IInv, OfOneText
  <2> QED  BY <2>2, <2>3
<1>8. ASSUME NEW q \in Runner PROVE Fits(runner[q])'
  <2>1. CASE q = r
    <3>1. runner'[r] = x /\ place'[m] = p  BY <1>0, <1>3, <1>4
    <3>2. /\ x.at # "idle" /\ ~x.dry => \A earlier \in 1..(x.id - 1) : ledger[earlier] # Missing
          /\ ~x.dry /\ x.checksum # Missing
          /\ x.id \notin mixed /\ ledger[x.id] = Missing => x.checksum = text[x.id]
      BY <1>0, <1>1 DEF Fits, Held
    <3> QED  BY <1>1, <1>6, <2>1, <3>1, <3>2 DEF Fits, Held
  <2>2. CASE q # r /\ runner[q].id = m /\ runner[q].at \in Held
    <3>1. m \in mixed  BY <2>2 DEF IInv, OneHolder
    <3> QED  BY <1>3, <2>2, <3>1 DEF IInv, Fits
  <2>3. CASE q # r /\ ~(runner[q].id = m /\ runner[q].at \in Held)
    <3>1. Fits(runner[q]) /\ runner'[q] = runner[q] /\ runner[q].id \in Migration
      BY <1>0, <1>3, <2>3 DEF IInv, Runs
    <3>2. CASE runner[q].id # m  BY <1>4, <3>1, <3>2 DEF Fits
    <3>3. CASE runner[q].at \notin Held  BY <3>1, <3>3 DEF Fits, Held
    <3> QED  BY <2>3, <3>2, <3>3
  <2> QED  BY <2>1, <2>2, <2>3
<1>9. OneHolder'
  BY <1>1, <1>3 DEF IInv, OneHolder
<1> QED  BY <1>5, <1>7, <1>8, <1>9 DEF IInv

(* A migration is recorded: its runner was the only one, or it is mixed.    *)
LEMMA RecordStep ==
  ASSUME IInv, NEW r \in Runner, Stands(r, "record"), ledger[runner[r].id] = Missing,
         ledger' = [ledger EXCEPT ![runner[r].id] = runner[r].checksum], NextFile(r),
         UNCHANGED <<text, place, mixed>>
  PROVE  IInv'
<1> DEFINE old == runner[r]
           m   == runner[r].id
           new == NextRun(old)
<1>0. /\ runner \in [Runner -> Runs] /\ old \in Runs /\ m \in 1..Last /\ Fits(old)
      /\ ledger \in [Migration -> 0..MaxVersion] /\ old.at = "record"
  BY DEF IInv, TypeOK, Runs, Migration, Stands
<1>1. runner' = [runner EXCEPT ![r] = new]  BY DEF NextFile, NextRun
<1>2. /\ new \in Runs /\ new.at \notin Held
      /\ new.at = "idle" => new.id = 1
      /\ new.at # "idle" => new.at = "hash" /\ new.id = m + 1 /\ new.dry = old.dry
  BY <1>0, NextRunFacts
<1> HIDE DEF new
<1>3. \A q \in Runner : runner'[q] = IF q = r THEN new ELSE runner[q]  BY <1>0, <1>1
<1>4. old.checksum \in 0..MaxVersion /\ old.checksum # Missing  BY <1>0 DEF Runs, Fits, Held
<1>5. \A n \in Migration : ledger'[n] = IF n = m THEN old.checksum ELSE ledger[n]  BY <1>0
<1>6. \A n \in Migration : ledger[n] # Missing => ledger'[n] # Missing  BY <1>4, <1>5
<1>7. \A e \in 1..(m - 1) : ledger[e] # Missing  BY <1>0 DEF Fits, Held
<1>8. \A e \in 1..m : e \in Migration /\ ledger'[e] # Missing
  <2> SUFFICES ASSUME NEW e \in 1..m PROVE e \in Migration /\ ledger'[e] # Missing
    OBVIOUS
  <2>1. e \in Migration /\ m \in Migration  BY <1>0, BoundsAssumption DEF Migration
  <2>2. CASE e = m  BY <1>4, <1>5, <2>1, <2>2
  <2>3. CASE e # m
    <3>1. e \in 1..(m - 1)  BY <1>0, <2>3, BoundsAssumption
    <3> QED  BY <1>6, <1>7, <2>1, <3>1
  <2> QED  BY <2>1, <2>2, <2>3
<1>9. TypeOK'  BY <1>0, <1>1, <1>2, <1>4 DEF IInv, TypeOK
<1>10. ASSUME NEW n \in Migration PROVE OfOneText(n)' /\ InOrder(n)'
  <2>1. CASE n = m
    <3>1. m \notin mixed => place[m].table = old.checksum /\ place[m].check = old.checksum
      BY <1>0 DEF Fits
    <3>2. InOrder(n)'  BY <1>8, <2>1 DEF InOrder
    <3> QED  BY <1>4, <1>5, <2>1, <3>1, <3>2 DEF OfOneText
  <2>2. CASE n # m
    <3>1. OfOneText(n)'  BY <1>5, <2>2 DEF IInv, OfOneText
    <3>2. \A e \in 1..n : e \in Migration  BY BoundsAssumption DEF Migration
    <3>3. InOrder(n)'  BY <1>5, <1>6, <2>2, <3>2 DEF IInv, InOrder
    <3> QED  BY <3>1, <3>3
  <2> QED  BY <2>1, <2>2
<1>11. ASSUME NEW q \in Runner PROVE Fits(runner[q])'
  <2>1. CASE q = r
    <3>1. new.at # "idle" /\ ~new.dry => \A e \in 1..(new.id - 1) : ledger'[e] # Missing
      <4>1. CASE new.at # "idle"
        <5>1. new.id - 1 = m  BY <1>0, <1>2, <4>1
        <5> QED  BY <1>8, <5>1
      <4> QED  BY <4>1
    <3> QED  BY <1>2, <1>3, <2>1, <3>1 DEF Fits, Held
  <2>2. CASE q # r
    <3>0. Fits(runner[q]) /\ runner'[q] = runner[q] /\ runner[q].id \in 1..Last
      BY <1>0, <1>3, <2>2 DEF IInv, Runs, Migration
    <3>1. \A e \in 1..(runner[q].id - 1) : ledger[e] # Missing => ledger'[e] # Missing
      BY <1>6, <3>0 DEF Migration
    <3>2. runner[q].at \in Held /\ runner[q].id \notin mixed => runner[q].id # m
      BY <1>0, <2>2 DEF IInv, OneHolder, Held
    <3>3. runner[q].id # m => ledger'[runner[q].id] = ledger[runner[q].id]
      BY <1>5, <3>0 DEF Migration
    <3>4. ledger'[runner[q].id] = Missing => ledger[runner[q].id] = Missing
      BY <1>6, <3>0 DEF Migration
    <3> QED  BY <3>0, <3>1, <3>2, <3>3, <3>4 DEF Fits, Held
  <2> QED  BY <2>1, <2>2
<1>12. OneHolder'
  BY <1>2, <1>3 DEF IInv, OneHolder
<1> QED  BY <1>9, <1>10, <1>11, <1>12 DEF IInv

(* An edit meets a migration that is recorded, mixed, or not begun.         *)
LEMMA EditStep ==
  ASSUME IInv, Edit
  PROVE  IInv'
<1>1. PICK m \in Migration :
        /\ text[m] < MaxVersion
        /\ text' = [text EXCEPT ![m] = @ + 1]
        /\ mixed' = IF /\ ledger[m] = Missing
                       /\ \/ place[m] # NotMade
                          \/ \E r \in Runner : runner[r].id = m /\ runner[r].checksum # Missing
                    THEN mixed \cup {m} ELSE mixed
        /\ UNCHANGED <<place, ledger, runner>>
  BY DEF Edit
<1>2. /\ text \in [Migration -> Version] /\ runner \in [Runner -> Runs]
      /\ mixed \subseteq Migration
  BY DEF IInv, TypeOK
<1>3. mixed \subseteq mixed' /\ mixed' \subseteq mixed \cup {m}  BY <1>1
<1>4. \A n \in Migration : n # m => text'[n] = text[n]  BY <1>1, <1>2
<1>5. m \notin mixed' /\ ledger[m] = Missing =>
        place[m] = NotMade /\ \A r \in Runner : runner[r].id = m => runner[r].checksum = Missing
  BY <1>1
<1>6. TypeOK'
  <2>1. text[m] \in Version /\ text[m] + 1 \in Version
    BY <1>1, <1>2, BoundsAssumption DEF Version
  <2>2. text' \in [Migration -> Version]  BY <1>1, <1>2, <2>1
  <2> QED  BY <1>1, <1>2, <1>3, <2>2 DEF IInv, TypeOK
<1>7. ASSUME NEW n \in Migration PROVE OfOneText(n)' /\ InOrder(n)'
  <2>1. InOrder(n)'  BY <1>1 DEF IInv, InOrder
  <2>2. CASE n # m  BY <1>1, <1>3, <1>4, <2>1, <2>2 DEF IInv, OfOneText
  <2>3. CASE n = m  BY <1>1, <1>3, <1>5, <2>1, <2>3 DEF IInv, OfOneText, NotMade
  <2> QED  BY <2>2, <2>3
<1>8. ASSUME NEW q \in Runner PROVE Fits(runner[q])'
  <2>0. Fits(runner[q]) /\ runner'[q] = runner[q] /\ runner[q].id \in Migration
    BY <1>1, <1>2 DEF IInv, Runs
  <2>1. CASE runner[q].id # m  BY <1>1, <1>3, <1>4, <2>0, <2>1 DEF Fits
  <2>2. CASE runner[q].id = m  BY <1>1, <1>3, <1>5, <2>0, <2>2 DEF Fits
  <2> QED  BY <2>1, <2>2
<1>9. OneHolder'  BY <1>1, <1>3 DEF IInv, OneHolder
<1> QED  BY <1>6, <1>7, <1>8, <1>9 DEF IInv

-----------------------------------------------------------------------------
(* The theorems.                                                            *)

LEMMA InitHolds ==
  ASSUME MigrationsInit
  PROVE  IInv
<1>1. Waiting \in Runs /\ Waiting.at = "idle" /\ Waiting.id = 1
  BY BoundsAssumption DEF Waiting, Runs, Migration, Missing, Held
<1>2. TypeOK
  <2>1. NotMade \in Places /\ [table |-> 1, check |-> 1] \in Places
    BY BoundsAssumption DEF NotMade, Places, Missing
  <2>2. place \in [Migration -> Places]  BY <2>1 DEF MigrationsInit
  <2>3. text \in [Migration -> Version] /\ ledger \in [Migration -> 0..MaxVersion]
    BY BoundsAssumption DEF MigrationsInit, Version, Missing
  <2> QED  BY <1>1, <2>2, <2>3 DEF MigrationsInit, TypeOK
<1>3. ASSUME NEW m \in Migration PROVE OfOneText(m) /\ InOrder(m)
  BY DEF MigrationsInit, OfOneText, InOrder, NotMade
<1>4. ASSUME NEW r \in Runner PROVE Fits(runner[r])
  <2>1. runner[r] = Waiting  BY DEF MigrationsInit
  <2> QED  BY <1>1, <2>1 DEF Fits, Held
<1>5. OneHolder
  <2>1. \A r \in Runner : runner[r].at = "idle"  BY <1>1 DEF MigrationsInit
  <2> QED  BY <2>1 DEF OneHolder, Held
<1> QED  BY <1>2, <1>3, <1>4, <1>5 DEF IInv

LEMMA StepHolds ==
  ASSUME IInv, [MigrationsNext]_migrationVars
  PROVE  IInv'
<1>0. /\ runner \in [Runner -> Runs] /\ text \in [Migration -> Version]
      /\ place \in [Migration -> Places]
      /\ \A r \in Runner : runner[r] \in Runs /\ runner[r].id \in Migration /\ Fits(runner[r])
  BY DEF IInv, TypeOK, Runs
<1>1. ASSUME NEW r \in Runner, Begin(r) PROVE IInv'
  <2>1. PICK dry \in BOOLEAN : runner' = [runner EXCEPT ![r].at = "hash", ![r].dry = dry]
    BY <1>1 DEF Begin
  <2> DEFINE x == [runner[r] EXCEPT !.at = "hash", !.dry = dry]
  <2>2. /\ x \in Runs /\ x.at = "hash" /\ x.id = runner[r].id
    BY <1>0 DEF Runs
  <2>3. runner' = [runner EXCEPT ![r] = x]  BY <1>0, <2>1
  <2>4. x.id = 1  BY <1>0, <1>1, <2>2 DEF Begin, Stands, Fits
  <2> HIDE DEF x
  <2>5. Fits(x)  BY <2>2, <2>4 DEF Fits, Held
  <2> QED  BY <1>1, <2>2, <2>3, <2>5, MoveStep DEF Begin, Held
<1>2. ASSUME NEW r \in Runner, Hash(r) PROVE IInv'
  <2> DEFINE x == [runner[r] EXCEPT !.at = "look", !.checksum = text[runner[r].id]]
  <2>1. text[runner[r].id] \in 0..MaxVersion /\ text[runner[r].id] # Missing
    BY <1>0 DEF Version, Missing
  <2>2. /\ x \in Runs /\ x.at = "look" /\ x.id = runner[r].id /\ x.dry = runner[r].dry
        /\ x.checksum = text[x.id]
    BY <1>0, <2>1 DEF Runs
  <2>3. runner' = [runner EXCEPT ![r] = x]  BY <1>0, <1>2 DEF Hash
  <2> HIDE DEF x
  <2>4. Fits(x)  BY <1>0, <1>2, <2>1, <2>2 DEF Fits, Held, Hash, Stands
  <2> QED  BY <1>2, <2>2, <2>3, <2>4, MoveStep DEF Hash, Held
<1>3. ASSUME NEW r \in Runner, Look(r) PROVE IInv'
  <2>1. CASE /\ ledger[runner[r].id] = runner[r].checksum \/ (ledger[runner[r].id] = Missing /\ runner[r].dry)
             /\ NextFile(r) /\ UNCHANGED mixed
    <3>1. runner[r].checksum # Missing /\ runner[r].at # "idle"
      BY <1>0, <1>3 DEF Look, Stands, Fits
    <3> QED  BY <1>3, <2>1, <3>1, SkipStep DEF Look
  <2>2. CASE runner' = [runner EXCEPT ![r] = Waiting] /\ UNCHANGED mixed
    BY <1>3, <2>2, GoneStep DEF Look
  <2>3. CASE /\ ledger[runner[r].id] = Missing /\ ~runner[r].dry /\ Proceed(r, "open")
             /\ mixed' = IF Holding(runner[r].id) # {} THEN mixed \cup {runner[r].id} ELSE mixed
    BY <1>3, <2>3, OpenStep DEF Look
  <2> QED  BY <1>3, <2>1, <2>2, <2>3 DEF Look
<1>4. ASSUME NEW r \in Runner, Open(r) PROVE IInv'
  <2> DEFINE x == [runner[r] EXCEPT !.at = "table", !.body = text[runner[r].id]]
  <2>1. text[runner[r].id] \in 0..MaxVersion  BY <1>0 DEF Version
  <2>2. /\ x \in Runs /\ x.at = "table" /\ x.id = runner[r].id /\ x.dry = runner[r].dry
        /\ x.checksum = runner[r].checksum /\ x.body = text[x.id]
    BY <1>0, <2>1 DEF Runs, Held
  <2>3. runner' = [runner EXCEPT ![r] = x]  BY <1>0, <1>4 DEF Open
  <2>4. runner[r].at = "open" /\ Fits(runner[r])  BY <1>0, <1>4 DEF Open, Stands
  <2> HIDE DEF x
  <2>5. Fits(x)  BY <2>2, <2>4 DEF Fits, Held
  <2> QED  BY <1>4, <2>2, <2>3, <2>4, <2>5, MoveStep DEF Open, Held
<1>5. ASSUME NEW r \in Runner, CreateTable(r) PROVE IInv'
  <2> DEFINE m == runner[r].id
             p == [place[m] EXCEPT !.table = IF @ = Missing THEN runner[r].body ELSE @]
  <2>1. runner[r].at = "table" /\ Fits(runner[r]) /\ runner[r].body \in 0..MaxVersion
    BY <1>0, <1>5 DEF CreateTable, Stands, Runs
  <2>2. /\ p \in Places /\ p.check = place[m].check
        /\ p.table = IF place[m].table = Missing THEN runner[r].body ELSE place[m].table
    BY <1>0, <2>1 DEF Places
  <2>3. place' = [place EXCEPT ![m] = p] /\ Proceed(r, "drop")  BY <1>0, <1>5 DEF CreateTable
  <2>4. m \notin mixed => /\ p.table \in {Missing, text[m]} /\ p.check \in {Missing, text[m]}
                          /\ runner[r].body = runner[r].checksum /\ p.table = runner[r].body
    BY <1>0, <2>1, <2>2 DEF IInv, OfOneText, Fits, Held
  <2> HIDE DEF p
  <2> QED  BY <1>5, <2>1, <2>2, <2>3, <2>4, StatementStep DEF CreateTable, Held
<1>6. ASSUME NEW r \in Runner, DropCheck(r) PROVE IInv'
  <2> DEFINE m == runner[r].id
             p == [place[m] EXCEPT !.check = Missing]
  <2>1. runner[r].at = "drop" /\ Fits(runner[r])  BY <1>0, <1>6 DEF DropCheck, Stands
  <2>2. p \in Places /\ p.check = Missing /\ p.table = place[m].table
    BY <1>0, BoundsAssumption DEF Places, Missing
  <2>3. place' = [place EXCEPT ![m] = p] /\ Proceed(r, "add")  BY <1>0, <1>6 DEF DropCheck
  <2>4. m \notin mixed => /\ p.table \in {Missing, text[m]}
                          /\ runner[r].body = runner[r].checksum /\ p.table = runner[r].body
    BY <1>0, <2>1, <2>2 DEF IInv, OfOneText, Fits, Held
  <2> HIDE DEF p
  <2> QED  BY <1>6, <2>1, <2>2, <2>3, <2>4, StatementStep DEF DropCheck, Held
<1>7. ASSUME NEW r \in Runner, AddCheck(r) PROVE IInv'
  <2> DEFINE m == runner[r].id
             p == [place[m] EXCEPT !.check = runner[r].body]
  <2>1. runner[r].at = "add" /\ Fits(runner[r]) /\ runner[r].body \in 0..MaxVersion
    BY <1>0, <1>7 DEF AddCheck, Stands, Runs
  <2>2. CASE place[m].check = Missing
    <3>1. p \in Places /\ p.check = runner[r].body /\ p.table = place[m].table
      BY <1>0, <2>1 DEF Places
    <3>2. place' = [place EXCEPT ![m] = p] /\ Proceed(r, "record")
      BY <1>0, <1>7, <2>2 DEF AddCheck
    <3>3. m \notin mixed => /\ p.table \in {Missing, text[m]} /\ p.check \in {Missing, text[m]}
                            /\ runner[r].body = runner[r].checksum /\ p.table = runner[r].body
      BY <1>0, <2>1, <3>1 DEF IInv, OfOneText, Fits, Held
    <3> HIDE DEF p
    <3> QED  BY <1>7, <2>1, <3>1, <3>2, <3>3, StatementStep DEF AddCheck, Held
  <2>3. CASE place[m].check # Missing
    BY <1>7, <2>3, GoneStep DEF AddCheck
  <2> QED  BY <2>2, <2>3
<1>8. ASSUME NEW r \in Runner, Record(r) PROVE IInv'
  <2>1. CASE ledger[runner[r].id] = Missing
    BY <1>8, <2>1, RecordStep DEF Record
  <2>2. CASE ledger[runner[r].id] # Missing
    BY <1>8, <2>2, GoneStep DEF Record
  <2> QED  BY <2>1, <2>2
<1>9. ASSUME NEW r \in Runner, RunnerFails(r) PROVE IInv'
  BY <1>9, GoneStep DEF RunnerFails
<1>10. CASE Edit
  BY <1>10, EditStep
<1>11. CASE UNCHANGED migrationVars
  BY <1>11 DEF migrationVars, IInv, TypeOK, OfOneText, InOrder, Fits, OneHolder
<1> QED  BY <1>1, <1>2, <1>3, <1>4, <1>5, <1>6, <1>7, <1>8, <1>9, <1>10, <1>11 DEF MigrationsNext

LEMMA InvariantGives ==
  ASSUME IInv
  PROVE  RecordedIsInPlace
<1> SUFFICES ASSUME NEW m \in Migration, ledger[m] # Missing
             PROVE  /\ m \notin mixed => place[m] = [table |-> ledger[m], check |-> ledger[m]]
                    /\ \A earlier \in 1..m : ledger[earlier] # Missing
  BY DEF RecordedIsInPlace
<1>1. place[m] \in Places /\ OfOneText(m) /\ InOrder(m)  BY DEF IInv, TypeOK
<1>2. place[m] = [table |-> place[m].table, check |-> place[m].check]  BY <1>1 DEF Places
<1> QED  BY <1>1, <1>2 DEF OfOneText, InOrder

(* The invariant holds for any number of migrations, runners and versions   *)
(* (apply_migrations, record_migration).                                    *)
THEOREM MigrationsInvariant == MigrationsSpec => []IInv
<1>1. MigrationsInit => IInv  BY InitHolds
<1>2. IInv /\ [MigrationsNext]_migrationVars => IInv'  BY StepHolds
<1> QED  BY <1>1, <1>2, PTL DEF MigrationsSpec

(* What the ledger records is in place in the version whose checksum it     *)
(* has, except for migrations that are mixed: two runners executed them at  *)
(* once, or their file was edited after a part of it had run.  Everything   *)
(* before a recorded migration is recorded too, mixed or not.               *)
THEOREM RecordedStaysInPlace == MigrationsSpec => []RecordedIsInPlace
<1>1. IInv => RecordedIsInPlace  BY InvariantGives
<1> QED  BY <1>1, MigrationsInvariant, PTL

-----------------------------------------------------------------------------
(***************************************************************************)
(* The evidence ledger (WlcEvidence).                                       *)
(***************************************************************************)

Saveable == Transcript \cup {NoTranscript}
Loading  == {Unknown, TRUE, FALSE}
Verdicts == {"none", "baseline_success", "membership_failure", "media_degraded",
             "inconclusive, medium", "inconclusive"}
Result   == Audio \cup {"unknown", "none"}

Report == [ok : BOOLEAN, audio : Result, verdict : Verdicts, findings : SUBSET Finding,
           cli : [Phase -> Saveable], evidence : Saveable, loaded : Loading]

EvidenceTypeOK ==
  /\ package \in [Attempt -> [audio : Result, cli : [Phase -> Saveable],
                              pcap : {"missing", "valid", "foreign"}]]
  /\ attemptRow \in [Attempt -> Report]
  /\ finding \in [Finding -> Attempt \cup {NoBody}]
  /\ import \in [Attempt -> [stage : {"idle", "load", "report"}, report : Report]]

\* A report whose verdict and findings are about the same evidence.
ReportIsSound(r) ==
  /\ r.verdict = "membership_failure" =>
       r.audio = "missed" /\ "membership_missing" \in r.findings /\ r.evidence.group
  /\ r.verdict = "media_degraded" => "capture_container_valid" \in r.findings
  /\ r.verdict = "baseline_success" <=> r.audio = "heard"
  /\ r.cli["during"] # NoTranscript => r.evidence = r.cli["during"]

FindingsAreOfTheRow(a) == FindingsOf(a) = attemptRow[a].findings

EvidenceInv ==
  /\ EvidenceTypeOK
  /\ \A a \in Attempt :
       ReportIsSound(attemptRow[a]) /\ ReportIsSound(import[a].report) /\ FindingsAreOfTheRow(a)

LEMMA NoReportFacts == NoReport \in Report /\ ReportIsSound(NoReport) /\ NoReport.findings = {}
<1> DEFINE none == [p \in Phase |-> NoTranscript]
<1>1. none \in [Phase -> Saveable] /\ none["during"] = NoTranscript
  BY DEF Saveable, Phase
<1>2. NoReport = [ok |-> FALSE, audio |-> "none", verdict |-> "none", findings |-> {},
                  cli |-> none, evidence |-> NoTranscript, loaded |-> Unknown]
  BY DEF NoReport
<1> HIDE DEF none
<1>3. /\ NoTranscript \in Saveable /\ Unknown \in Loading
      /\ "none" \in Result /\ "none" \in Verdicts
  BY DEF Saveable, Loading, Result, Verdicts
<1>4. NoReport \in Report
  BY <1>1, <1>2, <1>3 DEF Report
<1>5. /\ NoReport.verdict = "none" /\ NoReport.audio = "none" /\ NoReport.findings = {}
      /\ NoReport.cli["during"] = NoTranscript
  BY <1>1, <1>2
<1>6. ReportIsSound(NoReport)
  BY <1>5 DEF ReportIsSound
<1> QED BY <1>4, <1>5, <1>6

LEMMA EvidenceInitOK == EvidenceInit => EvidenceInv
<1> SUFFICES ASSUME EvidenceInit PROVE EvidenceInv
  OBVIOUS
<1> USE DEF EvidenceInit
<1>1. attemptRow = [a \in Attempt |-> NoReport] /\ \A a \in Attempt : attemptRow[a] = NoReport
  OBVIOUS
<1>2. \A a \in Attempt : import[a].report = NoReport /\ import[a].stage = "idle"
  BY DEF NoImport
<1>3. import \in [Attempt -> [stage : {"idle", "load", "report"}, report : Report]]
  BY NoReportFacts DEF NoImport
<1>4. package \in [Attempt -> [audio : Result, cli : [Phase -> Saveable],
                               pcap : {"missing", "valid", "foreign"}]]
  BY DEF Saveable, Result
<1>5. EvidenceTypeOK
  BY <1>1, <1>3, <1>4, NoReportFacts DEF EvidenceTypeOK
<1>6. \A a \in Attempt : FindingsAreOfTheRow(a)
  BY <1>1, NoReportFacts, AttemptAssumption DEF FindingsAreOfTheRow, FindingsOf
<1> QED BY <1>1, <1>2, <1>5, <1>6, NoReportFacts DEF EvidenceInv

\* Every report that is built is sound: the transcript it judges is that of the
\* broadcast where one was saved, and its findings are those of that transcript.
LEMMA BuiltReport ==
  ASSUME EvidenceTypeOK, NEW a \in Attempt, NEW r \in build_report(a, Unknown)
  PROVE  r \in Report /\ ReportIsSound(r)
<1> DEFINE p == package[a]
           pcap == p.pcap = "valid"
           best == IF Saved(p) = {} THEN {NoTranscript} ELSE _best_snapshot(p)
<1>1. PICK t \in best :
        r = [ok |-> Saved(p) = Phase /\ p.pcap # "missing", audio |-> p.audio,
             verdict |-> Verdict(p.audio, t, pcap), findings |-> Findings(t, pcap),
             cli |-> p.cli, evidence |-> t, loaded |-> Unknown]
  BY DEF build_report, Complete, ValidContainer
<1>2. p \in [audio : Result, cli : [Phase -> Saveable], pcap : {"missing", "valid", "foreign"}]
  BY DEF EvidenceTypeOK
<1>3. p.audio \in Result /\ p.cli \in [Phase -> Saveable]
  BY <1>2
<1>4. t \in Saveable
  BY <1>3 DEF _best_snapshot, Saved, Saveable, Phase
<1>5. p.cli["during"] # NoTranscript => t = p.cli["during"]
  BY DEF _best_snapshot, Saved, Phase
<1> HIDE DEF p, pcap, best
<1>6. Verdict(p.audio, t, pcap) \in Verdicts
  BY DEF Verdict, Verdicts
<1>7. Findings(t, pcap) \in SUBSET Finding
  BY DEF Findings
<1>8. /\ r.audio = p.audio /\ r.verdict = Verdict(p.audio, t, pcap) /\ r.findings = Findings(t, pcap)
      /\ r.cli = p.cli /\ r.evidence = t
  BY <1>1
<1>9. r \in Report
  <2>1. (Saved(p) = Phase /\ p.pcap # "missing") \in BOOLEAN /\ Unknown \in Loading
    BY DEF Loading
  <2> QED BY <1>1, <1>3, <1>4, <1>6, <1>7, <2>1 DEF Report
<1>10. Verdict(p.audio, t, pcap) = "membership_failure" =>
         p.audio = "missed" /\ "membership_missing" \in Findings(t, pcap) /\ t.group
  BY DEF Verdict, Findings, Finding
<1>11. Verdict(p.audio, t, pcap) = "media_degraded" => "capture_container_valid" \in Findings(t, pcap)
  BY DEF Verdict, Findings, Finding
<1>12. Verdict(p.audio, t, pcap) = "baseline_success" <=> p.audio = "heard"
  BY DEF Verdict
<1> QED BY <1>5, <1>8, <1>9, <1>10, <1>11, <1>12 DEF ReportIsSound

LEMMA ChangeOK ==
  ASSUME EvidenceInv, NEW a \in Attempt, RecordResult(a) \/ SaveTranscript(a) \/ CopyCapture(a)
  PROVE  EvidenceInv'
<1> DEFINE Package == [audio : Result, cli : [Phase -> Saveable], pcap : {"missing", "valid", "foreign"}]
<1>1. package \in [Attempt -> Package]
  BY DEF EvidenceInv, EvidenceTypeOK
<1>2. PICK to \in Package : Change(a, to)
  <2> DEFINE old == package[a]
  <2>1. old \in Package
    BY <1>1
  <2>2. CASE RecordResult(a)
    <3>1. PICK r \in Audio : Change(a, [old EXCEPT !.audio = r])
      BY <2>2 DEF RecordResult
    <3> HIDE DEF old
    <3> QED BY <2>1, <3>1 DEF Result
  <2>3. CASE SaveTranscript(a)
    <3>1. PICK p \in Phase, t \in Transcript : Change(a, [old EXCEPT !.cli[p] = t])
      BY <2>3 DEF SaveTranscript
    <3>2. [old.cli EXCEPT ![p] = t] \in [Phase -> Saveable]
      BY <2>1 DEF Saveable
    <3> HIDE DEF old
    <3>3. [old EXCEPT !.cli[p] = t] = [old EXCEPT !.cli = [old.cli EXCEPT ![p] = t]]
      BY <2>1
    <3>4. [old EXCEPT !.cli = [old.cli EXCEPT ![p] = t]] \in Package
      <4> DEFINE c == [old.cli EXCEPT ![p] = t]
      <4> HIDE DEF c
      <4> QED BY <2>1, <3>2 DEF c
    <3> QED BY <3>1, <3>3, <3>4
  <2>4. CASE CopyCapture(a)
    <3>1. PICK c \in {"valid", "foreign"} : Change(a, [old EXCEPT !.pcap = c])
      BY <2>4 DEF CopyCapture
    <3> HIDE DEF old
    <3> QED BY <2>1, <3>1
  <2> QED BY <2>2, <2>3, <2>4
<1>3. /\ package' = [package EXCEPT ![a] = to]
      /\ UNCHANGED <<attemptRow, finding, import>>
  BY <1>2 DEF Change
<1>4. EvidenceTypeOK'
  BY <1>1, <1>3 DEF EvidenceInv, EvidenceTypeOK
<1> QED BY <1>3, <1>4 DEF EvidenceInv, FindingsAreOfTheRow, FindingsOf, ReportIsSound

\* A step that touches no row and gives an import at most a sound report.
LEMMA ImportStep ==
  ASSUME EvidenceInv, NEW a \in Attempt, UNCHANGED <<package, attemptRow, finding>>,
         NEW stage \in {"idle", "load", "report"}, NEW r \in Report, ReportIsSound(r),
         import' = [import EXCEPT ![a] = [stage |-> stage, report |-> r]]
  PROVE  EvidenceInv'
<1>1. import \in [Attempt -> [stage : {"idle", "load", "report"}, report : Report]]
  BY DEF EvidenceInv, EvidenceTypeOK
<1>2. EvidenceTypeOK'
  BY <1>1 DEF EvidenceInv, EvidenceTypeOK
<1>3. \A b \in Attempt : import'[b].report = IF b = a THEN r ELSE import[b].report
  BY <1>1
<1>4. \A b \in Attempt : ReportIsSound(import'[b].report)
  BY <1>3 DEF EvidenceInv
<1> QED BY <1>2, <1>4 DEF EvidenceInv, FindingsAreOfTheRow, FindingsOf

LEMMA BeginsOK ==
  ASSUME EvidenceInv, NEW a \in Attempt, IngestBegins(a)
  PROVE  EvidenceInv'
<1>1. PICK r \in build_report(a, Unknown) :
        import' = [import EXCEPT ![a] = [stage |-> "load", report |-> r]]
  BY DEF IngestBegins
<1>2. r \in Report /\ ReportIsSound(r)
  BY BuiltReport DEF EvidenceInv
<1> QED BY <1>1, <1>2, ImportStep DEF IngestBegins

LEMMA ImportFacts ==
  ASSUME EvidenceInv, NEW a \in Attempt
  PROVE  import[a].report \in Report /\ ReportIsSound(import[a].report)
BY DEF EvidenceInv, EvidenceTypeOK

\* Marking a report as loaded or not leaves what it says.
LEMMA MarkedReport ==
  ASSUME NEW r \in Report, ReportIsSound(r), NEW yes \in BOOLEAN
  PROVE  [r EXCEPT !.loaded = yes] \in Report /\ ReportIsSound([r EXCEPT !.loaded = yes])
<1> DEFINE new == [r EXCEPT !.loaded = yes]
<1>1. /\ new \in Report /\ new.verdict = r.verdict /\ new.audio = r.audio /\ new.findings = r.findings
      /\ new.evidence = r.evidence /\ new.cli = r.cli
  BY DEF Report, Loading
<1> HIDE DEF new
<1>2. ReportIsSound(new)
  BY <1>1 DEF ReportIsSound
<1> QED BY <1>1, <1>2 DEF new

LEMMA LoadedFacts ==
  ASSUME EvidenceInv, NEW a \in Attempt, NEW yes \in BOOLEAN, Loaded(a, yes)
  PROVE  \E r \in Report : /\ ReportIsSound(r)
                           /\ import' = [import EXCEPT ![a] = [stage |-> "report", report |-> r]]
<1> DEFINE new == [import[a].report EXCEPT !.loaded = yes]
<1>1. import' = [import EXCEPT ![a] = [stage |-> "report", report |-> new]]
  BY DEF Loaded, EvidenceInv, EvidenceTypeOK
<1>2. new \in Report /\ ReportIsSound(new)
  BY ImportFacts, MarkedReport
<1> HIDE DEF new
<1> QED BY <1>1, <1>2

LEMMA AbandonOK ==
  ASSUME EvidenceInv, NEW a \in Attempt, Abandon(a), UNCHANGED <<package, attemptRow, finding>>
  PROVE  EvidenceInv'
BY NoReportFacts, ImportStep DEF Abandon, NoImport

LEMMA NoDatabaseOK ==
  ASSUME EvidenceInv, NEW a \in Attempt, NoDatabase(a)
  PROVE  EvidenceInv'
<1>1. UNCHANGED <<package, attemptRow, finding>>
  BY DEF NoDatabase
<1>2. CASE Loaded(a, FALSE)
  BY <1>1, <1>2, LoadedFacts, ImportStep
<1>3. CASE Abandon(a)
  BY <1>1, <1>3, AbandonOK
<1> QED BY <1>2, <1>3 DEF NoDatabase

LEMMA LoadOK ==
  ASSUME EvidenceInv, NEW a \in Attempt, Load(a)
  PROVE  EvidenceInv'
<1> DEFINE r == import[a].report
<1>1. CASE Taken(a, r) # {}
  BY <1>1, AbandonOK DEF Load
<1>2. CASE Taken(a, r) = {}
  <2>1. /\ attemptRow' = [attemptRow EXCEPT ![a] = r] /\ finding' = Replaced(a, r)
        /\ Loaded(a, TRUE) /\ UNCHANGED package
    BY <1>2 DEF Load
  <2>2. r \in Report /\ ReportIsSound(r) /\ r.findings \subseteq Finding
    BY ImportFacts DEF Report
  <2>3. PICK m \in Report : /\ ReportIsSound(m)
                            /\ import' = [import EXCEPT ![a] = [stage |-> "report", report |-> m]]
    BY <2>1, LoadedFacts
  <2> HIDE DEF r
  <2>4. /\ import \in [Attempt -> [stage : {"idle", "load", "report"}, report : Report]]
        /\ attemptRow \in [Attempt -> Report] /\ finding \in [Finding -> Attempt \cup {NoBody}]
    BY DEF EvidenceInv, EvidenceTypeOK
  <2>5. import' \in [Attempt -> [stage : {"idle", "load", "report"}, report : Report]]
    BY <2>3, <2>4
  <2>6. \A b \in Attempt : import'[b].report = IF b = a THEN m ELSE import[b].report
    BY <2>3, <2>4
  <2>7. /\ attemptRow' \in [Attempt -> Report]
        /\ \A b \in Attempt : attemptRow'[b] = IF b = a THEN r ELSE attemptRow[b]
    BY <2>1, <2>2, <2>4
  <2>8. finding' \in [Finding -> Attempt \cup {NoBody}]
    BY <2>1, <2>4 DEF Replaced
  <2>9. \A f \in Finding : finding'[f] = IF f \in r.findings THEN a
                                         ELSE IF finding[f] = a THEN NoBody ELSE finding[f]
    BY <2>1 DEF Replaced
  <2>10. \A f \in r.findings : finding[f] \in {NoBody, a}
    BY <1>2 DEF Taken, r
  <2>11. ASSUME NEW b \in Attempt PROVE FindingsAreOfTheRow(b)'
    <3>1. CASE b = a
      <4>1. FindingsOf(b)' = r.findings
        BY <2>2, <2>9, <3>1, AttemptAssumption DEF FindingsOf
      <4> QED BY <2>7, <3>1, <4>1 DEF FindingsAreOfTheRow
    <3>2. CASE b # a
      <4>1. FindingsOf(b)' = FindingsOf(b)
        BY <2>2, <2>9, <2>10, <3>2, AttemptAssumption DEF FindingsOf
      <4>2. FindingsAreOfTheRow(b)
        BY DEF EvidenceInv
      <4> QED BY <2>7, <3>2, <4>1, <4>2 DEF FindingsAreOfTheRow
    <3> QED BY <3>1, <3>2
  <2>12. \A b \in Attempt : ReportIsSound(attemptRow'[b]) /\ ReportIsSound(import'[b].report)
    BY <2>2, <2>3, <2>6, <2>7 DEF EvidenceInv
  <2>13. EvidenceTypeOK'
    BY <2>1, <2>5, <2>7, <2>8 DEF EvidenceInv, EvidenceTypeOK
  <2> QED BY <2>11, <2>12, <2>13 DEF EvidenceInv
<1> QED BY <1>1, <1>2

LEMMA EvidenceStep == EvidenceInv /\ [EvidenceNext]_evidenceVars => EvidenceInv'
<1> SUFFICES ASSUME EvidenceInv, [EvidenceNext]_evidenceVars PROVE EvidenceInv'
  OBVIOUS
<1>1. ASSUME UNCHANGED <<package, attemptRow, finding, import>> PROVE EvidenceInv'
  BY <1>1 DEF EvidenceInv, EvidenceTypeOK, FindingsAreOfTheRow, FindingsOf
<1>2. ASSUME NEW a \in Attempt, Validate(a) PROVE EvidenceInv'
  BY <1>1, <1>2 DEF Validate
<1>3. ASSUME NEW a \in Attempt, WriteReport(a) PROVE EvidenceInv'
  BY <1>3, AbandonOK DEF WriteReport
<1>4. CASE UNCHANGED evidenceVars
  BY <1>1, <1>4 DEF evidenceVars
<1> QED BY <1>2, <1>3, <1>4, ChangeOK, BeginsOK, LoadOK, NoDatabaseOK DEF EvidenceNext

\* What the ledger says of an attempt is one report, also when imports of several
\* attempts follow one another and some are refused (emit_attempt_sql, compute_verdict).
THEOREM RowsAreOfOneReport == EvidenceSpec => []LedgerIsOneReport
<1>1. EvidenceInv => LedgerIsOneReport
  BY DEF EvidenceInv, LedgerIsOneReport, ReportIsSound, FindingsAreOfTheRow
<1> QED BY <1>1, EvidenceInitOK, EvidenceStep, PTL DEF EvidenceSpec

-----------------------------------------------------------------------------
(***************************************************************************)
(* The badge collector (BadgeCollection).                                   *)
(***************************************************************************)

Job == [at : Nat, from : {"none", "prometheus", "sqlite", "seed"},
        left : SUBSET Badge, got : SUBSET Badge]

BadgesTypeOK ==
  /\ now \in Nat \ {0} /\ onAir \in SUBSET Badge
  /\ job \in Job /\ raw \in [at : Nat, got : SUBSET Badge]
  /\ history \in SUBSET [badge : Badge, at : Nat]
  /\ answered \in [Badge -> Nat]

\* A job is of the past, and no badge has answered a later one.
JobIsTheLast ==
  /\ job.at <= now /\ \A b \in Badge : answered[b] <= now
  /\ job # NoJob => job.at # 0 /\ \A b \in Badge : answered[b] <= job.at
  /\ \A b \in job.got : answered[b] = job.at /\ job.at # 0
  /\ job.left # {} => job.at # 0

RawIsAnswered == \A b \in raw.got : raw.at # 0 /\ raw.at <= answered[b]

HistoryIsAnswered == \A r \in history : r.at # 0 /\ r.at <= answered[r.badge]

BadgesInv == BadgesTypeOK /\ JobIsTheLast /\ RawIsAnswered /\ HistoryIsAnswered /\ FallbackIsRecent

LEMMA BadgesInitOK == BadgesInit => BadgesInv
<1> SUFFICES ASSUME BadgesInit PROVE BadgesInv
  OBVIOUS
<1> USE DEF BadgesInit, NoJob, NoRaw
<1>1. BadgesTypeOK
  BY DEF BadgesTypeOK, Job
<1>2. JobIsTheLast /\ RawIsAnswered /\ HistoryIsAnswered /\ FallbackIsRecent
  BY DEF JobIsTheLast, RawIsAnswered, HistoryIsAnswered, FallbackIsRecent
<1> QED BY <1>1, <1>2 DEF BadgesInv

\* What a discovery chooses: from the history only badges that answered in the window.
LEMMA DiscoverFacts ==
  ASSUME BadgesInv, Discover
  PROVE  /\ job = NoJob
         /\ UNCHANGED <<now, onAir, metrics, raw, history, answered>>
         /\ \E from \in {"prometheus", "sqlite", "seed"}, macs \in SUBSET Badge :
              /\ job' = [at |-> now, from |-> from, left |-> macs, got |-> {}]
              /\ from = "sqlite" => \A b \in macs : \E r \in history : r.badge = b /\ r.at + Window >= now
<1> DEFINE live == _active_macs_from_prometheus
           old  == _active_macs_from_sqlite
           seed == resolve_badge_macs
           seen == {r.badge : r \in {x \in history : x.at + Window >= now}} \cap Allowed
<1>1. job = NoJob /\ UNCHANGED <<now, onAir, metrics, raw, history, answered>>
  BY DEF Discover
<1>2. \/ \E m \in live : ChosenMacs("prometheus", m)
      \/ \E m \in old : ChosenMacs("sqlite", m)
      \/ \E m \in Some(seed) : ChosenMacs("seed", m)
  BY DEF Discover, _resolve_collection_macs
<1>3. live \subseteq SUBSET Badge
  BY DEF _active_macs_from_prometheus, Some, BadgesInv, BadgesTypeOK
<1>4. seen \subseteq Badge
  BY DEF BadgesInv, BadgesTypeOK
<1>5. old \subseteq SUBSET seen
  BY DEF _active_macs_from_sqlite, Some
<1>6. \A b \in seen : \E r \in history : r.badge = b /\ r.at + Window >= now
  OBVIOUS
<1>7. Some(seed) \subseteq SUBSET Badge
  BY BadgeAssumption DEF Some, resolve_badge_macs
<1> HIDE DEF live, old, seed, seen
<1>8. CASE \E m \in live : ChosenMacs("prometheus", m)
  BY <1>1, <1>3, <1>8 DEF ChosenMacs
<1>9. CASE \E m \in old : ChosenMacs("sqlite", m)
  <2>1. PICK m \in old : ChosenMacs("sqlite", m)
    BY <1>9
  <2>2. m \in SUBSET Badge /\ \A b \in m : \E r \in history : r.badge = b /\ r.at + Window >= now
    BY <1>4, <1>5, <1>6
  <2> QED BY <1>1, <2>1, <2>2 DEF ChosenMacs
<1>10. CASE \E m \in Some(seed) : ChosenMacs("seed", m)
  BY <1>1, <1>7, <1>10 DEF ChosenMacs
<1> QED BY <1>2, <1>8, <1>9, <1>10

LEMMA DiscoverOK ==
  ASSUME BadgesInv, Discover
  PROVE  BadgesInv'
<1> USE DEF BadgesInv
<1>1. PICK from \in {"prometheus", "sqlite", "seed"}, macs \in SUBSET Badge :
        /\ job' = [at |-> now, from |-> from, left |-> macs, got |-> {}]
        /\ from = "sqlite" => \A b \in macs : \E r \in history : r.badge = b /\ r.at + Window >= now
  BY DiscoverFacts
<1>2. UNCHANGED <<now, onAir, metrics, raw, history, answered>>
  BY DiscoverFacts
<1>3. job'.at = now /\ job'.from = from /\ job'.left = macs /\ job'.got = {} /\ job' \in Job
  BY <1>1 DEF BadgesTypeOK, Job
<1>4. BadgesTypeOK'
  BY <1>2, <1>3 DEF BadgesTypeOK
<1>5. JobIsTheLast'
  BY <1>2, <1>3 DEF JobIsTheLast, BadgesTypeOK
<1>6. RawIsAnswered' /\ HistoryIsAnswered'
  BY <1>2 DEF RawIsAnswered, HistoryIsAnswered
<1>7. ASSUME from = "sqlite", NEW b \in macs PROVE answered[b] # 0 /\ answered[b] + Window >= now
  <2>1. PICK r \in history : r.badge = b /\ r.at + Window >= now
    BY <1>1, <1>7
  <2>2. r.at \in Nat /\ r.at # 0 /\ r.at <= answered[b] /\ answered[b] \in Nat /\ now \in Nat
    BY <2>1 DEF BadgesTypeOK, HistoryIsAnswered
  <2> QED BY <2>1, <2>2, BadgeAssumption
<1>8. FallbackIsRecent'
  BY <1>2, <1>3, <1>7 DEF FallbackIsRecent
<1> QED BY <1>4, <1>5, <1>6, <1>8

LEMMA AskOK ==
  ASSUME BadgesInv, Ask
  PROVE  BadgesInv'
<1> USE DEF BadgesInv
<1>1. PICK b \in job.left :
        /\ \/ /\ job' = [job EXCEPT !.left = @ \ {b}, !.got = @ \cup {b}]
              /\ answered' = [answered EXCEPT ![b] = job.at]
           \/ job' = [job EXCEPT !.left = @ \ {b}] /\ UNCHANGED answered
        /\ UNCHANGED <<now, onAir, metrics, raw, history>>
  BY DEF Ask
<1>2. /\ job \in Job /\ job.at \in Nat /\ job.left \in SUBSET Badge /\ job.got \in SUBSET Badge
      /\ answered \in [Badge -> Nat] /\ b \in Badge /\ job # NoJob /\ job.at # 0
  BY DEF BadgesTypeOK, Job, NoJob, JobIsTheLast
<1> DEFINE mid == [job EXCEPT !.left = @ \ {b}]
<1>3. /\ mid \in Job /\ mid.at = job.at /\ mid.from = job.from /\ mid.left = job.left \ {b}
      /\ mid.got = job.got
  BY <1>2 DEF Job
<1>4. /\ job' \in Job /\ job'.at = job.at /\ job'.from = job.from /\ job'.left = job.left \ {b}
      /\ \/ job'.got = job.got \cup {b} /\ answered' = [answered EXCEPT ![b] = job.at]
         \/ job'.got = job.got /\ answered' = answered
  <2>1. CASE job' = [job EXCEPT !.left = @ \ {b}] /\ UNCHANGED answered
    BY <1>3, <2>1
  <2>2. CASE /\ job' = [job EXCEPT !.left = @ \ {b}, !.got = @ \cup {b}]
             /\ answered' = [answered EXCEPT ![b] = job.at]
    <3>1. job' = [mid EXCEPT !.got = job.got \cup {b}]
      BY <2>2
    <3>2. job.got \cup {b} \in SUBSET Badge
      BY <1>2
    <3> HIDE DEF mid
    <3> QED BY <1>3, <2>2, <3>1, <3>2 DEF Job
  <2> QED BY <1>1, <2>1, <2>2
<1>5. \A x \in Badge : answered'[x] = answered[x] \/ (x = b /\ answered'[x] = job.at)
  BY <1>2, <1>4
<1>6. \A x \in Badge : answered[x] <= job.at /\ answered[x] \in Nat
  BY <1>2 DEF JobIsTheLast
<1>7. answered' \in [Badge -> Nat] /\ \A x \in Badge : answered[x] <= answered'[x] /\ answered'[x] <= job.at
  BY <1>2, <1>4, <1>5, <1>6
<1>8. BadgesTypeOK'
  BY <1>1, <1>4, <1>7 DEF BadgesTypeOK
<1>9. JobIsTheLast'
  <2>1. \A x \in job'.got : answered'[x] = job.at
    BY <1>2, <1>4, <1>5 DEF JobIsTheLast
  <2>2. \A x \in Badge : answered'[x] <= now
    BY <1>1, <1>2, <1>7 DEF JobIsTheLast, BadgesTypeOK
  <2> QED BY <1>1, <1>2, <1>4, <1>7, <2>1, <2>2 DEF JobIsTheLast
<1>10. RawIsAnswered'
  <2> SUFFICES ASSUME NEW x \in raw.got PROVE raw.at # 0 /\ raw.at <= answered'[x]
    BY <1>1 DEF RawIsAnswered
  <2>1. x \in Badge /\ raw.at \in Nat /\ raw.at # 0 /\ raw.at <= answered[x]
    BY DEF BadgesTypeOK, RawIsAnswered
  <2> QED BY <1>6, <1>7, <2>1
<1>11. HistoryIsAnswered'
  <2> SUFFICES ASSUME NEW r \in history PROVE r.at # 0 /\ r.at <= answered'[r.badge]
    BY <1>1 DEF HistoryIsAnswered
  <2>1. r.badge \in Badge /\ r.at \in Nat /\ r.at # 0 /\ r.at <= answered[r.badge]
    BY DEF BadgesTypeOK, HistoryIsAnswered
  <2> QED BY <1>6, <1>7, <2>1
<1>12. FallbackIsRecent'
  <2> SUFFICES ASSUME job.from = "sqlite", NEW x \in job.left \cup job.got
               PROVE  answered'[x] # 0 /\ answered'[x] + Window >= job.at
    BY <1>2, <1>4 DEF FallbackIsRecent
  <2>1. x \in Badge /\ answered[x] # 0 /\ answered[x] + Window >= job.at
    BY <1>2 DEF FallbackIsRecent
  <2> QED BY <1>2, <1>6, <1>7, <2>1, BadgeAssumption
<1> QED BY <1>8, <1>9, <1>10, <1>11, <1>12

LEMMA WriteRawOK ==
  ASSUME BadgesInv, WriteRaw
  PROVE  BadgesInv'
<1> USE DEF BadgesInv
<1>1. /\ raw' = [at |-> job.at, got |-> job.got] /\ job' = NoJob
      /\ UNCHANGED <<now, onAir, metrics, history, answered>>
  BY DEF WriteRaw
<1>2. job.at \in Nat /\ job.got \in SUBSET Badge
  BY DEF BadgesTypeOK, Job
<1>3. BadgesTypeOK'
  BY <1>1, <1>2 DEF BadgesTypeOK, Job, NoJob
<1>4. JobIsTheLast' /\ HistoryIsAnswered' /\ FallbackIsRecent'
  BY <1>1 DEF JobIsTheLast, HistoryIsAnswered, FallbackIsRecent, NoJob, BadgesTypeOK
<1>5. RawIsAnswered'
  BY <1>1, <1>2 DEF RawIsAnswered, JobIsTheLast
<1> QED BY <1>3, <1>4, <1>5

LEMMA ParseBadgesOK ==
  ASSUME BadgesInv, ParseBadges
  PROVE  BadgesInv'
<1> USE DEF BadgesInv
<1>1. /\ history' = history \cup {[badge |-> b, at |-> raw.at] : b \in raw.got}
      /\ UNCHANGED <<now, onAir, metrics, job, raw, answered>>
  BY DEF ParseBadges, parse_badge_client_raw
<1>2. raw.at \in Nat /\ raw.got \in SUBSET Badge
  BY DEF BadgesTypeOK
<1>3. BadgesTypeOK'
  BY <1>1, <1>2 DEF BadgesTypeOK
<1>4. JobIsTheLast' /\ RawIsAnswered' /\ FallbackIsRecent'
  BY <1>1 DEF JobIsTheLast, RawIsAnswered, FallbackIsRecent
<1>5. HistoryIsAnswered'
  BY <1>1 DEF HistoryIsAnswered, RawIsAnswered
<1> QED BY <1>3, <1>4, <1>5

LEMMA TickOK ==
  ASSUME BadgesInv, Tick
  PROVE  BadgesInv'
<1> USE DEF BadgesInv
<1>1. /\ now' = now + 1 /\ onAir' \in SUBSET Badge
      /\ UNCHANGED <<job, raw, history, answered>>
  BY DEF Tick
<1>2. BadgesTypeOK'
  BY <1>1 DEF BadgesTypeOK
<1>3. JobIsTheLast'
  <2>1. now \in Nat /\ job.at \in Nat /\ \A b \in Badge : answered[b] \in Nat
    BY DEF BadgesTypeOK, Job
  <2> QED BY <1>1, <2>1 DEF JobIsTheLast
<1>4. RawIsAnswered' /\ HistoryIsAnswered' /\ FallbackIsRecent'
  BY <1>1 DEF RawIsAnswered, HistoryIsAnswered, FallbackIsRecent
<1> QED BY <1>2, <1>3, <1>4

LEMMA BadgesStep == BadgesInv /\ [BadgesNext]_badgeVars => BadgesInv'
<1> SUFFICES ASSUME BadgesInv, [BadgesNext]_badgeVars PROVE BadgesInv'
  OBVIOUS
<1>1. CASE UNCHANGED badgeVars
  BY <1>1 DEF badgeVars, BadgesInv, BadgesTypeOK, JobIsTheLast, RawIsAnswered, HistoryIsAnswered,
              FallbackIsRecent
<1> QED BY <1>1, DiscoverOK, AskOK, WriteRawOK, ParseBadgesOK, TickOK DEF BadgesNext

\* Without Prometheus only badges that answered within the window are asked, however
\* late and however often the raw file was parsed (_active_macs_from_sqlite).
THEOREM FallbackStaysRecent == BadgesSpec => []FallbackIsRecent
<1>1. BadgesInv => FallbackIsRecent
  BY DEF BadgesInv
<1> QED BY <1>1, BadgesInitOK, BadgesStep, PTL DEF BadgesSpec

-----------------------------------------------------------------------------
(***************************************************************************)
(* The radar counters (RadarCounters).                                      *)
(***************************************************************************)

Output == [count : [AP -> Nat \cup {NoCount}], happened : [AP -> Nat]]

RadarTypeOK ==
  /\ counter \in [AP -> Nat] /\ happened \in [AP -> Nat]
  /\ dump \in Seq(Output)
  /\ stored \in [AP -> Seq(Nat)] /\ inferred \in [AP -> Nat]
  /\ span \in [AP -> Nat \X Nat]
  /\ parsed \in Seq(Nat)
  /\ restarted \in SUBSET AP

\* A counter grows by no more than what happened, and by just that where it never restarted.
CountersFollowEvents(a) ==
  /\ a \notin restarted => counter[a] = happened[a]
  /\ \A i \in DOMAIN dump :
       /\ dump[i].happened[a] <= happened[a]
       /\ dump[i].count[a] # NoCount =>
            /\ counter[a] + dump[i].happened[a] <= dump[i].count[a] + happened[a]
            /\ a \notin restarted => dump[i].count[a] = dump[i].happened[a]

DumpsFollowEvents(a) ==
  \A i, j \in DOMAIN dump : i <= j =>
    /\ dump[i].happened[a] <= dump[j].happened[a]
    /\ dump[i].count[a] # NoCount /\ dump[j].count[a] # NoCount =>
         dump[j].count[a] + dump[i].happened[a] <= dump[i].count[a] + dump[j].happened[a]

CountedInOrder == \A i \in 1..(Len(parsed) - 1) : parsed[i] <= parsed[i + 1]

\* The last count of an access point is that of an output parsed no later than the last one.
LastIsOfADump(a) ==
  \E k \in DOMAIN dump :
    /\ parsed # <<>> /\ k <= parsed[Len(parsed)]
    /\ dump[k].count[a] = previous_radar_count(stored[a]) /\ dump[k].happened[a] = span[a][2]

StoredFollowsEvents(a) ==
  /\ stored[a] = <<>> => span[a] = <<0, 0>> /\ inferred[a] = 0
  /\ stored[a] # <<>> => LastIsOfADump(a)
  /\ inferred[a] + span[a][1] <= span[a][2]
  /\ a \notin restarted => inferred[a] + span[a][1] = span[a][2]

RadarInv ==
  /\ RadarTypeOK
  /\ \A a \in AP : CountersFollowEvents(a) /\ DumpsFollowEvents(a)
  /\ CountedInOrder => \A a \in AP : StoredFollowsEvents(a)

LEMMA RadarInitOK == RadarInit => RadarInv
<1> SUFFICES ASSUME RadarInit PROVE RadarInv
  OBVIOUS
<1> USE DEF RadarInit
<1>1. RadarTypeOK
  BY DEF RadarTypeOK
<1>2. ASSUME NEW a \in AP
      PROVE  CountersFollowEvents(a) /\ DumpsFollowEvents(a) /\ StoredFollowsEvents(a)
  BY DEF CountersFollowEvents, DumpsFollowEvents, StoredFollowsEvents
<1> QED BY <1>1, <1>2 DEF RadarInv

LEMMA OutputFacts ==
  ASSUME RadarTypeOK, NEW i \in DOMAIN dump, NEW a \in AP
  PROVE  dump[i].happened[a] \in Nat /\ dump[i].count[a] \in Nat \cup {NoCount}
<1>1. dump[i] \in Output
  BY DEF RadarTypeOK
<1> QED BY <1>1 DEF Output

\* A step that touches neither the outputs nor what is stored.
LEMMA ControllerStep ==
  ASSUME RadarInv, RadarTypeOK', UNCHANGED <<dump, stored, inferred, span, parsed>>,
         restarted \subseteq restarted',
         \A a \in AP : CountersFollowEvents(a)'
  PROVE  RadarInv'
<1>1. ASSUME NEW a \in AP PROVE DumpsFollowEvents(a)'
  BY DEF RadarInv, DumpsFollowEvents
<1>2. CountedInOrder' => CountedInOrder
  BY DEF CountedInOrder
<1>3. ASSUME NEW a \in AP, StoredFollowsEvents(a) PROVE StoredFollowsEvents(a)'
  BY <1>3 DEF StoredFollowsEvents, LastIsOfADump, previous_radar_count
<1> QED BY <1>1, <1>2, <1>3 DEF RadarInv

LEMMA RadarOK ==
  ASSUME RadarInv, NEW b \in AP, Radar(b)
  PROVE  RadarInv'
<1>1. /\ counter' = [counter EXCEPT ![b] = @ + 1] /\ happened' = [happened EXCEPT ![b] = @ + 1]
      /\ UNCHANGED <<dump, stored, inferred, span, parsed, restarted>>
  BY DEF Radar
<1>2. counter \in [AP -> Nat] /\ happened \in [AP -> Nat] /\ RadarTypeOK
  BY DEF RadarInv, RadarTypeOK
<1>3. RadarTypeOK'
  BY <1>1, <1>2 DEF RadarTypeOK
<1>4. ASSUME NEW a \in AP PROVE CountersFollowEvents(a)'
  <2>1. counter[a] \in Nat /\ happened[a] \in Nat
    BY <1>2
  <2>2. \/ counter'[a] = counter[a] /\ happened'[a] = happened[a]
        \/ counter'[a] = counter[a] + 1 /\ happened'[a] = happened[a] + 1
    BY <1>1, <1>2
  <2>3. CountersFollowEvents(a)
    BY DEF RadarInv
  <2>4. ASSUME NEW i \in DOMAIN dump
        PROVE  /\ dump[i].happened[a] <= happened'[a]
               /\ dump[i].count[a] # NoCount =>
                    counter'[a] + dump[i].happened[a] <= dump[i].count[a] + happened'[a]
    <3>1. dump[i].happened[a] \in Nat /\ dump[i].count[a] \in Nat \cup {NoCount}
      BY <1>2, OutputFacts
    <3> QED BY <2>1, <2>2, <2>3, <3>1 DEF CountersFollowEvents
  <2> QED BY <1>1, <2>1, <2>2, <2>3, <2>4 DEF CountersFollowEvents
<1> QED BY <1>1, <1>3, <1>4, ControllerStep

LEMMA RestartOK ==
  ASSUME RadarInv, NEW b \in AP, RestartAP(b)
  PROVE  RadarInv'
<1>1. /\ counter' = [counter EXCEPT ![b] = 0] /\ restarted' = restarted \cup {b}
      /\ UNCHANGED <<happened, dump, stored, inferred, span, parsed>>
  BY DEF RestartAP
<1>2. counter \in [AP -> Nat] /\ happened \in [AP -> Nat] /\ RadarTypeOK
  BY DEF RadarInv, RadarTypeOK
<1>3. RadarTypeOK'
  BY <1>1, <1>2 DEF RadarTypeOK
<1>4. ASSUME NEW a \in AP PROVE CountersFollowEvents(a)'
  <2>1. counter[a] \in Nat /\ happened[a] \in Nat
    BY <1>2
  <2>2. counter'[a] = IF a = b THEN 0 ELSE counter[a]
    BY <1>1, <1>2
  <2>3. CountersFollowEvents(a)
    BY DEF RadarInv
  <2>4. ASSUME NEW i \in DOMAIN dump
        PROVE  dump[i].count[a] # NoCount =>
                 counter'[a] + dump[i].happened[a] <= dump[i].count[a] + happened[a]
    <3>1. dump[i].happened[a] \in Nat /\ dump[i].count[a] \in Nat \cup {NoCount}
      BY <1>2, OutputFacts
    <3> QED BY <2>1, <2>2, <2>3, <3>1 DEF CountersFollowEvents
  <2> QED BY <1>1, <2>2, <2>3, <2>4 DEF CountersFollowEvents
<1> QED BY <1>1, <1>3, <1>4, ControllerStep

LEMMA SaveOutputOK ==
  ASSUME RadarInv, SaveOutput
  PROVE  RadarInv'
<1>1. PICK shown \in SUBSET AP :
        dump' = Append(dump, [count |-> [a \in AP |-> IF a \in shown THEN counter[a] ELSE NoCount],
                              happened |-> happened])
  BY DEF SaveOutput
<1>2. UNCHANGED <<counter, happened, stored, inferred, span, parsed, restarted>>
  BY DEF SaveOutput
<1> DEFINE new == [count |-> [a \in AP |-> IF a \in shown THEN counter[a] ELSE NoCount],
                   happened |-> happened]
           n == Len(dump)
<1>3. counter \in [AP -> Nat] /\ happened \in [AP -> Nat] /\ RadarTypeOK /\ dump \in Seq(Output)
  BY DEF RadarInv, RadarTypeOK
<1>4. new \in Output
  BY <1>3 DEF Output
<1>5. \A a \in AP : new.happened[a] = happened[a] /\ new.count[a] \in {counter[a], NoCount}
  OBVIOUS
<1> HIDE DEF new
<1>6. /\ dump' \in Seq(Output) /\ n \in Nat /\ DOMAIN dump = 1..n /\ DOMAIN dump' = 1..(n + 1)
      /\ dump'[n + 1] = new /\ \A i \in DOMAIN dump : dump'[i] = dump[i]
  BY <1>1, <1>3, <1>4 DEF new
<1>7. RadarTypeOK'
  BY <1>2, <1>3, <1>6 DEF RadarTypeOK
<1>8. ASSUME NEW a \in AP PROVE CountersFollowEvents(a)'
  <2>1. CountersFollowEvents(a) /\ counter[a] \in Nat /\ happened[a] \in Nat
    BY <1>3 DEF RadarInv
  <2>2. ASSUME NEW i \in DOMAIN dump'
        PROVE  /\ dump'[i].happened[a] <= happened[a]
               /\ dump'[i].count[a] # NoCount =>
                    /\ counter[a] + dump'[i].happened[a] <= dump'[i].count[a] + happened[a]
                    /\ a \notin restarted => dump'[i].count[a] = dump'[i].happened[a]
    <3>1. CASE i = n + 1
      BY <1>5, <1>6, <2>1, <3>1 DEF CountersFollowEvents
    <3>2. CASE i # n + 1
      <4>1. i \in DOMAIN dump
        BY <1>6, <3>2
      <4> QED BY <1>6, <2>1, <4>1 DEF CountersFollowEvents
    <3> QED BY <3>1, <3>2
  <2> QED BY <1>2, <2>1, <2>2 DEF CountersFollowEvents
<1>9. ASSUME NEW a \in AP PROVE DumpsFollowEvents(a)'
  <2>1. CountersFollowEvents(a) /\ DumpsFollowEvents(a) /\ counter[a] \in Nat /\ happened[a] \in Nat
    BY <1>3 DEF RadarInv
  <2>2. ASSUME NEW i \in DOMAIN dump', NEW j \in DOMAIN dump', i <= j
        PROVE  /\ dump'[i].happened[a] <= dump'[j].happened[a]
               /\ dump'[i].count[a] # NoCount /\ dump'[j].count[a] # NoCount =>
                    dump'[j].count[a] + dump'[i].happened[a] <= dump'[i].count[a] + dump'[j].happened[a]
    <3>1. CASE j \in DOMAIN dump
      <4>1. i \in DOMAIN dump
        BY <1>6, <2>2, <3>1
      <4> QED BY <1>6, <2>1, <2>2, <3>1, <4>1 DEF DumpsFollowEvents
    <3>2. CASE j \notin DOMAIN dump /\ i \in DOMAIN dump
      <4>1. j = n + 1
        BY <1>6, <3>2
      <4> QED BY <1>5, <1>6, <2>1, <3>2, <4>1 DEF CountersFollowEvents
    <3>3. CASE i \notin DOMAIN dump
      <4>1. i = n + 1 /\ j = n + 1
        BY <1>6, <2>2, <3>3
      <4> QED BY <1>5, <1>6, <2>1, <4>1
    <3> QED BY <3>1, <3>2, <3>3
  <2> QED BY <2>2 DEF DumpsFollowEvents
<1>10. CountedInOrder' => CountedInOrder
  BY <1>2 DEF CountedInOrder
<1>11. ASSUME NEW a \in AP, StoredFollowsEvents(a) PROVE StoredFollowsEvents(a)'
  BY <1>2, <1>6, <1>11 DEF StoredFollowsEvents, LastIsOfADump, previous_radar_count
<1> QED BY <1>7, <1>8, <1>9, <1>10, <1>11 DEF RadarInv

LEMMA ParseOK ==
  ASSUME RadarInv, command_parse
  PROVE  RadarInv'
<1>1. PICK i \in DOMAIN dump : save_run(dump[i]) /\ parsed' = Append(parsed, i)
  BY DEF command_parse
<1>2. UNCHANGED <<counter, happened, dump, restarted>>
  BY DEF command_parse
<1> DEFINE n(a) == dump[i].count[a]
           h(a) == dump[i].happened[a]
<1>3. /\ stored \in [AP -> Seq(Nat)] /\ inferred \in [AP -> Nat] /\ span \in [AP -> Nat \X Nat]
      /\ parsed \in Seq(Nat) /\ dump \in Seq(Output) /\ i \in Nat /\ RadarTypeOK
  BY DEF RadarInv, RadarTypeOK
<1>4. \A a \in AP : n(a) \in Nat \cup {NoCount} /\ h(a) \in Nat
  BY <1>3, OutputFacts
<1>5. /\ stored' = [a \in AP |-> IF n(a) # NoCount THEN Append(stored[a], n(a)) ELSE stored[a]]
      /\ inferred' = [a \in AP |-> IF n(a) # NoCount THEN inferred[a] + Delta(stored[a], n(a))
                                   ELSE inferred[a]]
      /\ span' = [a \in AP |->
           IF n(a) = NoCount THEN span[a]
           ELSE <<IF stored[a] = <<>> THEN h(a) ELSE span[a][1], h(a)>>]
  BY <1>1 DEF save_run
<1> HIDE DEF n, h
<1>6. ASSUME NEW a \in AP, n(a) # NoCount PROVE Delta(stored[a], n(a)) \in Nat
  <2>1. stored[a] \in Seq(Nat) /\ n(a) \in Nat
    BY <1>3, <1>4, <1>6
  <2>2. stored[a] # <<>> => previous_radar_count(stored[a]) \in Nat
    BY <2>1 DEF previous_radar_count
  <2> QED BY <2>1, <2>2 DEF Delta
<1>7. RadarTypeOK'
  <2>1. stored' \in [AP -> Seq(Nat)]
    BY <1>3, <1>4, <1>5
  <2>2. inferred' \in [AP -> Nat]
    BY <1>3, <1>5, <1>6
  <2>3. span' \in [AP -> Nat \X Nat]
    BY <1>3, <1>4, <1>5
  <2>4. parsed' \in Seq(Nat)
    BY <1>1, <1>3
  <2> QED BY <1>2, <2>1, <2>2, <2>3, <2>4 DEF RadarInv, RadarTypeOK
<1>8. ASSUME NEW a \in AP PROVE CountersFollowEvents(a)' /\ DumpsFollowEvents(a)'
  BY <1>2 DEF RadarInv, CountersFollowEvents, DumpsFollowEvents
<1>9. /\ Len(parsed') = Len(parsed) + 1 /\ parsed'[Len(parsed')] = i /\ parsed' # <<>>
      /\ \A j \in 1..Len(parsed) : parsed'[j] = parsed[j]
      /\ Len(parsed) \in Nat
  <2>1. parsed' = Append(parsed, i) /\ parsed \in Seq(Nat) /\ i \in Nat
    BY <1>1, <1>3
  <2>2. Len(parsed') = Len(parsed) + 1 /\ Len(parsed) \in Nat
    BY <2>1
  <2>3. parsed'[Len(parsed')] = i /\ \A j \in 1..Len(parsed) : parsed'[j] = parsed[j]
    BY <2>1
  <2>4. parsed' # <<>>
    BY <2>1
  <2> QED BY <2>2, <2>3, <2>4
<1>10. CountedInOrder' => CountedInOrder /\ (parsed # <<>> => parsed[Len(parsed)] <= i)
  <2> SUFFICES ASSUME CountedInOrder'
               PROVE  CountedInOrder /\ (parsed # <<>> => parsed[Len(parsed)] <= i)
    OBVIOUS
  <2>1. \A j \in 1..Len(parsed) : parsed'[j] <= parsed'[j + 1]
    BY <1>9 DEF CountedInOrder
  <2>2. CountedInOrder
    BY <1>9, <2>1 DEF CountedInOrder
  <2>3. ASSUME parsed # <<>> PROVE parsed[Len(parsed)] <= i
    <3>1. Len(parsed) \in 1..Len(parsed)
      BY <1>3, <2>3
    <3> QED BY <1>9, <2>1, <3>1
  <2> QED BY <2>2, <2>3
<1>11. ASSUME NEW a \in AP, CountedInOrder', StoredFollowsEvents(a)
       PROVE  StoredFollowsEvents(a)'
  <2>1. /\ stored[a] \in Seq(Nat) /\ inferred[a] \in Nat /\ span[a] \in Nat \X Nat /\ h(a) \in Nat
    BY <1>3, <1>4
  <2>2. CASE n(a) = NoCount
    <3>1. stored'[a] = stored[a] /\ inferred'[a] = inferred[a] /\ span'[a] = span[a]
      BY <1>5, <2>2
    <3>2. ASSUME LastIsOfADump(a) PROVE LastIsOfADump(a)'
      <4>1. PICK k \in DOMAIN dump :
              /\ parsed # <<>> /\ k <= parsed[Len(parsed)]
              /\ dump[k].count[a] = previous_radar_count(stored[a]) /\ dump[k].happened[a] = span[a][2]
        BY <3>2 DEF LastIsOfADump
      <4>2. parsed[Len(parsed)] <= i /\ parsed[Len(parsed)] \in Nat
        BY <1>3, <1>10, <1>11, <4>1
      <4>3. k <= i
        BY <1>3, <4>1, <4>2
      <4> QED BY <1>2, <1>9, <3>1, <4>1, <4>3 DEF LastIsOfADump, previous_radar_count
    <3> QED BY <1>2, <1>11, <3>1, <3>2 DEF StoredFollowsEvents
  <2>3. CASE n(a) # NoCount
    <3>1. n(a) \in Nat
      BY <1>4, <2>3
    <3>2. /\ stored'[a] = Append(stored[a], n(a))
          /\ inferred'[a] = inferred[a] + Delta(stored[a], n(a))
          /\ span'[a] = <<IF stored[a] = <<>> THEN h(a) ELSE span[a][1], h(a)>>
      BY <1>5, <2>3
    <3>3. stored'[a] # <<>> /\ previous_radar_count(stored'[a]) = n(a) /\ span'[a][2] = h(a)
      BY <2>1, <3>1, <3>2 DEF previous_radar_count
    <3>4. LastIsOfADump(a)'
      <4>1. i \in DOMAIN dump' /\ i <= parsed'[Len(parsed')]
        BY <1>2, <1>3, <1>9
      <4>2. dump'[i].count[a] = previous_radar_count(stored'[a]) /\ dump'[i].happened[a] = span'[a][2]
        BY <1>2, <3>3 DEF n, h
      <4> QED BY <1>9, <4>1, <4>2 DEF LastIsOfADump
    <3>5. CASE stored[a] = <<>>
      <4>1. inferred'[a] = 0 /\ span'[a][1] = h(a)
        BY <1>11, <3>2, <3>5, <2>1 DEF StoredFollowsEvents, Delta
      <4> QED BY <2>1, <3>3, <3>4, <4>1 DEF StoredFollowsEvents
    <3>6. CASE stored[a] # <<>>
      <4>1. PICK k \in DOMAIN dump :
              /\ parsed # <<>> /\ k <= parsed[Len(parsed)]
              /\ dump[k].count[a] = previous_radar_count(stored[a]) /\ dump[k].happened[a] = span[a][2]
        BY <1>11, <3>6 DEF StoredFollowsEvents, LastIsOfADump
      <4> DEFINE m == previous_radar_count(stored[a])
      <4>2. m \in Nat
        BY <2>1, <3>6 DEF previous_radar_count
      <4>3. k \in Nat /\ k <= i
        <5>1. parsed[Len(parsed)] <= i /\ parsed[Len(parsed)] \in Nat
          BY <1>3, <1>10, <1>11, <4>1
        <5> QED BY <1>3, <4>1, <5>1
      <4>4. m # NoCount
        BY <4>2, NoCountAssumption
      <4>5. span[a][2] <= h(a) /\ n(a) + span[a][2] <= m + h(a)
        BY <2>3, <4>1, <4>3, <4>4 DEF RadarInv, DumpsFollowEvents, n, h
      <4>6. a \notin restarted => n(a) = h(a) /\ m = span[a][2]
        BY <2>3, <4>1, <4>4 DEF RadarInv, CountersFollowEvents, n, h
      <4>7. Delta(stored[a], n(a)) = IF n(a) < m THEN 0 ELSE n(a) - m
        BY <3>6 DEF Delta
      <4>8. span'[a][1] = span[a][1]
        BY <3>2, <3>6
      <4>9. span[a][1] \in Nat /\ span[a][2] \in Nat
        BY <2>1
      <4>10. /\ inferred[a] + span[a][1] <= span[a][2]
             /\ a \notin restarted => inferred[a] + span[a][1] = span[a][2]
        BY <1>11 DEF StoredFollowsEvents
      <4> HIDE DEF m
      <4>11. inferred'[a] + span'[a][1] <= span'[a][2]
        BY <2>1, <3>1, <3>2, <3>3, <4>2, <4>5, <4>7, <4>8, <4>9, <4>10
      <4>12. a \notin restarted => inferred'[a] + span'[a][1] = span'[a][2]
        BY <2>1, <3>1, <3>2, <3>3, <4>2, <4>5, <4>6, <4>7, <4>8, <4>9, <4>10
      <4> QED BY <1>2, <3>3, <3>4, <4>11, <4>12 DEF StoredFollowsEvents
    <3> QED BY <3>5, <3>6
  <2> QED BY <2>2, <2>3
<1> QED BY <1>7, <1>8, <1>10, <1>11 DEF RadarInv

LEMMA RadarStep == RadarInv /\ [RadarNext]_radarVars => RadarInv'
<1> SUFFICES ASSUME RadarInv, [RadarNext]_radarVars PROVE RadarInv'
  OBVIOUS
<1>1. ASSUME NEW a \in AP, Radar(a) PROVE RadarInv'
  BY <1>1, RadarOK
<1>2. ASSUME NEW a \in AP, RestartAP(a) PROVE RadarInv'
  BY <1>2, RestartOK
<1>3. CASE SaveOutput
  BY <1>3, SaveOutputOK
<1>4. CASE command_parse
  BY <1>4, ParseOK
<1>5. CASE UNCHANGED radarVars
  <2>1. RadarTypeOK'
    BY <1>5 DEF radarVars, RadarInv, RadarTypeOK
  <2>2. \A a \in AP : CountersFollowEvents(a)'
    BY <1>5 DEF radarVars, RadarInv, CountersFollowEvents
  <2> QED BY <1>5, <2>1, <2>2, ControllerStep DEF radarVars
<1> QED BY <1>1, <1>2, <1>3, <1>4, <1>5 DEF RadarNext

LEMMA RadarInvariant == RadarSpec => []RadarInv
BY RadarInitOK, RadarStep, PTL DEF RadarSpec

\* Outputs parsed in the order they were saved, however often each of them, never
\* make more events of an access point than it had, and exactly those if it never
\* restarted (storage.py, save_run).
THEOREM DeltasFollowEvents == RadarSpec => []DeltasAreEvents
<1>1. RadarInv => DeltasAreEvents
  <2> SUFFICES ASSUME RadarInv, CountedInOrder, NEW a \in AP
               PROVE  /\ inferred[a] <= span[a][2] - span[a][1]
                      /\ a \notin restarted => inferred[a] = span[a][2] - span[a][1]
    BY DEF DeltasAreEvents, CountedInOrder
  <2>1. inferred[a] \in Nat /\ span[a] \in Nat \X Nat
    BY DEF RadarInv, RadarTypeOK
  <2>2. /\ inferred[a] + span[a][1] <= span[a][2]
        /\ a \notin restarted => inferred[a] + span[a][1] = span[a][2]
    BY DEF RadarInv, StoredFollowsEvents
  <2> QED BY <2>1, <2>2
<1> QED BY <1>1, RadarInvariant, PTL

-----------------------------------------------------------------------------
(***************************************************************************)
(* Both collectors.                                                         *)
(***************************************************************************)

\* A badge that is asked for want of Prometheus was heard within the window (wireless_rf
\* discover).  While outputs are parsed in the order they were saved, repeated or not, the
\* deltas of a radar counter add up to no more than its events, and to just those of an
\* access point that never restarted (wireless_rf radar).  Nothing is said of the deltas
\* after an output was parsed behind a newer one.
THEOREM CollectedStaysObserved == BadgesSpec /\ RadarSpec => []CollectedIsObserved
<1>1. FallbackIsRecent /\ DeltasAreEvents => CollectedIsObserved
  BY DEF CollectedIsObserved
<1> QED BY <1>1, FallbackStaysRecent, DeltasFollowEvents, PTL
================================================================================

----------------------------- MODULE HomeProofs ------------------------------
(***************************************************************************)
(* The proofs of MCHome.                                                   *)
(***************************************************************************)
EXTENDS MCHome, WellFoundedInduction, SequenceTheorems, FiniteSetTheorems, TLAPS

(* Induction over the numbers, said of the set of those that have the       *)
(* property.                                                                *)
LEMMA InductionOnNat ==
  ASSUME NEW S \in SUBSET Nat, 0 \in S, \A n \in S : n + 1 \in S
  PROVE  S = Nat
<1> SUFFICES ASSUME Nat \ S # {} PROVE FALSE
  OBVIOUS
<1>1. PICK x \in Nat \ S : \A y \in Nat \ S : ~(<<y, x>> \in OpToRel(<, Nat))
  BY NatLessThanWellFounded, WFMin
<1>2. x \in Nat /\ x # 0 /\ x - 1 \in Nat /\ x - 1 < x
  OBVIOUS
<1>3. <<x - 1, x>> \in OpToRel(<, Nat)
  BY <1>2 DEF OpToRel
<1>4. x - 1 \in S
  BY <1>1, <1>2, <1>3
<1>5. (x - 1) + 1 \in S
  BY <1>4
<1>6. (x - 1) + 1 = x
  BY <1>2
<1> QED
  BY <1>1, <1>5, <1>6

-----------------------------------------------------------------------------
(* Induction over sequences, said of the set of those that have the         *)
(* property.                                                                *)
LEMMA InductionOnSeq ==
  ASSUME NEW T, NEW A \in SUBSET Seq(T), <<>> \in A,
         \A s \in A, e \in T : Append(s, e) \in A
  PROVE  A = Seq(T)
<1> DEFINE S == {n \in Nat : \A s \in Seq(T) : Len(s) = n => s \in A}
<1>1. 0 \in S
  BY EmptySeq DEF S
<1>2. ASSUME NEW n \in S PROVE n + 1 \in S
  <2>1. SUFFICES ASSUME NEW s \in Seq(T), Len(s) = n + 1 PROVE s \in A
    BY DEF S
  <2>2. s # <<>> /\ n \in Nat
    BY <2>1
  <2>3. PICK r \in Seq(T), e \in T : s = Append(r, e)
    BY <2>2, SequenceEmptyOrAppend
  <2>4. Len(r) + 1 = n + 1 /\ Len(r) \in Nat
    BY <2>1, <2>3, AppendProperties, LenProperties
  <2>5. Len(r) = n
    BY <2>2, <2>4
  <2>6. r \in A
    BY <2>5 DEF S
  <2> QED
    BY <2>3, <2>6
<1> HIDE DEF S
<1>3. S = Nat
  BY <1>1, <1>2, InductionOnNat DEF S
<1>4. ASSUME NEW s \in Seq(T) PROVE s \in A
  <2>1. Len(s) \in S
    BY <1>3, LenProperties
  <2> QED
    BY <2>1 DEF S
<1> QED
  BY <1>4

(* FlattenSeq.  Joins(ss, n, f) says that f[i] is what the first i of the   *)
(* sequences make, one after the other.                                     *)
Joins(ss, n, f) ==
  f = [i \in 1..n |-> IF i = 1 THEN ss[i] ELSE f[i - 1] \o ss[i]]

(* There is such a function.                                                *)
LEMMA JoinsExists ==
  ASSUME NEW ss, NEW n \in Nat
  PROVE  \E f : Joins(ss, n, f)
<1> DEFINE S == {m \in Nat : \E f : Joins(ss, m, f)}
<1>1. 0 \in S
  <2>1. PICK f : f = [i \in 1..0 |-> <<>>]
    OBVIOUS
  <2>2. Joins(ss, 0, f)
    BY <2>1 DEF Joins
  <2> QED
    BY <2>2
<1>2. ASSUME NEW m \in S PROVE m + 1 \in S
  <2>1. PICK f : Joins(ss, m, f)
    OBVIOUS
  <2>2. m \in Nat
    OBVIOUS
  <2>3. PICK g : g = [i \in 1..(m + 1) |-> IF i = 1 THEN ss[i] ELSE f[i - 1] \o ss[i]]
    OBVIOUS
  <2>4. ASSUME NEW i \in 1..m PROVE g[i] = f[i]
    <3>1. g[i] = IF i = 1 THEN ss[i] ELSE f[i - 1] \o ss[i]
      BY <2>2, <2>3
    <3>2. f[i] = IF i = 1 THEN ss[i] ELSE f[i - 1] \o ss[i]
      BY <2>1 DEF Joins
    <3> QED
      BY <3>1, <3>2
  <2>5. ASSUME NEW i \in 1..(m + 1), i # 1 PROVE g[i - 1] = f[i - 1]
    <3>1. i - 1 \in 1..m
      BY <2>2, <2>5
    <3> QED
      BY <2>4, <3>1
  <2> HIDE DEF S
  <2>6. Joins(ss, m + 1, g)
    BY <2>3, <2>5 DEF Joins
  <2> QED
    BY <2>2, <2>6 DEF S
<1> HIDE DEF S
<1>3. S = Nat
  BY <1>1, <1>2, InductionOnNat DEF S
<1>4. n \in S
  BY <1>3
<1> QED
  BY <1>4 DEF S

(* Where two lists of sequences agree, so do the functions.                 *)
LEMMA JoinsAgree ==
  ASSUME NEW ss, NEW tt, NEW n \in Nat, NEW m \in Nat, n <= m,
         NEW f, NEW g, Joins(ss, n, f), Joins(tt, m, g),
         \A i \in 1..n : ss[i] = tt[i]
  PROVE  \A i \in 1..n : f[i] = g[i]
<1> DEFINE S == {i \in Nat : i \in 1..n => f[i] = g[i]}
<1>1. 0 \in S
  OBVIOUS
<1>2. ASSUME NEW i \in S PROVE i + 1 \in S
  <2>1. SUFFICES ASSUME i + 1 \in 1..n PROVE f[i + 1] = g[i + 1]
    OBVIOUS
  <2>2. i \in Nat /\ i + 1 \in 1..m /\ ss[i + 1] = tt[i + 1] /\ (i + 1) - 1 = i
    BY <2>1
  <2>3. CASE i = 0
    BY <2>1, <2>2, <2>3 DEF Joins
  <2>4. CASE i # 0
    <3>1. i \in 1..n /\ i + 1 # 1
      BY <2>1, <2>2, <2>4
    <3>2. f[i] = g[i]
      BY <3>1
    <3>3. f[i + 1] = f[(i + 1) - 1] \o ss[i + 1]
      BY <2>1, <3>1 DEF Joins
    <3>4. g[i + 1] = g[(i + 1) - 1] \o tt[i + 1]
      BY <2>2, <3>1 DEF Joins
    <3> QED
      BY <2>2, <3>2, <3>3, <3>4
  <2> QED
    BY <2>3, <2>4
<1> HIDE DEF S
<1>3. S = Nat
  BY <1>1, <1>2, InductionOnNat DEF S
<1>4. \A i \in 1..n : i \in S
  BY <1>3
<1> QED
  BY <1>4 DEF S

(* The function for one sequence more.                                      *)
OneMore(ss, n, tt, m) == n # 0 /\ m = n + 1 /\ \A i \in 1..n : ss[i] = tt[i]

(* Two sequences of lists that agree up to n join to the same lines as far as*)
(* n, if the second only has one list more.                                 *)
LEMMA JoinsStep ==
  ASSUME NEW ss, NEW tt, NEW n \in Nat, NEW m \in Nat,
         NEW f, NEW g, Joins(ss, n, f), Joins(tt, m, g), OneMore(ss, n, tt, m)
  PROVE  f[n] = g[n]
<1>1. n <= m /\ \A i \in 1..n : ss[i] = tt[i]
  BY DEF OneMore
<1>2. \A i \in 1..n : f[i] = g[i]
  BY <1>1, JoinsAgree
<1>3. n \in 1..n
  BY DEF OneMore
<1> QED
  BY <1>2, <1>3

(* FlattenSeq of a list is what such a function has at the end of it.       *)
LEMMA FlattenIsJoined ==
  ASSUME NEW S, NEW ss \in Seq(S), ss # <<>>
  PROVE  \E f : Joins(ss, Len(ss), f) /\ Log!FlattenSeq(ss) = f[Len(ss)]
<1> DEFINE flatten == CHOOSE f : Joins(ss, Len(ss), f)
<1>1. Len(ss) \in Nat /\ Len(ss) # 0
  BY EmptySeq
<1>2. Joins(ss, Len(ss), flatten)
  BY <1>1, JoinsExists
<1>3. Log!FlattenSeq(ss) = flatten[Len(ss)]
  BY <1>1 DEF Log!FlattenSeq, Joins
<1> QED
  BY <1>2, <1>3

(* FlattenSeq, sequence by sequence.                                        *)
LEMMA FlattenAppend ==
  ASSUME NEW T, NEW ss \in Seq(Seq(T)), NEW t \in Seq(T)
  PROVE  /\ Log!FlattenSeq(<<>>) = <<>>
         /\ Log!FlattenSeq(Append(ss, t)) =
              IF ss = <<>> THEN t ELSE Log!FlattenSeq(ss) \o t
<1>1. Log!FlattenSeq(<<>>) = <<>>
  BY EmptySeq DEF Log!FlattenSeq
<1>2. PICK tt \in Seq(Seq(T)) : tt = Append(ss, t)
  BY AppendProperties
<1>3. PICK n \in Nat : n = Len(ss)
  BY LenProperties
<1>4. tt # <<>> /\ Len(tt) = n + 1 /\ tt[n + 1] = t /\ \A i \in 1..n : tt[i] = ss[i]
  BY <1>2, <1>3, AppendProperties
<1>5. PICK g : Joins(tt, n + 1, g) /\ Log!FlattenSeq(tt) = g[n + 1]
  BY <1>4, FlattenIsJoined
<1>6. CASE ss = <<>>
  <2>1. n = 0
    BY <1>3, <1>6, EmptySeq
  <2>2. g[1] = t
    BY <1>4, <1>5, <2>1 DEF Joins
  <2> QED
    BY <1>1, <1>2, <1>5, <1>6, <2>1, <2>2
<1>7. CASE ss # <<>>
  <2>1. n # 0 /\ n \in 1..n /\ n + 1 # 1 /\ n + 1 \in 1..(n + 1) /\ (n + 1) - 1 = n
    BY <1>3, <1>7, EmptySeq
  <2>2. PICK f : Joins(ss, n, f) /\ Log!FlattenSeq(ss) = f[n]
    BY <1>3, <1>7, FlattenIsJoined
  <2>3. PICK m \in Nat : m = n + 1
    OBVIOUS
  <2>4. OneMore(ss, n, tt, m)
    BY <1>4, <2>1, <2>3 DEF OneMore
  <2>5. Joins(ss, n, f) /\ Joins(tt, m, g)
    BY <1>5, <2>2, <2>3
  <2>6. f[n] = g[n]
    BY <2>4, <2>5, JoinsStep
  <2>7. g[n + 1] = g[n] \o t
    BY <1>4, <1>5, <2>1 DEF Joins
  <2> QED
    BY <1>1, <1>2, <1>4, <1>5, <1>7, <2>2, <2>6, <2>7
<1> QED
  BY <1>6, <1>7

(* What it makes of sequences over a set is a sequence over that set.       *)
LEMMA FlattenType ==
  ASSUME NEW T, NEW ss \in Seq(Seq(T))
  PROVE  Log!FlattenSeq(ss) \in Seq(T)
<1> DEFINE A == {s \in Seq(Seq(T)) : Log!FlattenSeq(s) \in Seq(T)}
<1>1. <<>> \in A
  <2>1. <<>> \in Seq(T) /\ <<>> \in Seq(Seq(T))
    OBVIOUS
  <2> QED
    BY <2>1, FlattenAppend
<1>2. ASSUME NEW s \in A, NEW t \in Seq(T) PROVE Append(s, t) \in A
  <2>1. /\ s \in Seq(Seq(T)) /\ Log!FlattenSeq(s) \in Seq(T)
        /\ Append(s, t) \in Seq(Seq(T))
    BY AppendProperties
  <2>2. Log!FlattenSeq(s) \o t \in Seq(T)
    BY <2>1, ConcatProperties
  <2>3. Log!FlattenSeq(Append(s, t)) \in Seq(T)
    BY <2>1, <2>2, FlattenAppend
  <2> QED
    BY <2>1, <2>3
<1> HIDE DEF A
<1>3. A = Seq(Seq(T))
  BY <1>1, <1>2, InductionOnSeq DEF A
<1> QED
  BY <1>3 DEF A

(* What the steps of the three other components do to the variables of one: *)
(* nothing, because the focus does not move.                                *)
allVars == <<focus, recVars, histVars, cfgVars, storeVars>>

-----------------------------------------------------------------------------
(* The configuration.                                                       *)
Texts == Config!Texts \cup {Config!Broken}

Dialogs == [at : {"down", "running", "dialog", "writing"}, cfg : Texts,
            changes : Config!Changes \cup {Config!Broken}, scope : Config!Scopes,
            before : Texts, after : Texts]

(* What a dialog would write is the file of the dialog with the edit made;  *)
(* the file is still the one whose diff is shown, if nobody wrote it.       *)
Planned(q) ==
  q.after # Config!Broken =>
    /\ q.before \in Config!Texts /\ q.changes \in Config!Changes
    /\ q.after = Config!Planned(q.before, q.changes)

DialogInv(q) ==
  /\ q \in Dialogs
  /\ q.at # "down" => q.cfg \in Config!Texts
  /\ q.at \in {"dialog", "writing"} => q.changes \in Config!Changes /\ Planned(q)
  /\ q.at = "writing" => q.after # Config!Broken

ConfigInv ==
  /\ cfile \in [Config!Scopes -> Texts] /\ saves \in 0..MaxSaves
  /\ app \in [Processes -> Dialogs] /\ moved \in [Processes -> BOOLEAN]
  /\ \A p \in Processes :
       /\ DialogInv(app[p])
       /\ app[p].at \in {"dialog", "writing"} /\ ~moved[p]
            => cfile[app[p].scope] = app[p].before

(* The bound of the saves is a number.                                      *)
LEMMA SavesAreBounded == MaxSaves \in Nat
BY HomeAssumption

(* An edit of a file that parses gives a file that parses.                  *)
LEMMA PlannedType ==
  ASSUME NEW t \in Config!Texts, NEW c \in Config!Changes
  PROVE  Config!Planned(t, c) \in Config!Texts
BY DEF Config!Texts, Config!Changes, Config!Planned

(* Two files that parse give a configuration.                               *)
LEMMA MergedType ==
  ASSUME NEW t \in Config!Texts, NEW u \in Config!Texts
  PROVE  Config!Merged(t, u) \in Config!Texts
BY DEF Config!Texts, Config!Merged

(* The invariant gives what the runs check of the configuration.            *)
LEMMA ConfigInvHolds ==
  ASSUME ConfigInv
  PROVE  Config!TypeOK /\ Config!SaveTouchesOnlyItsSettings
<1>1. \A p \in Processes : app[p].at = "writing" => app[p].after \in Config!Texts
  BY PlannedType DEF ConfigInv, DialogInv, Planned
<1>2. Config!TypeOK
  BY <1>1 DEF ConfigInv, DialogInv, Config!TypeOK, Texts, Dialogs
<1>3. Config!SaveTouchesOnlyItsSettings
  <2> SUFFICES ASSUME NEW p \in Processes, app[p].at \in {"dialog", "writing"},
                      app[p].after # Config!Broken, ~moved[p]
               PROVE  /\ cfile[app[p].scope] = app[p].before
                      /\ \A k \in Settings :
                           app[p].after[k] # cfile[app[p].scope][k]
                             => app[p].changes[k] # Config!Leave
    BY DEF Config!SaveTouchesOnlyItsSettings
  <2>1. /\ cfile[app[p].scope] = app[p].before
        /\ app[p].after = Config!Planned(app[p].before, app[p].changes)
    BY DEF ConfigInv, DialogInv, Planned
  <2>2. \A k \in Settings : app[p].changes[k] = Config!Leave
                              => app[p].after[k] = app[p].before[k]
    BY <2>1 DEF Config!Planned
  <2> QED
    BY <2>1, <2>2
<1> QED
  BY <1>2, <1>3

(* It holds at first.                                                       *)
LEMMA ConfigInvInit ==
  ASSUME Config!Init PROVE ConfigInv
BY SavesAreBounded DEF Config!Init, ConfigInv, DialogInv, Config!Away, Config!Scopes, Texts,
   Config!Texts, Dialogs

(* A step of one process, which leaves the dialogs of the others alone and  *)
(* writes no file.                                                          *)
LEMMA OneDialog ==
  ASSUME ConfigInv, NEW p \in Processes, NEW q, DialogInv(q),
         app' = [app EXCEPT ![p] = q], UNCHANGED <<cfile, saves>>,
         NEW b \in BOOLEAN, moved' = [moved EXCEPT ![p] = b],
         q.at \in {"dialog", "writing"} /\ ~b => cfile[q.scope] = q.before
  PROVE  ConfigInv'
<1>1. /\ app'[p] = q /\ moved'[p] = b
      /\ \A r \in Processes \ {p} : app'[r] = app[r] /\ moved'[r] = moved[r]
  BY DEF ConfigInv
<1>2. app' \in [Processes -> Dialogs] /\ moved' \in [Processes -> BOOLEAN]
  BY DEF ConfigInv, DialogInv
<1>3. ASSUME NEW r \in Processes
      PROVE  /\ DialogInv(app[r])'
             /\ (app[r].at \in {"dialog", "writing"} /\ ~moved[r]
                  => cfile[app[r].scope] = app[r].before)'
  <2>1. CASE r = p
    BY <2>1, <1>1 DEF DialogInv, Planned
  <2>2. CASE r # p
    BY <2>2, <1>1 DEF ConfigInv, DialogInv, Planned
  <2> QED
    BY <2>1, <2>2
<1> QED
  BY <1>2, <1>3 DEF ConfigInv

(* The same when the record of the files that were written stays.           *)
LEMMA OneDialogRests ==
  ASSUME ConfigInv, NEW p \in Processes, NEW q, DialogInv(q),
         app' = [app EXCEPT ![p] = q], UNCHANGED <<cfile, saves, moved>>,
         q.at \in {"dialog", "writing"} /\ ~moved[p] => cfile[q.scope] = q.before
  PROVE  ConfigInv'
<1>1. moved' = [moved EXCEPT ![p] = moved[p]] /\ moved[p] \in BOOLEAN
  BY DEF ConfigInv
<1> QED
  BY <1>1, OneDialog

(* A process that is not in the dialog has nothing to lose.                 *)
LEMMA AwayIsSound ==
  /\ DialogInv(Config!Away) /\ Config!Away \in Dialogs
  /\ \A cfg \in Config!Texts :
       /\ DialogInv([Config!Away EXCEPT !.at = "running", !.cfg = cfg])
       /\ [Config!Away EXCEPT !.at = "running", !.cfg = cfg].at = "running"
BY DEF DialogInv, Config!Away, Dialogs, Texts, Config!Scopes

(* The dialog opens, or shows the other file: nobody has written the file   *)
(* since.                                                                   *)
LEMMA ShownIsSound ==
  ASSUME ConfigInv, NEW p \in Processes, NEW d \in Dialogs, NEW scope \in Config!Scopes,
         d.cfg \in Config!Texts, d.changes \in Config!Changes,
         Config!Shown(p, d, scope), UNCHANGED cfile, saves' \in 0..MaxSaves
  PROVE  ConfigInv'
<1> DEFINE q == [d EXCEPT !.at = "dialog", !.scope = scope, !.before = cfile[scope],
                         !.after = IF cfile[scope] = Config!Broken THEN Config!Broken
                                   ELSE Config!Planned(cfile[scope], d.changes)]
<1>1. cfile[scope] \in Texts
  BY DEF ConfigInv
<1>2. cfile[scope] # Config!Broken =>
        Config!Planned(cfile[scope], d.changes) \in Config!Texts
  BY <1>1, PlannedType DEF Texts
<1>3. /\ q \in Dialogs
      /\ q.at = "dialog" /\ q.scope = scope /\ q.before = cfile[scope]
      /\ q.changes = d.changes /\ q.cfg = d.cfg
      /\ q.after = IF cfile[scope] = Config!Broken THEN Config!Broken
                   ELSE Config!Planned(cfile[scope], d.changes)
  BY <1>1, <1>2 DEF Dialogs, Texts
<1>4. DialogInv(q)
  BY <1>1, <1>3 DEF DialogInv, Planned, Texts
<1>5. app' = [app EXCEPT ![p] = q] /\ moved' = [moved EXCEPT ![p] = FALSE]
  BY DEF Config!Shown
<1> HIDE DEF q
<1>6. /\ app'[p] = q /\ moved'[p] = FALSE
      /\ \A r \in Processes \ {p} : app'[r] = app[r] /\ moved'[r] = moved[r]
      /\ app' \in [Processes -> Dialogs] /\ moved' \in [Processes -> BOOLEAN]
  BY <1>3, <1>5 DEF ConfigInv
<1>7. ASSUME NEW r \in Processes
      PROVE  /\ DialogInv(app[r])'
             /\ (app[r].at \in {"dialog", "writing"} /\ ~moved[r]
                  => cfile[app[r].scope] = app[r].before)'
  <2>1. CASE r = p
    BY <2>1, <1>3, <1>4, <1>6 DEF DialogInv, Planned
  <2>2. CASE r # p
    BY <2>2, <1>6 DEF ConfigInv, DialogInv, Planned
  <2> QED
    BY <2>1, <2>2
<1> QED
  BY <1>6, <1>7 DEF ConfigInv

(* A file is written: no dialog over it says any more that nobody did.      *)
LEMMA WrittenIsSound ==
  ASSUME ConfigInv, NEW s \in Config!Scopes, NEW text \in Texts,
         NEW others \in SUBSET Processes, Config!Write(s, text, others),
         app' \in [Processes -> Dialogs], saves' \in 0..MaxSaves,
         \A p \in others : app'[p] = app[p],
         \A p \in Processes \ others :
           DialogInv(app[p])' /\ ~(app'[p].at \in {"dialog", "writing"})
  PROVE  ConfigInv'
<1>1. /\ cfile' = [cfile EXCEPT ![s] = text]
      /\ moved' = [p \in Processes |-> moved[p] \/ (p \in others /\ app[p].scope = s)]
  BY DEF Config!Write
<1>2. /\ cfile' \in [Config!Scopes -> Texts] /\ moved' \in [Processes -> BOOLEAN]
      /\ \A t \in Config!Scopes : t # s => cfile'[t] = cfile[t]
  BY <1>1 DEF ConfigInv
<1>3. ASSUME NEW r \in Processes
      PROVE  /\ DialogInv(app[r])'
             /\ (app[r].at \in {"dialog", "writing"} /\ ~moved[r]
                  => cfile[app[r].scope] = app[r].before)'
  <2>1. CASE r \in others
    <3>1. app'[r] = app[r] /\ DialogInv(app[r])
      BY <2>1 DEF ConfigInv
    <3>2. ~moved'[r] => ~moved[r] /\ app[r].scope # s
      BY <2>1, <1>1
    <3>3. app[r].scope \in Config!Scopes
      BY DEF ConfigInv, Dialogs
    <3> QED
      BY <3>1, <3>2, <3>3, <1>2 DEF ConfigInv, DialogInv, Planned
  <2>2. CASE r \notin others
    BY <2>2
  <2> QED
    BY <2>1, <2>2
<1> QED
  BY <1>2, <1>3 DEF ConfigInv

(* Every step keeps it, and only one by hand breaks a file.                 *)
LEMMA ConfigStep ==
  ASSUME ConfigInv, Config!Next
  PROVE  ConfigInv' /\ Config!BreaksByHand
<1>0. /\ \A p \in Processes : app[p] \in Dialogs /\ DialogInv(app[p])
      /\ \A s \in Config!Scopes : cfile[s] \in Texts
  BY DEF ConfigInv
<1>1. ASSUME NEW p \in Processes, Config!Start(p)
      PROVE  ConfigInv' /\ Config!BreaksByHand
  <2>1. Config!Resolved \in Config!Texts
    BY <1>0, <1>1, MergedType
       DEF Config!Start, Config!Resolvable, Config!Resolved, Config!Scopes, Texts
  <2>2. ConfigInv'
    BY <1>1, <2>1, AwayIsSound, OneDialogRests DEF Config!Start
  <2> QED
    BY <1>1, <2>2 DEF Config!Start, Config!BreaksByHand
<1>2. ASSUME NEW p \in Processes, Config!Cancel(p) \/ Config!WriteRefused(p)
      PROVE  ConfigInv' /\ Config!BreaksByHand
  <2>1. app[p].cfg \in Config!Texts
    BY <1>0, <1>2 DEF DialogInv, Config!Cancel, Config!WriteRefused
  <2>2. ConfigInv'
    BY <1>2, <2>1, AwayIsSound, OneDialogRests DEF Config!Cancel, Config!WriteRefused
  <2> QED
    BY <1>2, <2>2 DEF Config!Cancel, Config!WriteRefused, Config!BreaksByHand
<1>3. ASSUME NEW p \in Processes, Config!Dies(p)
      PROVE  ConfigInv' /\ Config!BreaksByHand
  <2>1. Config!Away.at = "down"
    BY DEF Config!Away
  <2>2. ConfigInv'
    BY <1>3, <2>1, AwayIsSound, OneDialogRests DEF Config!Dies
  <2> QED
    BY <1>3, <2>2 DEF Config!Dies, Config!BreaksByHand
<1>4. ASSUME NEW p \in Processes, Config!Confirm(p)
      PROVE  ConfigInv' /\ Config!BreaksByHand
  <2> DEFINE q == [app[p] EXCEPT !.at = "writing"]
  <2>1. /\ q \in Dialogs /\ q.at = "writing" /\ q.cfg = app[p].cfg
        /\ q.scope = app[p].scope /\ q.before = app[p].before
        /\ q.changes = app[p].changes /\ q.after = app[p].after
    BY <1>0 DEF Dialogs
  <2>2. app[p].at = "dialog" /\ app[p].after # Config!Broken /\ app' = [app EXCEPT ![p] = q]
    BY <1>4 DEF Config!Confirm, ConfigInv
  <2>3. DialogInv(q)
    BY <1>0, <2>1, <2>2 DEF DialogInv, Planned
  <2>4. ~moved[p] => cfile[q.scope] = q.before
    BY <2>1, <2>2 DEF ConfigInv
  <2> HIDE DEF q
  <2>5. ConfigInv'
    BY <1>4, <2>2, <2>3, <2>4, OneDialogRests DEF Config!Confirm
  <2> QED
    BY <1>4, <2>5 DEF Config!Confirm, Config!BreaksByHand
<1>5. ASSUME NEW p \in Processes, NEW changes \in Config!Changes, Config!Open(p, changes)
      PROVE  ConfigInv' /\ Config!BreaksByHand
  <2> DEFINE d == [app[p] EXCEPT !.changes = changes]
  <2>1. d \in Dialogs /\ d.cfg = app[p].cfg /\ d.changes = changes
    BY <1>0 DEF Dialogs
  <2>2. Config!Shown(p, d, "user") /\ UNCHANGED cfile /\ app[p].at = "running"
    BY <1>5 DEF Config!Open
  <2>3. d.cfg \in Config!Texts /\ d.changes \in Config!Changes
    BY <1>0, <2>1, <2>2 DEF DialogInv
  <2>4. "user" \in Config!Scopes /\ saves' \in 0..MaxSaves
    BY <1>5, SavesAreBounded DEF Config!Scopes, Config!Open, ConfigInv
  <2> HIDE DEF d
  <2>5. ConfigInv'
    BY <2>1, <2>2, <2>3, <2>4, ShownIsSound
  <2> QED
    BY <2>2, <2>5 DEF Config!BreaksByHand
<1>6. ASSUME NEW p \in Processes, NEW scope \in Config!Scopes, Config!ScopeChosen(p, scope)
      PROVE  ConfigInv' /\ Config!BreaksByHand
  <2>1. Config!Shown(p, app[p], scope) /\ UNCHANGED <<cfile, saves>> /\ app[p].at = "dialog"
    BY <1>6 DEF Config!ScopeChosen
  <2>2. app[p].cfg \in Config!Texts /\ app[p].changes \in Config!Changes
    BY <1>0, <2>1 DEF DialogInv
  <2>3. saves' \in 0..MaxSaves
    BY <2>1 DEF ConfigInv
  <2>4. ConfigInv'
    BY <1>0, <2>1, <2>2, <2>3, ShownIsSound
  <2> QED
    BY <2>1, <2>4 DEF Config!BreaksByHand
<1>7. ASSUME NEW p \in Processes, Config!Replace(p)
      PROVE  ConfigInv' /\ Config!BreaksByHand
  <2> DEFINE other == CHOOSE s \in Config!Scopes : s # app[p].scope
             cfg == IF app[p].scope = "user"
                    THEN Config!Merged(app[p].after, cfile["project"])
                    ELSE Config!Merged(cfile["user"], app[p].after)
             q == IF cfile[other] = Config!Broken THEN Config!Away
                  ELSE [Config!Away EXCEPT !.at = "running", !.cfg = cfg]
  <2>1. /\ app[p].at = "writing" /\ Config!Write(app[p].scope, app[p].after, Processes \ {p})
        /\ app' = [app EXCEPT ![p] = q] /\ UNCHANGED saves
    BY <1>7 DEF Config!Replace
  <2>2. /\ app[p].after # Config!Broken /\ app[p].after \in Config!Texts
        /\ app[p].scope \in Config!Scopes
    BY <1>0, <2>1, PlannedType DEF DialogInv, Planned, Dialogs
  <2>3. /\ other \in Config!Scopes /\ other # app[p].scope
        /\ other = IF app[p].scope = "user" THEN "project" ELSE "user"
    BY <2>2 DEF Config!Scopes
  <2>4. cfile[other] # Config!Broken => cfg \in Config!Texts
    BY <1>0, <2>2, <2>3, MergedType DEF Texts
  <2>5. DialogInv(q) /\ ~(q.at \in {"dialog", "writing"}) /\ q \in Dialogs
    <3>1. CASE cfile[other] = Config!Broken
      BY <3>1, AwayIsSound DEF Config!Away
    <3>2. CASE cfile[other] # Config!Broken
      BY <3>2, <2>4, AwayIsSound DEF DialogInv
    <3> QED
      BY <3>1, <3>2
  <2> HIDE DEF q, other, cfg
  <2>6. /\ app'[p] = q /\ \A r \in Processes \ {p} : app'[r] = app[r]
        /\ app' \in [Processes -> Dialogs]
    BY <2>1, <2>5 DEF ConfigInv
  <2>7. /\ \A r \in Processes \ {p} : app'[r] = app[r]
        /\ \A r \in Processes \ (Processes \ {p}) :
             DialogInv(app[r])' /\ ~(app'[r].at \in {"dialog", "writing"})
    BY <2>5, <2>6 DEF DialogInv, Planned
  <2>8. app[p].after \in Texts /\ saves' \in 0..MaxSaves /\ Processes \ {p} \in SUBSET Processes
    BY <2>1, <2>2 DEF Texts, ConfigInv
  <2>9. ConfigInv'
    BY <2>1, <2>2, <2>6, <2>7, <2>8, WrittenIsSound
  <2>10. Config!BreaksByHand
    <3>1. cfile' = [cfile EXCEPT ![app[p].scope] = app[p].after]
      BY <2>1 DEF Config!Write
    <3>2. \A s \in Config!Scopes : cfile'[s] = cfile[s] \/ cfile'[s] = app[p].after
      BY <3>1 DEF ConfigInv
    <3> QED
      BY <2>2, <3>2 DEF Config!BreaksByHand
  <2> QED
    BY <2>9, <2>10
<1>8. ASSUME NEW s \in Config!Scopes, NEW text \in Config!Texts \cup {Config!Broken},
             Config!EditedByHand(s, text)
      PROVE  ConfigInv' /\ Config!BreaksByHand
  <2>1. /\ Config!Write(s, text, Processes) /\ UNCHANGED app /\ saves' \in 0..MaxSaves
        /\ cfile' = [cfile EXCEPT ![s] = text]
    BY <1>8, SavesAreBounded DEF Config!EditedByHand, Config!Write, ConfigInv
  <2>2. /\ app' \in [Processes -> Dialogs] /\ \A p \in Processes : app'[p] = app[p]
        /\ \A p \in Processes \ Processes :
             DialogInv(app[p])' /\ ~(app'[p].at \in {"dialog", "writing"})
        /\ Processes \in SUBSET Processes /\ text \in Texts
    BY <2>1 DEF ConfigInv, Texts
  <2>3. ConfigInv'
    BY <2>1, <2>2, WrittenIsSound
  <2>4. \A t \in Config!Scopes : cfile'[t] = IF t = s THEN text ELSE cfile[t]
    BY <2>1 DEF ConfigInv
  <2>5. Config!BreaksByHand
    BY <1>8, <2>4 DEF Config!BreaksByHand
  <2> QED
    BY <2>3, <2>5
<1> QED
  BY <1>1, <1>2, <1>3, <1>4, <1>5, <1>6, <1>7, <1>8 DEF Config!Next

(* A step that leaves the configuration alone keeps what holds of it.       *)
LEMMA ConfigRestsStep ==
  ASSUME ConfigInv, UNCHANGED cfgVars
  PROVE  ConfigInv'
<1>1. cfile' = cfile /\ app' = app /\ saves' = saves /\ moved' = moved
  BY DEF cfgVars
<1> QED
  BY <1>1 DEF ConfigInv, DialogInv, Planned

(* A confirmed save changes the settings its diff showed, in the file whose *)
(* diff it was; only an editor breaks a file (config_writer.py).            *)
THEOREM SavesAreConfirmed == Spec => ConfigurationIsKept
<1> DEFINE Inv == focus = "config" => ConfigInv
<1>1. Init => Inv
  BY ConfigInvInit DEF Init
<1>2. Inv /\ [Next]_allVars => Inv'
  <2> SUFFICES ASSUME Inv, [Next]_allVars, focus' = "config" PROVE ConfigInv'
    OBVIOUS
  <2>1. focus = "config" /\ (Config!Next \/ UNCHANGED cfgVars)
    BY DEF Next, TraceSteps, HistorySteps, ConfigSteps, StoreSteps, allVars
  <2> QED
    BY <2>1, ConfigStep, ConfigRestsStep
<1>3. Inv /\ [Next]_allVars => [focus = "config" => Config!BreaksByHand]_cfgVars
  <2> SUFFICES ASSUME Inv, [Next]_allVars, focus = "config", ~(UNCHANGED cfgVars)
               PROVE  Config!BreaksByHand
    OBVIOUS
  <2>1. Config!Next
    BY DEF Next, TraceSteps, HistorySteps, ConfigSteps, StoreSteps, allVars
  <2> QED
    BY <2>1, ConfigStep
<1>4. Inv => (focus = "config" => Config!SaveTouchesOnlyItsSettings)
  BY ConfigInvHolds
<1>5. Spec => Init /\ [][Next]_allVars
  BY DEF Spec, allVars
<1> HIDE DEF Inv
<1> QED
  BY <1>1, <1>2, <1>3, <1>4, <1>5, PTL DEF ConfigurationIsKept

-----------------------------------------------------------------------------
(* The sessions.                                                            *)
PCs == {"down", "retainEpisodes", "retainSessions", "opening", "idle", "turn",
        "readTitle", "readTitleTurn", "save", "saveTurn"}
Opens  == {"down", "retainEpisodes", "retainSessions", "opening"}
InTurn == {"turn", "readTitleTurn", "saveTurn"}

Process == [at : PCs, id : 0..MaxSessions, state : Seq(0..MaxAsks),
            title : Memory!Untitled..MaxAsks]
Stored(limit) ==
  [updated : 1..limit, title : Memory!Untitled..MaxAsks, state : Seq(0..MaxAsks)]
Archived == [ask : 0..MaxAsks, body : SUBSET (1..MaxAsks), ts : Nat]

StoreTypes ==
  /\ now \in Nat \ {0} /\ ids \in 0..MaxSessions /\ asks \in 0..MaxAsks
  /\ faults \in 0..MaxFaults
  /\ db \in [sessions : [Memory!Ids -> Stored(now) \cup {Memory!NoRow}],
             episodes : SUBSET Archived]
  /\ \A e \in db.episodes : e.ts \in 1..now
  /\ proc \in [Processes -> Process]
  /\ shared \subseteq Memory!Ids /\ finished \cup excused \subseteq 1..MaxAsks

(* A process has the session it made or found, and the ask of its turn is   *)
(* the end of its state.                                                    *)
Located(q) ==
  /\ IF q.at \in Opens THEN q.id = 0 ELSE q.id \in 1..ids
  /\ q.at \in InTurn => q.state # <<>> /\ q.state[Len(q.state)] # Memory!Summary

(* No id has a row before it is given to a process, and one that two of     *)
(* them have is known to be shared.                                         *)
OneProcess ==
  /\ \A i \in Memory!Ids : i > ids => db.sessions[i] = Memory!NoRow
  /\ \A p, q \in Processes :
       (p # q /\ proc[p].id = proc[q].id /\ proc[p].id # 0) => proc[p].id \in shared

(* The title was looked up, and none is written over one that is there.     *)
Named(q) ==
  (q.at \in {"save", "saveTurn"} /\ q.id \notin shared) =>
    LET row == db.sessions[q.id]
    IN row # Memory!NoRow /\ row.title # Memory!Untitled => q.title = Memory!Untitled

(* What the row of a session holds is in the memory of its process, or was  *)
(* archived.                                                                *)
Held == {n \in 1..MaxAsks : n \in excused \/ \E e \in db.episodes : n \in e.body}
Remembered(q) ==
  (q.id \in Memory!Ids \ shared /\ db.sessions[q.id] # Memory!NoRow) =>
    Memory!Said(db.sessions[q.id]) \subseteq Memory!Said(q) \cup Held

(* An episode of an ask has the ask in its body, and every answered ask has *)
(* its episode.                                                             *)
Covered ==
  /\ \A e \in db.episodes : e.ask # Memory!Summary => e.ask \in e.body
  /\ \A n \in finished \ excused : \E e \in db.episodes : e.ask = n

StoreInv ==
  /\ StoreTypes /\ OneProcess /\ Covered
  /\ \A p \in Processes : Located(proc[p]) /\ Named(proc[p]) /\ Remembered(proc[p])

(* The bounds of the store are numbers.                                     *)
LEMMA StoreIsBounded ==
  /\ MaxSessions \in Nat /\ MaxAsks \in Nat /\ MaxFaults \in Nat
  /\ CapEpisodes \in Nat /\ CapSessions \in Nat /\ ByAge \in BOOLEAN
BY HomeAssumption

(* It gives what the runs check of the sessions.                            *)
LEMMA StoreInvHolds ==
  ASSUME StoreInv
  PROVE  Memory!TypeOK /\ Memory!EpisodesCoverSessions
<1>1. Memory!TypeOK
  BY DEF StoreInv, StoreTypes, Memory!TypeOK, Memory!Row, Stored, Process, Memory!Ids
<1>2. Memory!EpisodesCoverSessions
  BY DEF StoreInv, Covered, Memory!EpisodesCoverSessions
<1> QED
  BY <1>1, <1>2

(* It holds at first.                                                       *)
LEMMA StoreInvInit ==
  ASSUME Memory!Init PROVE StoreInv
<1>1. /\ db.episodes = {} /\ finished = {} /\ excused = {} /\ shared = {}
      /\ db.sessions = [i \in Memory!Ids |-> Memory!NoRow]
      /\ now = 1 /\ ids = 0 /\ asks = 0 /\ faults = 0
      /\ db \in [sessions : [Memory!Ids -> Stored(now) \cup {Memory!NoRow}],
                 episodes : SUBSET Archived]
  BY DEF Memory!Init
<1>2. Memory!Away \in Process /\ Memory!Away.at = "down" /\ Memory!Away.id = 0
  BY StoreIsBounded DEF Memory!Away, Process, PCs, Memory!Untitled
<1>3. \A p \in Processes : proc[p] = Memory!Away
  BY DEF Memory!Init
<1>4. proc \in [Processes -> Process]
  BY <1>2 DEF Memory!Init
<1>5. StoreTypes
  BY <1>1, <1>4, StoreIsBounded DEF StoreTypes
<1>6. OneProcess /\ Covered
  BY <1>1, <1>2, <1>3 DEF OneProcess, Covered
<1>7. \A p \in Processes : Located(proc[p]) /\ Named(proc[p]) /\ Remembered(proc[p])
  BY <1>2, <1>3 DEF Located, Named, Remembered, Opens, InTurn, Memory!Ids
<1> QED
  BY <1>5, <1>6, <1>7 DEF StoreInv

(* What a step has to show that adds nothing to a row: it may drop some, it *)
(* keeps what is held, and those of the processes that it moves are sound.  *)
LEMMA StoreKept ==
  ASSUME StoreInv, StoreTypes', Covered',
         \A i \in Memory!Ids : db'.sessions[i] \in {db.sessions[i], Memory!NoRow},
         Held \subseteq Held', shared \subseteq shared', ids <= ids',
         NEW P \in SUBSET Processes, \A r \in Processes \ P : proc'[r] = proc[r],
         \A p \in P : /\ Located(proc[p])' /\ Named(proc[p])' /\ Remembered(proc[p])'
                      /\ \A r \in Processes \ {p} :
                           (proc'[r].id = proc'[p].id /\ proc'[p].id # 0)
                             => proc'[p].id \in shared'
  PROVE  StoreInv'
<1>1. \A p \in Processes : proc[p] \in Process
  BY DEF StoreInv, StoreTypes
<1>2. OneProcess'
  <2>1. \A i \in Memory!Ids : i > ids' => db'.sessions[i] = Memory!NoRow
    BY DEF StoreInv, OneProcess, StoreTypes, Memory!Ids
  <2>2. ASSUME NEW p \in Processes, NEW r \in Processes, p # r,
               proc'[p].id = proc'[r].id, proc'[p].id # 0
        PROVE  proc'[p].id \in shared'
    <3>1. CASE p \in P \/ r \in P
      BY <2>2, <3>1
    <3>2. CASE p \notin P /\ r \notin P
      BY <2>2, <3>2 DEF StoreInv, OneProcess
    <3> QED
      BY <3>1, <3>2
  <2> QED
    BY <2>1, <2>2 DEF OneProcess
<1>3. ASSUME NEW p \in Processes, p \notin P
      PROVE  Located(proc[p])' /\ Named(proc[p])' /\ Remembered(proc[p])'
  <2>1. proc'[p] = proc[p] /\ Located(proc[p]) /\ Named(proc[p]) /\ Remembered(proc[p])
    BY <1>3 DEF StoreInv
  <2>2. ids \in Nat /\ ids' \in Nat /\ ids' <= MaxSessions /\ MaxSessions \in Nat
    BY StoreIsBounded DEF StoreInv, StoreTypes
  <2>3. Located(proc[p])'
    BY <2>1, <2>2 DEF Located
  <2>4. Named(proc[p])'
    <3> SUFFICES ASSUME proc[p].at \in {"save", "saveTurn"}, proc[p].id \notin shared',
                        db'.sessions[proc[p].id] # Memory!NoRow,
                        db'.sessions[proc[p].id].title # Memory!Untitled
                 PROVE  proc[p].title = Memory!Untitled
      BY <2>1 DEF Named
    <3>1. proc[p].id \in Memory!Ids
      BY <2>1, <2>2 DEF Located, Opens, Memory!Ids, StoreInv, StoreTypes
    <3>2. db'.sessions[proc[p].id] = db.sessions[proc[p].id]
      BY <3>1
    <3> QED
      BY <2>1, <3>2 DEF Named
  <2>5. Remembered(proc[p])'
    BY <2>1 DEF Remembered, Memory!Said
  <2> QED
    BY <2>3, <2>4, <2>5
<1> QED
  BY <1>2, <1>3 DEF StoreInv

(* Steps that leave the tables alone: those of a process in its memory.     *)
LEMMA QuietStep ==
  ASSUME StoreInv, UNCHANGED <<db, now>>, NEW p \in Processes, NEW q \in Process,
         proc' = [proc EXCEPT ![p] = q],
         ids' \in 0..MaxSessions, ids <= ids', asks' \in 0..MaxAsks,
         faults' \in 0..MaxFaults, shared \subseteq shared', shared' \subseteq Memory!Ids,
         finished' \cup excused' \subseteq 1..MaxAsks, excused \subseteq excused',
         finished' \subseteq finished \cup excused',
         Located(q)', Named(q)', Remembered(q)',
         \A r \in Processes \ {p} : (proc[r].id = q.id /\ q.id # 0) => q.id \in shared'
  PROVE  StoreInv'
<1>1. /\ proc'[p] = q /\ proc' \in [Processes -> Process]
      /\ \A r \in Processes \ {p} : proc'[r] = proc[r]
  BY DEF StoreInv, StoreTypes
<1>2. StoreTypes'
  BY <1>1 DEF StoreInv, StoreTypes
<1>3. Covered'
  BY DEF StoreInv, Covered
<1>4. Held \subseteq Held'
  BY DEF Held
<1>5. \A x \in {p} : /\ Located(proc[x])' /\ Named(proc[x])' /\ Remembered(proc[x])'
                     /\ \A r \in Processes \ {x} :
                          (proc'[r].id = proc'[x].id /\ proc'[x].id # 0)
                            => proc'[x].id \in shared'
  BY <1>1 DEF Located, Named, Remembered, Memory!Said
<1>6. {p} \in SUBSET Processes
  OBVIOUS
<1> QED
  BY <1>1, <1>2, <1>3, <1>4, <1>5, <1>6, StoreKept

(* The facts every step of a process starts from.                           *)
LEMMA StoreFacts ==
  ASSUME StoreInv, NEW p \in Processes
  PROVE  /\ proc[p] \in Process /\ Located(proc[p]) /\ Named(proc[p]) /\ Remembered(proc[p])
         /\ \A r \in Processes \ {p} :
              (proc[r].id = proc[p].id /\ proc[p].id # 0) => proc[p].id \in shared
         /\ Memory!Away \in Process /\ Memory!Away.at = "down" /\ Memory!Away.id = 0
         /\ Memory!Away.state = <<>> /\ Memory!Away.title = Memory!Untitled
         /\ proc[p].id \in 0..ids /\ ids \in 0..MaxSessions /\ MaxSessions \in Nat
<1>1. /\ proc[p] \in Process /\ Located(proc[p]) /\ Named(proc[p]) /\ Remembered(proc[p])
      /\ \A r \in Processes \ {p} :
           (proc[r].id = proc[p].id /\ proc[p].id # 0) => proc[p].id \in shared
      /\ ids \in 0..MaxSessions /\ MaxSessions \in Nat
  BY StoreIsBounded DEF StoreInv, StoreTypes, OneProcess
<1>2. Memory!Away \in Process /\ Memory!Away.at = "down" /\ Memory!Away.id = 0
      /\ Memory!Away.state = <<>> /\ Memory!Away.title = Memory!Untitled
  BY StoreIsBounded DEF Memory!Away, Process, PCs, Memory!Untitled
<1>3. proc[p].id \in 0..ids
  BY <1>1 DEF Located
<1> QED
  BY <1>1, <1>2, <1>3

(* A process that goes on without a session, or ends.                       *)
LEMMA Unopened ==
  ASSUME StoreInv, UNCHANGED <<db, now, ids, asks, shared, finished, excused>>,
         faults' \in 0..MaxFaults, NEW p \in Processes, NEW pc \in Opens,
         Memory!Goes(p, [Memory!Away EXCEPT !.at = pc])
  PROVE  StoreInv'
<1> PICK q : q = [Memory!Away EXCEPT !.at = pc]
  OBVIOUS
<1>1. q \in Process /\ q.at = pc /\ q.id = 0
  BY StoreFacts DEF Process, Opens, PCs
<1>2. proc' = [proc EXCEPT ![p] = q]
  BY DEF Memory!Goes
<1>3. Located(q)' /\ Named(q)' /\ Remembered(q)'
  BY <1>1 DEF Located, Named, Remembered, Opens, InTurn, Memory!Ids
<1>4. /\ ids' \in 0..MaxSessions /\ ids <= ids' /\ asks' \in 0..MaxAsks
      /\ shared' \subseteq Memory!Ids /\ finished' \cup excused' \subseteq 1..MaxAsks
  BY DEF StoreInv, StoreTypes
<1> QED
  BY <1>1, <1>2, <1>3, <1>4, QuietStep

(* The same for the process that ends.                                      *)
LEMMA Ends ==
  ASSUME StoreInv, UNCHANGED <<db, now, ids, asks, shared, finished, excused>>,
         faults' \in 0..MaxFaults, NEW p \in Processes, Memory!Goes(p, Memory!Away)
  PROVE  StoreInv'
<1>1. Memory!Away = [Memory!Away EXCEPT !.at = "down"] /\ "down" \in Opens
  BY DEF Memory!Away, Opens
<1> QED
  BY <1>1, Unopened

(* A process that stays in its session with the state it has: it is at      *)
(* another point of it, and may have thought of a title.                    *)
LEMMA StaysInSession ==
  ASSUME StoreInv, UNCHANGED <<db, now, ids, asks, shared>>, faults' \in 0..MaxFaults,
         finished' \cup excused' \subseteq 1..MaxAsks, excused \subseteq excused',
         finished' \subseteq finished \cup excused',
         NEW p \in Processes, proc[p].at \notin Opens, NEW pc \in PCs \ Opens,
         NEW title \in Memory!Untitled..MaxAsks,
         Memory!Goes(p, [proc[p] EXCEPT !.at = pc, !.title = title]),
         pc \in InTurn => proc[p].at \in InTurn,
         pc \in {"save", "saveTurn"} =>
           LET row == db.sessions[proc[p].id]
           IN row # Memory!NoRow /\ row.title # Memory!Untitled => title = Memory!Untitled
  PROVE  StoreInv'
<1> PICK q : q = [proc[p] EXCEPT !.at = pc, !.title = title]
  OBVIOUS
<1>1. /\ q \in Process /\ q.at = pc /\ q.title = title /\ q.id = proc[p].id
      /\ q.state = proc[p].state
  BY StoreFacts DEF Process
<1>2. proc' = [proc EXCEPT ![p] = q]
  BY DEF Memory!Goes
<1>3. Located(q)'
  BY <1>1, StoreFacts DEF Located
<1>4. Named(q)'
  BY <1>1 DEF Named
<1>5. Remembered(q)'
  <2>1. Held \subseteq Held'
    BY DEF Held
  <2>2. Remembered(proc[p])
    BY StoreFacts
  <2> QED
    BY <1>1, <2>1, <2>2 DEF Remembered, Memory!Said
<1>6. /\ ids' \in 0..MaxSessions /\ ids <= ids' /\ asks' \in 0..MaxAsks
      /\ shared' \subseteq Memory!Ids
  BY DEF StoreInv, StoreTypes
<1>7. \A r \in Processes \ {p} : (proc[r].id = q.id /\ q.id # 0) => q.id \in shared'
  BY <1>1, StoreFacts
<1> QED
  BY <1>1, <1>2, <1>3, <1>4, <1>5, <1>6, <1>7, QuietStep

(* A new session has an id nobody has had.                                  *)
LEMMA NewSessionStep ==
  ASSUME StoreInv, NEW p \in Processes, Memory!NewSession(p)
  PROVE  StoreInv'
<1> PICK q : q = [at |-> "readTitle", id |-> ids + 1, state |-> <<>>,
                  title |-> Memory!Untitled]
  OBVIOUS
<1>1. /\ ids < MaxSessions /\ ids' = ids + 1 /\ proc' = [proc EXCEPT ![p] = q]
      /\ UNCHANGED <<db, now, asks, faults, shared, finished, excused>>
  BY DEF Memory!NewSession, Memory!Goes
<1>2. ids' \in 1..MaxSessions /\ ids \in Nat /\ ids + 1 \in Memory!Ids
  BY <1>1, StoreFacts DEF Memory!Ids
<1>3. /\ q.at = "readTitle" /\ q.id = ids + 1 /\ q.state = <<>>
      /\ q.title = Memory!Untitled /\ q \in Process
  BY <1>1, <1>2, StoreIsBounded DEF Process, PCs, Memory!Untitled
<1>4. Located(q)'
  BY <1>1, <1>2, <1>3 DEF Located, Opens, InTurn
<1>5. Named(q)'
  BY <1>3 DEF Named
<1>6. db.sessions[ids + 1] = Memory!NoRow
  BY <1>2 DEF StoreInv, OneProcess
<1>7. Remembered(q)'
  BY <1>1, <1>3, <1>6 DEF Remembered
<1>8. \A r \in Processes \ {p} : proc[r].id # q.id
  BY <1>2, <1>3, StoreFacts
<1>9. /\ ids' \in 0..MaxSessions /\ ids <= ids' /\ asks' \in 0..MaxAsks
      /\ faults' \in 0..MaxFaults
      /\ shared' \subseteq Memory!Ids /\ finished' \cup excused' \subseteq 1..MaxAsks
  BY <1>1, <1>2 DEF StoreInv, StoreTypes
<1> QED
  BY <1>1, <1>3, <1>4, <1>5, <1>7, <1>8, <1>9, QuietStep

(* A process takes a session over; another one that has it is remembered.   *)
LEMMA TakesStep ==
  ASSUME StoreInv, NEW p \in Processes, NEW id \in Memory!Ids,
         Memory!HasRow(db, id), Memory!Takes(p, id)
  PROVE  StoreInv'
<1> PICK q : q = [Memory!Away EXCEPT !.at = "idle", !.id = id,
                                     !.state = db.sessions[id].state]
  OBVIOUS
<1>1. /\ proc' = [proc EXCEPT ![p] = q]
      /\ UNCHANGED <<db, now, ids, asks, faults, finished, excused>>
  BY DEF Memory!Takes, Memory!Goes
<1>2. db.sessions[id] \in Stored(now) /\ id \in 1..ids
  BY StoreIsBounded DEF Memory!HasRow, StoreInv, StoreTypes, OneProcess, Memory!Ids
<1>10. db.sessions[id].state \in Seq(0..MaxAsks) /\ id \in 0..MaxSessions
  BY <1>2, StoreIsBounded DEF Stored, StoreInv, StoreTypes
<1>3. q \in Process /\ q.at = "idle" /\ q.id = id /\ q.state = db.sessions[id].state
  <2>1. Memory!Away \in Process
    BY StoreFacts
  <2> QED
    BY <1>10, <2>1 DEF Process, PCs
<1>4. Located(q)' /\ Named(q)'
  BY <1>1, <1>2, <1>3 DEF Located, Named, Opens, InTurn
<1>5. Remembered(q)'
  BY <1>1, <1>3 DEF Remembered, Memory!Said
<1>6. /\ shared \subseteq shared' /\ shared' \subseteq Memory!Ids
      /\ (\E r \in Processes \ {p} : proc[r].at # "down" /\ proc[r].id = id)
           => id \in shared'
  BY DEF Memory!Takes, StoreInv, StoreTypes
<1>7. \A r \in Processes \ {p} : proc[r].id = id => proc[r].at # "down"
  BY <1>2, StoreFacts DEF Located, Opens
<1>8. \A r \in Processes \ {p} : (proc[r].id = q.id /\ q.id # 0) => q.id \in shared'
  BY <1>3, <1>6, <1>7
<1>9. /\ ids' \in 0..MaxSessions /\ ids <= ids' /\ asks' \in 0..MaxAsks
      /\ faults' \in 0..MaxFaults /\ finished' \cup excused' \subseteq 1..MaxAsks
  BY <1>1 DEF StoreInv, StoreTypes
<1> QED
  BY <1>1, <1>3, <1>4, <1>5, <1>6, <1>8, <1>9, QuietStep

(* A prompt is added at the end of the state.                               *)
LEMMA AskStep ==
  ASSUME StoreInv, NEW p \in Processes, Memory!Ask(p)
  PROVE  StoreInv'
<1> PICK q : q = [proc[p] EXCEPT !.at = "turn", !.state = Append(proc[p].state, asks + 1)]
  OBVIOUS
<1>1. /\ proc[p].at = "idle" /\ asks < MaxAsks /\ asks' = asks + 1
      /\ proc' = [proc EXCEPT ![p] = q]
      /\ UNCHANGED <<db, now, ids, faults, shared, finished, excused>>
  BY DEF Memory!Ask, Memory!Goes
<1>2. asks + 1 \in 1..MaxAsks
  BY <1>1, StoreIsBounded DEF StoreInv, StoreTypes
<1>3. /\ q \in Process /\ q.at = "turn" /\ q.id = proc[p].id
      /\ q.state = Append(proc[p].state, asks + 1) /\ proc[p].state \in Seq(0..MaxAsks)
  <2>1. proc[p] \in Process /\ MaxAsks \in Nat
    BY StoreFacts, StoreIsBounded
  <2>2. proc[p].state \in Seq(0..MaxAsks) /\ asks + 1 \in 0..MaxAsks
    BY <1>2, <2>1 DEF Process
  <2>3. Append(proc[p].state, asks + 1) \in Seq(0..MaxAsks)
    BY <2>2
  <2> QED
    BY <2>1, <2>2, <2>3 DEF Process, PCs
<1>4. /\ Len(q.state) = Len(proc[p].state) + 1 /\ q.state # <<>>
      /\ q.state[Len(q.state)] = asks + 1
      /\ \A i \in DOMAIN proc[p].state :
           i \in DOMAIN q.state /\ q.state[i] = proc[p].state[i]
  BY <1>2, <1>3
<1>5. Located(q)'
  BY <1>1, <1>2, <1>3, <1>4, StoreFacts DEF Located, Opens, Memory!Summary
<1>6. Memory!Said(proc[p]) \subseteq Memory!Said(q)
  BY <1>4 DEF Memory!Said
<1>7. Remembered(q)' /\ Named(q)'
  <2>1. Remembered(proc[p])
    BY StoreFacts
  <2>2. /\ Held' = Held /\ \A i \in Memory!Ids : Memory!Said(db.sessions[i])' = Memory!Said(db.sessions[i])
        /\ Memory!Said(q)' = Memory!Said(q)
    BY <1>1 DEF Held, Memory!Said
  <2>3. Remembered(q)'
    BY <1>1, <1>3, <1>6, <2>1, <2>2 DEF Remembered
  <2> QED
    BY <1>3, <2>3 DEF Named
<1>8. \A r \in Processes \ {p} : (proc[r].id = q.id /\ q.id # 0) => q.id \in shared'
  BY <1>1, <1>3, StoreFacts
<1>9. /\ ids' \in 0..MaxSessions /\ ids <= ids' /\ asks' \in 0..MaxAsks
      /\ faults' \in 0..MaxFaults /\ finished' \cup excused' \subseteq 1..MaxAsks
      /\ shared' \subseteq Memory!Ids
  BY <1>1, <1>2 DEF StoreInv, StoreTypes
<1> QED
  BY <1>1, <1>3, <1>5, <1>7, <1>8, <1>9, QuietStep

(* The title is thought of where there is none in the row.                  *)
LEMMA ReadTitleStep ==
  ASSUME StoreInv, NEW p \in Processes, Memory!ReadTitle(p)
  PROVE  StoreInv'
<1> PICK pc : pc = IF proc[p].at = "readTitle" THEN "save" ELSE "saveTurn"
  OBVIOUS
<1> PICK title : title =
      IF db.sessions[proc[p].id] # Memory!NoRow
         /\ db.sessions[proc[p].id].title # Memory!Untitled
      THEN Memory!Untitled ELSE Memory!TitleOf(proc[p].state)
  OBVIOUS
<1>1. /\ proc[p].at \in {"readTitle", "readTitleTurn"}
      /\ Memory!Goes(p, [proc[p] EXCEPT !.at = pc, !.title = title])
      /\ UNCHANGED <<db, now, ids, asks, faults, shared, finished, excused>>
  BY DEF Memory!ReadTitle, Memory!Goes
<1>2. proc[p].state \in Seq(0..MaxAsks) /\ MaxAsks \in Nat
  BY StoreFacts, StoreIsBounded DEF Process
<1>3. Memory!TitleOf(proc[p].state) \in Memory!Untitled..MaxAsks
  BY <1>2 DEF Memory!TitleOf, Memory!Untitled
<1>4. title \in Memory!Untitled..MaxAsks
  BY <1>2, <1>3 DEF Memory!Untitled
<1>5. /\ pc \in PCs \ Opens /\ (pc \in InTurn => proc[p].at \in InTurn)
      /\ proc[p].at \notin Opens
  BY <1>1 DEF PCs, Opens, InTurn
<1>6. /\ faults' \in 0..MaxFaults /\ finished' \cup excused' \subseteq 1..MaxAsks
      /\ excused \subseteq excused' /\ finished' \subseteq finished \cup excused'
  BY <1>1 DEF StoreInv, StoreTypes
<1> QED
  BY <1>1, <1>4, <1>5, <1>6, StaysInSession

(* A turn that stops goes to its save.                                      *)
LEMMA TurnStopsStep ==
  ASSUME StoreInv, NEW p \in Processes, Memory!TurnStops(p)
  PROVE  StoreInv'
<1> PICK title : title = proc[p].title
  OBVIOUS
<1>1. proc[p] \in Process
  BY StoreFacts
<1>2. /\ proc[p].at = "turn" /\ title \in Memory!Untitled..MaxAsks
      /\ Memory!Goes(p, [proc[p] EXCEPT !.at = "readTitle", !.title = title])
      /\ UNCHANGED <<db, now, ids, asks, faults, shared, finished, excused>>
  BY <1>1 DEF Memory!TurnStops, Memory!Goes, Process
<1>3. /\ "readTitle" \in PCs \ Opens /\ "readTitle" \notin InTurn /\ proc[p].at \notin Opens
  BY <1>2 DEF PCs, Opens, InTurn
<1>4. /\ faults' \in 0..MaxFaults /\ finished' \cup excused' \subseteq 1..MaxAsks
      /\ excused \subseteq excused' /\ finished' \subseteq finished \cup excused'
  BY <1>2 DEF StoreInv, StoreTypes
<1> QED
  BY <1>2, <1>3, <1>4, StaysInSession

(* An episode is written.                                                   *)
LEMMA ArchivedIsKept ==
  ASSUME StoreInv, NEW p \in Processes, NEW q \in Process,
         proc' = [proc EXCEPT ![p] = q],
         NEW task \in 0..MaxAsks, NEW body \in SUBSET (1..MaxAsks),
         task # Memory!Summary => task \in body,
         Memory!Commits(Memory!Episode(p, task, body)),
         UNCHANGED <<ids, asks, shared, excused>>,
         finished' \subseteq finished \cup {task}, finished' \subseteq 1..MaxAsks,
         Located(q)', q.at \notin {"save", "saveTurn"}, q.id = proc[p].id,
         Memory!Said(proc[p]) \subseteq Memory!Said(q) \cup body
  PROVE  StoreInv'
<1>1. /\ db' = [db EXCEPT !.episodes = db.episodes \cup {[ask |-> task, body |-> body, ts |-> now]}]
      /\ now' = now + 1 /\ UNCHANGED faults
  BY DEF Memory!Commits, Memory!Episode
<1>2. /\ db'.sessions = db.sessions
      /\ db'.episodes = db.episodes \cup {[ask |-> task, body |-> body, ts |-> now]}
  BY <1>1 DEF StoreInv, StoreTypes
<1>3. /\ now \in Nat \ {0} /\ [ask |-> task, body |-> body, ts |-> now] \in Archived
      /\ db.episodes \subseteq Archived
      /\ \A i \in Memory!Ids : db.sessions[i] \in Stored(now) \cup {Memory!NoRow}
  BY DEF StoreInv, StoreTypes, Archived
<1>4. Stored(now) \subseteq Stored(now')
  BY <1>1, <1>3 DEF Stored
<1>5. db' \in [sessions : [Memory!Ids -> Stored(now') \cup {Memory!NoRow}],
               episodes : SUBSET Archived]
  BY <1>1, <1>2, <1>3, <1>4 DEF StoreInv, StoreTypes
<1>6. \A e \in db'.episodes : e.ts \in 1..now'
  <2>1. \A e \in db.episodes : e.ts \in 1..now
    BY DEF StoreInv, StoreTypes
  <2> QED
    BY <1>1, <1>2, <1>3, <2>1
<1>7. /\ proc'[p] = q /\ proc' \in [Processes -> Process]
      /\ \A r \in Processes \ {p} : proc'[r] = proc[r]
  BY DEF StoreInv, StoreTypes
<1>8. StoreTypes'
  BY <1>1, <1>3, <1>5, <1>6, <1>7 DEF StoreInv, StoreTypes
<1> PICK new : new = [ask |-> task, body |-> body, ts |-> now]
  OBVIOUS
<1>16. new.ask = task /\ new.body = body /\ db'.episodes = db.episodes \cup {new}
  BY <1>2
<1>9. Covered'
  <2>1. \A e \in db'.episodes : e.ask # Memory!Summary => e.ask \in e.body
    BY <1>16 DEF StoreInv, Covered
  <2>2. ASSUME NEW n \in finished' \ excused' PROVE \E e \in db'.episodes : e.ask = n
    <3>1. CASE n = task
      BY <3>1, <1>16
    <3>2. CASE n # task
      <4>1. n \in finished \ excused
        BY <2>2, <3>2
      <4> QED
        BY <4>1, <1>16 DEF StoreInv, Covered
    <3> QED
      BY <3>1, <3>2
  <2> QED
    BY <2>1, <2>2 DEF Covered
<1>10. Held \subseteq Held' /\ body \subseteq Held'
  BY <1>16 DEF Held
<1>11. Remembered(q)'
  <2>1. Remembered(proc[p])
    BY StoreFacts
  <2>2. \A i \in Memory!Ids : Memory!Said(db.sessions[i])' = Memory!Said(db.sessions[i])
    BY <1>2 DEF Memory!Said
  <2>3. Memory!Said(q)' = Memory!Said(q)
    BY DEF Memory!Said
  <2> QED
    BY <1>2, <1>10, <2>1, <2>2, <2>3 DEF Remembered
<1>12. Named(q)'
  BY DEF Named
<1>13. \A r \in Processes \ {p} : (proc[r].id = q.id /\ q.id # 0) => q.id \in shared'
  BY StoreFacts
<1>14. \A x \in {p} : /\ Located(proc[x])' /\ Named(proc[x])' /\ Remembered(proc[x])'
                      /\ \A r \in Processes \ {x} :
                          (proc'[r].id = proc'[x].id /\ proc'[x].id # 0)
                            => proc'[x].id \in shared'
  BY <1>7, <1>11, <1>12, <1>13 DEF Located, Named, Remembered, Memory!Said
<1>15. /\ \A i \in Memory!Ids : db'.sessions[i] \in {db.sessions[i], Memory!NoRow}
       /\ shared \subseteq shared' /\ ids <= ids' /\ {p} \in SUBSET Processes
  BY <1>2 DEF StoreInv, StoreTypes
<1> QED
  BY <1>7, <1>8, <1>9, <1>10, <1>14, <1>15, StoreKept

(* The episode of an answer.                                                *)
LEMMA AnswerStep ==
  ASSUME StoreInv, NEW p \in Processes, Memory!Answer(p)
  PROVE  StoreInv'
<1> PICK n : n = proc[p].state[Len(proc[p].state)]
  OBVIOUS
<1>1. /\ proc[p].at = "turn" /\ finished' = finished \cup {n}
      /\ UNCHANGED <<ids, asks, shared>>
  BY DEF Memory!Answer
<1>2. proc[p] \in Process /\ proc[p].state \in Seq(0..MaxAsks) /\ MaxAsks \in Nat
  BY StoreFacts, StoreIsBounded DEF Process
<1>3. proc[p].state # <<>> /\ n # 0
  BY <1>1, StoreFacts DEF Located, InTurn, Memory!Summary
<1>4. n \in 1..MaxAsks
  BY <1>2, <1>3
<1>5. finished' \subseteq 1..MaxAsks /\ excused \subseteq 1..MaxAsks
  BY <1>1, <1>4 DEF StoreInv, StoreTypes
<1>6. CASE /\ Memory!Commits(Memory!Episode(p, n, {n}))
           /\ Memory!Goes(p, [proc[p] EXCEPT !.at = "readTitle"]) /\ UNCHANGED excused
  <2> PICK q : q = [proc[p] EXCEPT !.at = "readTitle"]
    OBVIOUS
  <2>1. q \in Process /\ q.at = "readTitle" /\ q.id = proc[p].id /\ q.state = proc[p].state
    BY <1>2 DEF Process, PCs
  <2>2. proc' = [proc EXCEPT ![p] = q]
    BY <1>6 DEF Memory!Goes
  <2>3. Located(q)'
    BY <1>1, <2>1, StoreFacts DEF Located, Opens, InTurn
  <2>4. Memory!Said(proc[p]) \subseteq Memory!Said(q) \cup {n}
    BY <2>1 DEF Memory!Said
  <2>5. n \in 0..MaxAsks /\ {n} \in SUBSET (1..MaxAsks) /\ finished' \subseteq finished \cup {n}
    BY <1>1, <1>4
  <2> QED
    BY <1>1, <1>5, <1>6, <2>1, <2>2, <2>3, <2>4, <2>5, ArchivedIsKept
<1>7. CASE /\ Memory!Raises /\ Memory!Goes(p, [proc[p] EXCEPT !.at = "idle"])
           /\ excused' = excused \cup {n}
  <2> PICK title : title = proc[p].title
    OBVIOUS
  <2>1. /\ title \in Memory!Untitled..MaxAsks
        /\ Memory!Goes(p, [proc[p] EXCEPT !.at = "idle", !.title = title])
    BY <1>2, <1>7 DEF Memory!Goes, Process
  <2>2. /\ UNCHANGED <<db, now>> /\ faults' \in 0..MaxFaults
    BY <1>7, StoreIsBounded DEF Memory!Raises, StoreInv, StoreTypes
  <2>3. /\ finished' \cup excused' \subseteq 1..MaxAsks /\ excused \subseteq excused'
        /\ finished' \subseteq finished \cup excused'
    BY <1>1, <1>4, <1>5, <1>7
  <2>4. "idle" \in PCs \ Opens /\ "idle" \notin InTurn /\ proc[p].at \notin Opens
    BY <1>1 DEF PCs, Opens, InTurn
  <2> QED
    BY <1>1, <2>1, <2>2, <2>3, <2>4, StaysInSession
<1> QED
  BY <1>6, <1>7 DEF Memory!Answer

(* A compaction: what leaves the state is archived, or excused.             *)
LEMMA CompactStep ==
  ASSUME StoreInv, NEW p \in Processes, Memory!Compact(p)
  PROVE  StoreInv'
<1> PICK s : s = proc[p].state
  OBVIOUS
<1> PICK said : said = {SubSeq(s, 1, Len(s) - 1)[i] : i \in DOMAIN SubSeq(s, 1, Len(s) - 1)}
                         \ {Memory!Summary}
  OBVIOUS
<1> PICK q : q = [proc[p] EXCEPT !.at = "readTitleTurn",
                                 !.state = <<Memory!Summary, s[Len(s)]>>]
  OBVIOUS
<1>1. /\ proc[p].at = "turn" /\ proc' = [proc EXCEPT ![p] = q]
      /\ \/ /\ Memory!Commits(Memory!Episode(p, Memory!Summary, said)) /\ UNCHANGED excused
         \/ Memory!Raises /\ excused' = excused \cup said
      /\ UNCHANGED <<ids, asks, shared, finished>>
  BY DEF Memory!Compact, Memory!Goes
<1>2. proc[p] \in Process /\ s \in Seq(0..MaxAsks) /\ MaxAsks \in Nat
  BY StoreFacts, StoreIsBounded DEF Process
<1>3. s # <<>> /\ s[Len(s)] # 0 /\ Len(s) \in Nat \ {0} /\ s[Len(s)] \in 0..MaxAsks
  <2>1. s # <<>> /\ s[Len(s)] # 0
    BY <1>1, StoreFacts DEF Located, InTurn, Memory!Summary
  <2> QED
    BY <1>2, <2>1
<1>4. <<Memory!Summary, s[Len(s)]>> \in Seq(0..MaxAsks)
  BY <1>2, <1>3 DEF Memory!Summary
<1>5. /\ q \in Process /\ q.at = "readTitleTurn" /\ q.id = proc[p].id
      /\ q.state = <<Memory!Summary, s[Len(s)]>>
  BY <1>2, <1>4 DEF Process, PCs
<1>6. /\ q.state # <<>> /\ Len(q.state) = 2 /\ q.state[2] = s[Len(s)] /\ 2 \in DOMAIN q.state
  BY <1>5
<1>7. Located(q)'
  BY <1>1, <1>3, <1>5, <1>6, StoreFacts DEF Located, Opens, InTurn, Memory!Summary
<1>8. /\ \A i \in 1..Len(s) - 1 : i \in DOMAIN SubSeq(s, 1, Len(s) - 1)
                                   /\ SubSeq(s, 1, Len(s) - 1)[i] = s[i]
      /\ DOMAIN SubSeq(s, 1, Len(s) - 1) = 1..Len(s) - 1
  BY <1>2, <1>3
<1>9. said \in SUBSET (1..MaxAsks)
  <2>1. \A i \in 1..Len(s) - 1 : s[i] \in 0..MaxAsks
    BY <1>2, <1>3
  <2> QED
    BY <1>8, <2>1 DEF Memory!Summary
<1>10. Memory!Said(proc[p]) \subseteq Memory!Said(q) \cup said
  <2> SUFFICES ASSUME NEW i \in DOMAIN s, s[i] # Memory!Summary
               PROVE  s[i] \in Memory!Said(q) \cup said
    BY DEF Memory!Said
  <2>1. i \in 1..Len(s)
    BY <1>2
  <2>2. CASE i = Len(s)
    BY <1>6, <2>2 DEF Memory!Said
  <2>3. CASE i # Len(s)
    <3>1. i \in 1..Len(s) - 1
      BY <1>3, <2>1, <2>3
    <3> QED
      BY <1>8, <3>1
  <2> QED
    BY <2>2, <2>3
<1>11. CASE Memory!Commits(Memory!Episode(p, Memory!Summary, said)) /\ UNCHANGED excused
  <2>1. /\ Memory!Summary \in 0..MaxAsks /\ finished' \subseteq finished \cup {Memory!Summary}
        /\ finished' \subseteq 1..MaxAsks /\ q.at \notin {"save", "saveTurn"}
    BY <1>1, <1>2, <1>5 DEF Memory!Summary, StoreInv, StoreTypes
  <2>2. UNCHANGED <<ids, asks, shared, excused>>
    BY <1>1, <1>11
  <2> QED
    BY <1>1, <1>5, <1>7, <1>9, <1>10, <1>11, <2>1, <2>2, ArchivedIsKept
<1>12. CASE Memory!Raises /\ excused' = excused \cup said
  <2>1. UNCHANGED <<db, now>> /\ faults' \in 0..MaxFaults
    BY <1>12, StoreIsBounded DEF Memory!Raises, StoreInv, StoreTypes
  <2>2. /\ ids' \in 0..MaxSessions /\ ids <= ids' /\ asks' \in 0..MaxAsks
        /\ shared \subseteq shared' /\ shared' \subseteq Memory!Ids
        /\ finished' \cup excused' \subseteq 1..MaxAsks /\ excused \subseteq excused'
        /\ finished' \subseteq finished \cup excused'
    BY <1>1, <1>9, <1>12 DEF StoreInv, StoreTypes
  <2>3. Named(q)'
    BY <1>5 DEF Named
  <2>4. Remembered(q)'
    <3>1. Remembered(proc[p])
      BY StoreFacts
    <3>2. \A i \in Memory!Ids : Memory!Said(db.sessions[i])' = Memory!Said(db.sessions[i])
      BY <2>1 DEF Memory!Said
    <3>3. Memory!Said(q)' = Memory!Said(q)
      BY DEF Memory!Said
    <3>4. Held \subseteq Held' /\ said \subseteq Held'
      BY <1>9, <1>12, <2>1 DEF Held
    <3> QED
      BY <1>1, <1>5, <1>10, <2>1, <3>1, <3>2, <3>3, <3>4 DEF Remembered
  <2>5. \A r \in Processes \ {p} : (proc[r].id = q.id /\ q.id # 0) => q.id \in shared'
    BY <1>1, <1>5, StoreFacts
  <2> QED
    BY <1>1, <1>5, <1>7, <2>1, <2>2, <2>3, <2>4, <2>5, QuietStep
<1> QED
  BY <1>1, <1>11, <1>12

(* Of the stamps of a table, the ones that stay are the newest.             *)
LEMMA PrunedIsNewest ==
  ASSUME NEW stamps \in SUBSET Nat, IsFiniteSet(stamps), NEW cutoff \in Nat,
         NEW keep \in Nat, NEW d \in stamps, NEW e \in stamps,
         d \notin Memory!Pruned(stamps, cutoff, keep),
         e \in Memory!Pruned(stamps, cutoff, keep)
  PROVE  d < e
<1> DEFINE young == {t \in stamps : t >= cutoff}
           newer(t) == {u \in young : u > t}
<1>1. CASE d < cutoff
  BY <1>1 DEF Memory!Pruned
<1>2. CASE d >= cutoff
  <2>1. keep # 0 /\ ~(Memory!Cardinality(newer(d)) < keep) /\ Memory!Cardinality(newer(e)) < keep
    BY <1>2 DEF Memory!Pruned
  <2>2. \A t : IsFiniteSet(newer(t)) /\ Cardinality(newer(t)) \in Nat
    <3> TAKE t
    <3>1. newer(t) \in SUBSET stamps
      OBVIOUS
    <3>2. IsFiniteSet(newer(t))
      BY <3>1, FS_Subset
    <3> QED
      BY <3>2, FS_CardinalityType
  <2>3. Memory!Cardinality(newer(d)) = Cardinality(newer(d))
        /\ Memory!Cardinality(newer(e)) = Cardinality(newer(e))
    BY DEF Memory!Cardinality, Cardinality, Memory!IsFiniteSet, IsFiniteSet
  <2> SUFFICES ASSUME e <= d PROVE FALSE
    OBVIOUS
  <2>4. newer(d) \subseteq newer(e)
    <3> SUFFICES ASSUME NEW u \in stamps, u >= cutoff, u > d PROVE u > e
      OBVIOUS
    <3> QED
      OBVIOUS
  <2>5. Cardinality(newer(d)) <= Cardinality(newer(e))
    BY <2>2, <2>4, FS_Subset
  <2> HIDE DEF newer
  <2> QED
    BY <2>1, <2>2, <2>3, <2>5
<1> QED
  BY <1>1, <1>2

(* Pruning the episodes.                                                    *)
LEMMA EpisodesPruned ==
  ASSUME StoreInv, NEW cutoff \in Nat, NEW keep \in Nat,
         db' = Memory!PruneEpisodes(db, cutoff, keep)
  PROVE  /\ db'.sessions = db.sessions /\ db'.episodes \in SUBSET db.episodes
         /\ db' \in [sessions : [Memory!Ids -> Stored(now) \cup {Memory!NoRow}],
                     episodes : SUBSET Archived]
         /\ Memory!DropsTheOldest
<1> PICK stamps : stamps = {e.ts : e \in db.episodes}
  OBVIOUS
<1> PICK kept : kept = Memory!Pruned(stamps, cutoff, keep)
  OBVIOUS
<1>1. db' = [db EXCEPT !.episodes = {e \in db.episodes : e.ts \in kept}]
  BY DEF Memory!PruneEpisodes
<1>2. /\ db'.sessions = db.sessions
      /\ db'.episodes = {e \in db.episodes : e.ts \in kept}
      /\ db' \in [sessions : [Memory!Ids -> Stored(now) \cup {Memory!NoRow}],
                  episodes : SUBSET Archived]
  BY <1>1 DEF StoreInv, StoreTypes
<1>3. now \in Nat /\ \A e \in db.episodes : e.ts \in 1..now
  BY DEF StoreInv, StoreTypes
<1>4. stamps \in SUBSET (1..now)
  BY <1>3
<1>5. IsFiniteSet(stamps)
  <2>1. IsFiniteSet(1..now)
    BY <1>3, FS_Interval
  <2> QED
    BY <1>4, <2>1, FS_Subset
<1>6. stamps \in SUBSET Nat
  BY <1>3, <1>4
<1>7. ASSUME NEW d \in db.episodes \ db'.episodes, NEW e \in db.episodes \cap db'.episodes
      PROVE  d.ts < e.ts
  <2>1. d.ts \in stamps /\ d.ts \notin kept /\ e.ts \in stamps /\ e.ts \in kept
    BY <1>2
  <2> QED
    BY <1>5, <1>6, <2>1, PrunedIsNewest
<1> QED
  BY <1>2, <1>7 DEF Memory!DropsTheOldest, Memory!HasRow

(* Pruning the sessions.                                                    *)
LEMMA SessionsPruned ==
  ASSUME StoreInv, NEW cutoff \in Nat, NEW keep \in Nat,
         db' = Memory!PruneSessions(db, cutoff, keep)
  PROVE  /\ db'.episodes = db.episodes
         /\ \A i \in Memory!Ids : db'.sessions[i] \in {db.sessions[i], Memory!NoRow}
         /\ db' \in [sessions : [Memory!Ids -> Stored(now) \cup {Memory!NoRow}],
                     episodes : SUBSET Archived]
         /\ Memory!DropsTheOldest
<1> PICK stamps : stamps = {db.sessions[i].updated : i \in Memory!Ids} \ {0}
  OBVIOUS
<1> PICK kept : kept = Memory!Pruned(stamps, cutoff, keep)
  OBVIOUS
<1> DEFINE rows == [i \in Memory!Ids |-> IF db.sessions[i].updated \in kept
                                        THEN db.sessions[i] ELSE Memory!NoRow]
<1>1. db' = [db EXCEPT !.sessions = rows]
  BY DEF Memory!PruneSessions
<1>2. \A i \in Memory!Ids : db.sessions[i] \in Stored(now) \cup {Memory!NoRow}
  BY DEF StoreInv, StoreTypes
<1>3. rows \in [Memory!Ids -> Stored(now) \cup {Memory!NoRow}]
  BY <1>2
<1>4. /\ db'.episodes = db.episodes /\ db'.sessions = rows
      /\ db' \in [sessions : [Memory!Ids -> Stored(now) \cup {Memory!NoRow}],
                  episodes : SUBSET Archived]
  <2> HIDE DEF rows
  <2> QED
    BY <1>1, <1>3 DEF StoreInv, StoreTypes
<1>5. now \in Nat /\ \A i \in Memory!Ids :
        /\ db.sessions[i].updated \in 0..now
        /\ db.sessions[i] # Memory!NoRow => db.sessions[i].updated # 0
  BY <1>2 DEF StoreInv, StoreTypes, Stored, Memory!NoRow
<1>6. stamps \in SUBSET (0..now)
  BY <1>5
<1>7. IsFiniteSet(stamps) /\ stamps \in SUBSET Nat
  <2>1. IsFiniteSet(0..now)
    BY <1>5, FS_Interval
  <2> QED
    BY <1>5, <1>6, <2>1, FS_Subset
<1>8. ASSUME NEW i \in Memory!Ids, NEW j \in Memory!Ids,
             Memory!HasRow(db, i), ~Memory!HasRow(db', i),
             Memory!HasRow(db, j), Memory!HasRow(db', j)
      PROVE  db.sessions[i].updated < db.sessions[j].updated
  <2>1. db.sessions[i].updated \in stamps /\ db.sessions[j].updated \in stamps
    BY <1>5, <1>8 DEF Memory!HasRow
  <2>2. db.sessions[i].updated \notin kept /\ db.sessions[j].updated \in kept
    BY <1>4, <1>8 DEF Memory!HasRow
  <2>3. PICK a, b : a = db.sessions[i].updated /\ b = db.sessions[j].updated
    OBVIOUS
  <2>4. /\ a \in stamps /\ b \in stamps
        /\ a \notin Memory!Pruned(stamps, cutoff, keep)
        /\ b \in Memory!Pruned(stamps, cutoff, keep)
    BY <2>1, <2>2, <2>3
  <2>5. stamps \in SUBSET Nat /\ IsFiniteSet(stamps)
    BY <1>7
  <2>6. a < b
    BY <2>4, <2>5, PrunedIsNewest
  <2> QED
    BY <2>3, <2>6
<1>9. \A i \in Memory!Ids : db'.sessions[i] \in {db.sessions[i], Memory!NoRow}
  BY <1>4
<1>10. Memory!DropsTheOldest
  BY <1>4, <1>8 DEF Memory!DropsTheOldest
<1> QED
  BY <1>4, <1>9, <1>10

(* What either of them, with what it excuses, does to the sessions of the   *)
(* processes: nothing.  The process that retains goes on without one.       *)
LEMMA PrunedIsKept ==
  ASSUME StoreInv, UNCHANGED <<now, ids, asks, shared, finished>>,
         faults' \in 0..MaxFaults,
         db' \in [sessions : [Memory!Ids -> Stored(now) \cup {Memory!NoRow}],
                  episodes : SUBSET Archived],
         \A i \in Memory!Ids : db'.sessions[i] \in {db.sessions[i], Memory!NoRow},
         db'.episodes \in SUBSET db.episodes,
         excused \subseteq excused', excused' \subseteq 1..MaxAsks,
         \A e \in db.episodes \ db'.episodes : e.body \subseteq excused',
         proc' \in [Processes -> Process], NEW P \in SUBSET Processes,
         \A r \in Processes \ P : proc'[r] = proc[r],
         \A p \in P : proc'[p].id = 0 /\ proc'[p].at \in Opens
  PROVE  StoreInv'
<1>1. StoreTypes'
  BY DEF StoreInv, StoreTypes
<1>2. Covered'
  <2>1. \A e \in db'.episodes : e.ask # Memory!Summary => e.ask \in e.body
    BY DEF StoreInv, Covered
  <2>2. ASSUME NEW n \in finished' \ excused' PROVE \E e \in db'.episodes : e.ask = n
    <3>1. n \in finished \ excused /\ n # Memory!Summary
      BY <2>2 DEF StoreInv, StoreTypes, Memory!Summary
    <3>2. PICK e \in db.episodes : e.ask = n /\ n \in e.body
      BY <3>1 DEF StoreInv, Covered
    <3> QED
      BY <2>2, <3>2
  <2> QED
    BY <2>1, <2>2 DEF Covered
<1>3. Held \subseteq Held'
  <2> SUFFICES ASSUME NEW n \in 1..MaxAsks,
                      n \in excused \/ \E e \in db.episodes : n \in e.body
               PROVE  n \in excused' \/ \E e \in db'.episodes : n \in e.body
    BY DEF Held
  <2> QED
    OBVIOUS
<1>4. ASSUME NEW p \in P
      PROVE  /\ Located(proc[p])' /\ Named(proc[p])' /\ Remembered(proc[p])'
             /\ proc'[p].id = 0
  BY <1>4 DEF Located, Named, Remembered, Opens, InTurn, Memory!Ids
<1>5. shared \subseteq shared' /\ ids <= ids'
  BY DEF StoreInv, StoreTypes
<1> QED
  BY <1>1, <1>2, <1>3, <1>4, <1>5, StoreKept

(* Retention at the start, and "memory prune".                              *)
LEMMA PruningSteps ==
  ASSUME StoreInv,
         \/ \E p \in Processes : Memory!RetainEpisodes(p) \/ Memory!RetainSessions(p)
         \/ \E cutoff \in 0..now, keep \in 0..1 : Memory!CliPrunes(cutoff, keep)
  PROVE  /\ StoreInv' /\ Memory!DropsTheOldest
         /\ \A i \in Memory!Ids : db'.sessions[i] \in {db.sessions[i], Memory!NoRow}
<1>1. /\ now \in Nat \ {0} /\ Memory!Cutoffs \subseteq Nat /\ 0..now \subseteq Nat
      /\ excused \subseteq 1..MaxAsks /\ db.episodes \subseteq Archived
      /\ db \in [sessions : [Memory!Ids -> Stored(now) \cup {Memory!NoRow}],
                 episodes : SUBSET Archived]
      /\ proc \in [Processes -> Process] /\ faults \in 0..MaxFaults /\ MaxFaults \in Nat
  BY StoreIsBounded DEF StoreInv, StoreTypes, Memory!Cutoffs
<1>2. \A new \in SUBSET db.episodes : \A e \in db.episodes \ new :
        e.body \subseteq 1..MaxAsks
  BY <1>1 DEF Archived
<1>3. ASSUME Memory!DropsTheOldest, UNCHANGED <<now, ids, asks, shared, finished>>,
             faults' \in 0..MaxFaults,
             db' \in [sessions : [Memory!Ids -> Stored(now) \cup {Memory!NoRow}],
                      episodes : SUBSET Archived],
             \A i \in Memory!Ids : db'.sessions[i] \in {db.sessions[i], Memory!NoRow},
             db'.episodes \in SUBSET db.episodes,
             \/ excused' = excused \cup Memory!Gone(db, db')
             \/ db'.episodes = db.episodes /\ excused' = excused,
             \/ UNCHANGED proc
             \/ \E p \in Processes, pc \in Opens :
                  Memory!Goes(p, [Memory!Away EXCEPT !.at = pc])
      PROVE  /\ StoreInv' /\ Memory!DropsTheOldest
             /\ \A i \in Memory!Ids : db'.sessions[i] \in {db.sessions[i], Memory!NoRow}
  <2>1. /\ excused \subseteq excused' /\ excused' \subseteq 1..MaxAsks
        /\ \A e \in db.episodes \ db'.episodes : e.body \subseteq excused'
    <3>1. CASE db'.episodes = db.episodes /\ excused' = excused
      BY <1>1, <3>1
    <3>2. CASE excused' = excused \cup Memory!Gone(db, db')
      <4>1. \A e \in db.episodes \ db'.episodes : e.body \subseteq Memory!Gone(db, db')
        BY DEF Memory!Gone
      <4>2. Memory!Gone(db, db') \subseteq 1..MaxAsks
        BY <1>2, <1>3 DEF Memory!Gone
      <4> QED
        BY <1>1, <3>2, <4>1, <4>2
    <3> QED
      BY <1>3, <3>1, <3>2
  <2>2. CASE UNCHANGED proc
    <3>1. /\ proc' \in [Processes -> Process] /\ \A r \in Processes \ {} : proc'[r] = proc[r]
          /\ \A p \in {} : proc'[p].id = 0 /\ proc'[p].at \in Opens
          /\ {} \in SUBSET Processes
      BY <1>1, <2>2
    <3>2. StoreInv'
      BY <1>3, <2>1, <3>1, PrunedIsKept
    <3> QED
      BY <1>3, <3>2
  <2>3. ASSUME NEW p \in Processes, NEW pc \in Opens,
               Memory!Goes(p, [Memory!Away EXCEPT !.at = pc])
        PROVE  StoreInv'
    <3> PICK q : q = [Memory!Away EXCEPT !.at = pc]
      OBVIOUS
    <3>1. q \in Process /\ q.at = pc /\ q.id = 0 /\ proc' = [proc EXCEPT ![p] = q]
      BY <2>3, StoreFacts DEF Process, Opens, PCs, Memory!Goes
    <3>2. /\ proc' \in [Processes -> Process] /\ \A r \in Processes \ {p} : proc'[r] = proc[r]
          /\ \A x \in {p} : proc'[x].id = 0 /\ proc'[x].at \in Opens
          /\ {p} \in SUBSET Processes
      BY <1>1, <3>1
    <3> QED
      BY <1>3, <2>1, <3>2, PrunedIsKept
  <2> QED
    BY <1>3, <2>2, <2>3
<1>4. ASSUME NEW p \in Processes, Memory!RetainEpisodes(p)
      PROVE  /\ StoreInv' /\ Memory!DropsTheOldest
             /\ \A i \in Memory!Ids : db'.sessions[i] \in {db.sessions[i], Memory!NoRow}
  <2>1. PICK cutoff \in Memory!Cutoffs :
          \/ /\ Memory!Deletes(Memory!PruneEpisodes(db, cutoff, CapEpisodes))
             /\ Memory!Goes(p, [Memory!Away EXCEPT !.at = "retainSessions"])
             /\ excused' = excused \cup Memory!Gone(db, Memory!PruneEpisodes(db, cutoff, CapEpisodes))
          \/ Memory!Raises /\ Memory!Goes(p, Memory!Away) /\ UNCHANGED excused
    BY <1>4 DEF Memory!RetainEpisodes
  <2>2. UNCHANGED <<ids, asks, shared, finished>>
    BY <1>4 DEF Memory!RetainEpisodes
  <2>3. CASE /\ Memory!Deletes(Memory!PruneEpisodes(db, cutoff, CapEpisodes))
             /\ Memory!Goes(p, [Memory!Away EXCEPT !.at = "retainSessions"])
             /\ excused' = excused \cup Memory!Gone(db, Memory!PruneEpisodes(db, cutoff, CapEpisodes))
    <3>1. /\ db' = Memory!PruneEpisodes(db, cutoff, CapEpisodes)
          /\ UNCHANGED <<now, faults>> /\ excused' = excused \cup Memory!Gone(db, db')
          /\ "retainSessions" \in Opens /\ cutoff \in Nat /\ CapEpisodes \in Nat
      BY <1>1, <2>3, StoreIsBounded DEF Memory!Deletes, Opens
    <3> QED
      BY <1>1, <1>3, <2>2, <2>3, <3>1, EpisodesPruned
  <2>4. CASE Memory!Raises /\ Memory!Goes(p, Memory!Away) /\ UNCHANGED excused
    <3>1. UNCHANGED <<db, now>> /\ faults' \in 0..MaxFaults
      BY <1>1, <2>4 DEF Memory!Raises
    <3>2. StoreInv'
      BY <2>2, <2>4, <3>1, Ends
    <3> QED
      BY <3>1, <3>2 DEF Memory!DropsTheOldest
  <2> QED
    BY <2>1, <2>3, <2>4
<1>5. ASSUME NEW p \in Processes, Memory!RetainSessions(p)
      PROVE  /\ StoreInv' /\ Memory!DropsTheOldest
             /\ \A i \in Memory!Ids : db'.sessions[i] \in {db.sessions[i], Memory!NoRow}
  <2>1. PICK cutoff \in Memory!Cutoffs :
          \/ /\ Memory!Deletes(Memory!PruneSessions(db, cutoff, CapSessions))
             /\ Memory!Goes(p, [Memory!Away EXCEPT !.at = "opening"])
          \/ Memory!Raises /\ Memory!Goes(p, Memory!Away)
    BY <1>5 DEF Memory!RetainSessions
  <2>2. UNCHANGED <<ids, asks, shared, finished, excused>>
    BY <1>5 DEF Memory!RetainSessions
  <2>3. CASE /\ Memory!Deletes(Memory!PruneSessions(db, cutoff, CapSessions))
             /\ Memory!Goes(p, [Memory!Away EXCEPT !.at = "opening"])
    <3>1. /\ db' = Memory!PruneSessions(db, cutoff, CapSessions)
          /\ UNCHANGED <<now, faults>>
          /\ "opening" \in Opens /\ cutoff \in Nat /\ CapSessions \in Nat
      BY <1>1, <2>3, StoreIsBounded DEF Memory!Deletes, Opens
    <3>2. /\ db'.episodes = db.episodes /\ Memory!DropsTheOldest
          /\ \A i \in Memory!Ids : db'.sessions[i] \in {db.sessions[i], Memory!NoRow}
          /\ db' \in [sessions : [Memory!Ids -> Stored(now) \cup {Memory!NoRow}],
                      episodes : SUBSET Archived]
      BY <3>1, SessionsPruned
    <3> QED
      BY <1>1, <1>3, <2>2, <2>3, <3>1, <3>2
  <2>4. CASE Memory!Raises /\ Memory!Goes(p, Memory!Away)
    <3>1. UNCHANGED <<db, now>> /\ faults' \in 0..MaxFaults
      BY <1>1, <2>4 DEF Memory!Raises
    <3>2. StoreInv'
      BY <2>2, <2>4, <3>1, Ends
    <3> QED
      BY <3>1, <3>2 DEF Memory!DropsTheOldest
  <2> QED
    BY <2>1, <2>3, <2>4
<1>6. ASSUME NEW cutoff \in 0..now, NEW keep \in 0..1, Memory!CliPrunes(cutoff, keep)
      PROVE  /\ StoreInv' /\ Memory!DropsTheOldest
             /\ \A i \in Memory!Ids : db'.sessions[i] \in {db.sessions[i], Memory!NoRow}
  <2>1. /\ faults' \in 0..MaxFaults /\ UNCHANGED <<proc, now, ids, asks, shared, finished>>
        /\ excused' = excused \cup Memory!Gone(db, db')
        /\ cutoff \in Nat /\ keep \in Nat
    BY <1>1, <1>6 DEF Memory!CliPrunes
  <2>2. CASE db' = Memory!PruneEpisodes(db, cutoff, keep)
    BY <1>3, <2>1, <2>2, EpisodesPruned
  <2>3. CASE db' = Memory!PruneSessions(db, cutoff, keep)
    <3>1. /\ db'.episodes = db.episodes /\ Memory!DropsTheOldest
          /\ \A i \in Memory!Ids : db'.sessions[i] \in {db.sessions[i], Memory!NoRow}
          /\ db' \in [sessions : [Memory!Ids -> Stored(now) \cup {Memory!NoRow}],
                      episodes : SUBSET Archived]
      BY <2>1, <2>3, SessionsPruned
    <3> QED
      BY <1>3, <2>1, <3>1
  <2> QED
    BY <1>6, <2>2, <2>3 DEF Memory!CliPrunes
<1> QED
  BY <1>4, <1>5, <1>6

(* The state is saved: over a name there is none, and over what the row     *)
(* held only what is in the state or archived.                              *)
LEMMA SaveCommits ==
  ASSUME StoreInv, NEW p \in Processes, NEW title, NEW pc \in {"idle", "turn"},
         proc[p].at \in {"save", "saveTurn"}, pc = "turn" => proc[p].at = "saveTurn",
         title = (IF proc[p].title = Memory!Untitled
                     /\ db.sessions[proc[p].id] # Memory!NoRow
                  THEN db.sessions[proc[p].id].title ELSE proc[p].title),
         db' = [db EXCEPT !.sessions[proc[p].id] =
                  [updated |-> now, state |-> proc[p].state, title |-> title]],
         now' = now + 1, UNCHANGED <<ids, asks, faults, shared, finished, excused>>,
         Memory!Goes(p, [proc[p] EXCEPT !.at = pc])
  PROVE  /\ StoreInv' /\ Memory!KeepsTitles /\ Memory!KeepsSaid /\ Memory!DropsTheOldest
<1> PICK id, row, q : /\ id = proc[p].id
                      /\ row = [updated |-> now, state |-> proc[p].state, title |-> title]
                      /\ q = [proc[p] EXCEPT !.at = pc]
  OBVIOUS
<1>1. /\ id \in Memory!Ids /\ id \in 1..ids /\ now \in Nat \ {0} /\ MaxAsks \in Nat
      /\ proc[p] \in Process
      /\ \A i \in Memory!Ids : db.sessions[i] \in Stored(now) \cup {Memory!NoRow}
  <2>1. proc[p].at \notin Opens
    BY DEF Opens
  <2>2. proc[p] \in Process /\ id \in 1..ids /\ ids \in 0..MaxSessions /\ MaxSessions \in Nat
    BY <2>1, StoreFacts DEF Located
  <2>3. id \in Memory!Ids
    BY <2>2 DEF Memory!Ids
  <2>4. /\ now \in Nat \ {0} /\ MaxAsks \in Nat
        /\ \A i \in Memory!Ids : db.sessions[i] \in Stored(now) \cup {Memory!NoRow}
    BY StoreIsBounded DEF StoreInv, StoreTypes
  <2> QED
    BY <2>2, <2>3, <2>4
<1>2. title \in Memory!Untitled..MaxAsks
  <2>1. proc[p].title \in Memory!Untitled..MaxAsks
    BY <1>1 DEF Process
  <2>2. db.sessions[id] # Memory!NoRow => db.sessions[id].title \in Memory!Untitled..MaxAsks
    BY <1>1 DEF Stored
  <2> QED
    BY <2>1, <2>2
<1>3. /\ row \in Stored(now') /\ row.state = proc[p].state /\ row.title = title
      /\ row # Memory!NoRow
  <2>1. proc[p].state \in Seq(0..MaxAsks) /\ now \in 1..now'
    BY <1>1 DEF Process
  <2>2. row.updated = now /\ Memory!NoRow.updated = 0
    BY DEF Memory!NoRow
  <2> QED
    BY <1>1, <1>2, <2>1, <2>2 DEF Stored
<1>4. /\ db'.episodes = db.episodes /\ db'.sessions[id] = row
      /\ \A i \in Memory!Ids \ {id} : db'.sessions[i] = db.sessions[i]
  BY <1>1 DEF StoreInv, StoreTypes
<1>5. db' \in [sessions : [Memory!Ids -> Stored(now') \cup {Memory!NoRow}],
               episodes : SUBSET Archived]
  <2>1. Stored(now) \subseteq Stored(now')
    BY <1>1 DEF Stored
  <2>2. db' = [db EXCEPT !.sessions = [db.sessions EXCEPT ![id] = row]]
    OBVIOUS
  <2>3. [db.sessions EXCEPT ![id] = row] \in [Memory!Ids -> Stored(now') \cup {Memory!NoRow}]
    BY <1>3, <2>1 DEF StoreInv, StoreTypes
  <2> QED
    BY <2>2, <2>3 DEF StoreInv, StoreTypes
<1>6. /\ q \in Process /\ q.at = pc /\ q.id = id /\ q.state = proc[p].state
      /\ proc' = [proc EXCEPT ![p] = q]
  BY <1>1 DEF Process, PCs, Memory!Goes
<1>7. /\ proc'[p] = q /\ proc' \in [Processes -> Process]
      /\ \A r \in Processes \ {p} : proc'[r] = proc[r]
  BY <1>6 DEF StoreInv, StoreTypes
<1>8. StoreTypes'
  <2>1. \A e \in db'.episodes : e.ts \in 1..now'
    BY <1>1, <1>4 DEF StoreInv, StoreTypes
  <2> QED
    BY <1>1, <1>5, <1>7, <2>1 DEF StoreInv, StoreTypes
<1>9. Covered' /\ Held' = Held
  BY <1>4 DEF StoreInv, Covered, Held
<1>10. OneProcess'
  <2>1. \A i \in Memory!Ids : i > ids' => db'.sessions[i] = Memory!NoRow
    BY <1>1, <1>4 DEF StoreInv, OneProcess, Memory!Ids, StoreTypes
  <2>2. \A r \in Processes : proc'[r].id = proc[r].id
    BY <1>6, <1>7
  <2> QED
    BY <2>1, <2>2 DEF StoreInv, OneProcess
<1>11. Memory!Said(row) = Memory!Said(proc[p]) /\ Memory!Said(q) = Memory!Said(proc[p])
  BY <1>3, <1>6 DEF Memory!Said
<1>12. Located(proc[p])' /\ Named(proc[p])' /\ Remembered(proc[p])'
  <2>1. Located(proc[p])
    BY StoreFacts
  <2>2. Located(proc[p])'
    BY <1>6, <1>7, <2>1 DEF Located, Opens, InTurn
  <2>3. Named(proc[p])'
    BY <1>6, <1>7 DEF Named
  <2>4. Remembered(proc[p])'
    BY <1>4, <1>6, <1>7, <1>11 DEF Remembered, Memory!Said
  <2> QED
    BY <2>2, <2>3, <2>4
<1>13. ASSUME NEW r \in Processes \ {p}
       PROVE  Located(proc[r])' /\ Named(proc[r])' /\ Remembered(proc[r])'
  <2>1. /\ proc'[r] = proc[r] /\ Located(proc[r]) /\ Named(proc[r]) /\ Remembered(proc[r])
        /\ proc[r].id # id \/ id \in shared
    <3>1. proc'[r] = proc[r] /\ Located(proc[r]) /\ Named(proc[r]) /\ Remembered(proc[r])
      BY <1>7 DEF StoreInv
    <3>2. proc[r].id # id \/ id \in shared
      BY <1>1, StoreFacts
    <3> QED
      BY <3>1, <3>2
  <2>2. Located(proc[r])'
    BY <2>1 DEF Located
  <2>3. Named(proc[r])'
    <3> SUFFICES ASSUME proc[r].at \in {"save", "saveTurn"}, proc[r].id \notin shared
                 PROVE  db'.sessions[proc[r].id] = db.sessions[proc[r].id]
      BY <2>1 DEF Named
    <3>1. proc[r].id \in Memory!Ids
      BY <2>1, StoreFacts, StoreIsBounded DEF Located, Opens, Memory!Ids
    <3> QED
      BY <1>4, <2>1, <3>1
  <2>4. Remembered(proc[r])'
    <3> SUFFICES ASSUME proc[r].id \in Memory!Ids \ shared,
                        db'.sessions[proc[r].id] # Memory!NoRow
                 PROVE  Memory!Said(db'.sessions[proc[r].id]) \subseteq Memory!Said(proc[r]) \cup Held
      BY <1>9, <2>1 DEF Remembered
    <3>1. db'.sessions[proc[r].id] = db.sessions[proc[r].id]
      BY <1>4, <2>1
    <3> QED
      BY <2>1, <3>1 DEF Remembered
  <2> QED
    BY <2>2, <2>3, <2>4
<1>14. StoreInv'
  BY <1>8, <1>9, <1>10, <1>12, <1>13 DEF StoreInv
<1>15. Memory!KeepsTitles
  <2> SUFFICES ASSUME id \notin shared, db.sessions[id] # Memory!NoRow,
                      db.sessions[id].title # Memory!Untitled
               PROVE  row.title = db.sessions[id].title
    BY <1>4 DEF Memory!KeepsTitles, Memory!HasRow
  <2>1. proc[p].title = Memory!Untitled
    BY StoreFacts DEF Named
  <2> QED
    BY <1>3, <2>1
<1>16. Memory!KeepsSaid
  <2> SUFFICES ASSUME id \notin shared, db.sessions[id] # Memory!NoRow,
                      NEW n \in Memory!Said(db.sessions[id]),
                      n \notin Memory!Said(row), n \notin excused'
               PROVE  \E e \in db'.episodes : n \in e.body
    BY <1>4 DEF Memory!KeepsSaid, Memory!HasRow
  <2>1. n \in Held
    BY <1>1, <1>11, StoreFacts DEF Remembered
  <2> QED
    BY <1>4, <2>1 DEF Held
<1>17. Memory!DropsTheOldest
  BY <1>3, <1>4 DEF Memory!DropsTheOldest, Memory!HasRow
<1> QED
  BY <1>14, <1>15, <1>16, <1>17

(* A step that adds nothing to a row keeps what the rows say.               *)
LEMMA RowsStay ==
  ASSUME \A i \in Memory!Ids : db'.sessions[i] \in {db.sessions[i], Memory!NoRow}
  PROVE  Memory!KeepsTitles /\ Memory!KeepsSaid
<1>1. \A i \in Memory!Ids : Memory!HasRow(db', i) => db'.sessions[i] = db.sessions[i]
  BY DEF Memory!HasRow
<1>2. Memory!KeepsTitles
  BY <1>1 DEF Memory!KeepsTitles
<1>3. Memory!KeepsSaid
  BY <1>1 DEF Memory!KeepsSaid
<1> QED
  BY <1>2, <1>3

(* Nor does one that drops nothing at all take the newer of two rows.       *)
LEMMA NothingDropped ==
  ASSUME db'.sessions = db.sessions, db.episodes \subseteq db'.episodes
  PROVE  /\ Memory!KeepsTitles /\ Memory!KeepsSaid /\ Memory!DropsTheOldest
<1>1. \A i \in Memory!Ids : db'.sessions[i] \in {db.sessions[i], Memory!NoRow}
  OBVIOUS
<1>2. Memory!DropsTheOldest
  BY DEF Memory!DropsTheOldest, Memory!HasRow
<1> QED
  BY <1>1, <1>2, RowsStay

(* The sessions of the database keep the invariant and their promises in    *)
(* every step.                                                              *)
LEMMA StoreStep ==
  ASSUME StoreInv, Memory!Next
  PROVE  /\ StoreInv' /\ Memory!KeepsTitles /\ Memory!KeepsSaid /\ Memory!DropsTheOldest
<1> DEFINE Promises ==
      StoreInv' /\ Memory!KeepsTitles /\ Memory!KeepsSaid /\ Memory!DropsTheOldest
<1>1. ASSUME NEW p \in Processes, Memory!Launch(p) PROVE Promises
  <2>1. /\ Memory!Goes(p, [Memory!Away EXCEPT !.at = "retainEpisodes"])
        /\ UNCHANGED <<db, now, ids, asks, faults, shared, finished, excused>>
        /\ "retainEpisodes" \in Opens /\ faults' \in 0..MaxFaults
    BY <1>1 DEF Memory!Launch, Opens, StoreInv, StoreTypes
  <2>2. StoreInv'
    BY <2>1, Unopened
  <2> QED
    BY <2>1, <2>2, NothingDropped
<1>2. ASSUME NEW p \in Processes, Memory!NewSession(p) PROVE Promises
  BY <1>2, NewSessionStep, NothingDropped DEF Memory!NewSession
<1>3. ASSUME NEW p \in Processes, NEW id \in Memory!Ids,
             Memory!ResumeAtStart(p, id) \/ Memory!Resume(p, id)
      PROVE  Promises
  <2>1. Memory!HasRow(db, id) /\ Memory!Takes(p, id)
    BY <1>3 DEF Memory!ResumeAtStart, Memory!Resume, Memory!Listed
  <2> QED
    BY <2>1, TakesStep, NothingDropped DEF Memory!Takes
<1>4. ASSUME NEW p \in Processes, Memory!Ask(p) PROVE Promises
  BY <1>4, AskStep, NothingDropped DEF Memory!Ask
<1>5. ASSUME NEW p \in Processes, Memory!TurnStops(p) PROVE Promises
  BY <1>5, TurnStopsStep, NothingDropped DEF Memory!TurnStops
<1>6. ASSUME NEW p \in Processes, Memory!ReadTitle(p) PROVE Promises
  BY <1>6, ReadTitleStep, NothingDropped DEF Memory!ReadTitle
<1>7. ASSUME NEW p \in Processes, Memory!Exit(p) PROVE Promises
  <2>1. /\ Memory!Goes(p, Memory!Away) /\ faults' \in 0..MaxFaults
        /\ UNCHANGED <<db, now, ids, asks, shared, finished, excused>>
    BY <1>7, StoreIsBounded DEF Memory!Exit, StoreInv, StoreTypes
  <2>2. StoreInv'
    BY <2>1, Ends
  <2> QED
    BY <2>1, <2>2, NothingDropped
<1>8. ASSUME \/ db' = db
             \/ \E p \in Processes : \E task, body : Memory!Commits(Memory!Episode(p, task, body))
      PROVE  Memory!KeepsTitles /\ Memory!KeepsSaid /\ Memory!DropsTheOldest
  <2>1. db'.sessions = db.sessions /\ db.episodes \subseteq db'.episodes
    BY <1>8 DEF Memory!Commits, Memory!Episode, StoreInv, StoreTypes
  <2> QED
    BY <2>1, NothingDropped
<1>9. ASSUME NEW p \in Processes, Memory!Compact(p) PROVE Promises
  <2>1. \/ db' = db
        \/ \E task, body : Memory!Commits(Memory!Episode(p, task, body))
    BY <1>9 DEF Memory!Compact, Memory!Raises
  <2> QED
    BY <1>8, <1>9, <2>1, CompactStep
<1>10. ASSUME NEW p \in Processes, Memory!Answer(p) PROVE Promises
  <2>1. \/ db' = db
        \/ \E task, body : Memory!Commits(Memory!Episode(p, task, body))
    BY <1>10 DEF Memory!Answer, Memory!Raises
  <2> QED
    BY <1>8, <1>10, <2>1, AnswerStep
<1>11. ASSUME NEW p \in Processes, Memory!Save(p) PROVE Promises
  <2> PICK title :
        title = IF proc[p].title = Memory!Untitled /\ db.sessions[proc[p].id] # Memory!NoRow
                THEN db.sessions[proc[p].id].title ELSE proc[p].title
    OBVIOUS
  <2> PICK pc : pc = IF proc[p].at = "save" THEN "idle" ELSE "turn"
    OBVIOUS
  <2>1. /\ proc[p].at \in {"save", "saveTurn"}
        /\ UNCHANGED <<ids, asks, shared, finished, excused>>
        /\ \/ /\ Memory!Commits([db EXCEPT !.sessions[proc[p].id] =
                    [updated |-> now, state |-> proc[p].state, title |-> title]])
              /\ Memory!Goes(p, [proc[p] EXCEPT !.at = pc])
           \/ Memory!Raises /\ Memory!Goes(p, [proc[p] EXCEPT !.at = "idle"])
           \/ Memory!Raises /\ Memory!Goes(p, Memory!Away)
    BY <1>11 DEF Memory!Save
  <2>2. pc \in {"idle", "turn"} /\ (pc = "turn" => proc[p].at = "saveTurn")
    BY <2>1
  <2>3. CASE /\ Memory!Commits([db EXCEPT !.sessions[proc[p].id] =
                    [updated |-> now, state |-> proc[p].state, title |-> title]])
             /\ Memory!Goes(p, [proc[p] EXCEPT !.at = pc])
    <3>1. /\ db' = [db EXCEPT !.sessions[proc[p].id] =
                      [updated |-> now, state |-> proc[p].state, title |-> title]]
          /\ now' = now + 1 /\ UNCHANGED <<ids, asks, faults, shared, finished, excused>>
      BY <2>1, <2>3 DEF Memory!Commits
    <3> QED
      BY <2>1, <2>2, <2>3, <3>1, SaveCommits
  <2>4. ASSUME Memory!Raises
        PROVE  /\ UNCHANGED <<db, now>> /\ faults' \in 0..MaxFaults
               /\ finished' \cup excused' \subseteq 1..MaxAsks
    BY <2>1, <2>4, StoreIsBounded DEF Memory!Raises, StoreInv, StoreTypes
  <2>5. CASE Memory!Raises /\ Memory!Goes(p, [proc[p] EXCEPT !.at = "idle"])
    <3> PICK kept : kept = proc[p].title
      OBVIOUS
    <3>1. kept \in Memory!Untitled..MaxAsks /\ proc[p] \in Process
      BY StoreFacts DEF Process
    <3>2. Memory!Goes(p, [proc[p] EXCEPT !.at = "idle", !.title = kept])
      BY <2>5, <3>1 DEF Memory!Goes, Process
    <3>3. "idle" \in PCs \ Opens /\ "idle" \notin InTurn /\ proc[p].at \notin Opens
      BY <2>1 DEF PCs, Opens, InTurn
    <3>4. StoreInv'
      BY <2>1, <2>4, <2>5, <3>1, <3>2, <3>3, StaysInSession
    <3> QED
      BY <1>8, <2>4, <2>5, <3>4
  <2>6. CASE Memory!Raises /\ Memory!Goes(p, Memory!Away)
    <3>1. StoreInv'
      BY <2>1, <2>4, <2>6, Ends
    <3> QED
      BY <1>8, <2>4, <2>6, <3>1
  <2> QED
    BY <2>1, <2>3, <2>5, <2>6
<1>12. ASSUME \/ \E p \in Processes : Memory!RetainEpisodes(p) \/ Memory!RetainSessions(p)
              \/ \E cutoff \in 0..now, keep \in 0..1 : Memory!CliPrunes(cutoff, keep)
       PROVE  Promises
  BY <1>12, PruningSteps, RowsStay
<1> QED
  BY <1>1, <1>2, <1>3, <1>4, <1>5, <1>6, <1>7, <1>9, <1>10, <1>11, <1>12 DEF Memory!Next

(* A step that leaves the sessions alone keeps what holds of them.          *)
LEMMA StoreRestsStep ==
  ASSUME StoreInv, UNCHANGED storeVars
  PROVE  StoreInv'
<1>1. /\ db' = db /\ proc' = proc /\ now' = now /\ ids' = ids /\ asks' = asks
      /\ faults' = faults /\ shared' = shared /\ finished' = finished /\ excused' = excused
  BY DEF storeVars
<1> QED
  BY <1>1 DEF StoreInv, StoreTypes, OneProcess, Covered, Located, Named, Remembered, Held,
     Memory!Said

(* Through compactions, crashes, refused writes, retention and a second     *)
(* process, what a session saved stays in its row or in an episode, its     *)
(* name stays, and pruning takes the oldest first (store.py, loop.py).      *)
THEOREM SessionsSurvive == Spec => SessionsAreKept
<1> DEFINE Inv == focus = "store" => StoreInv
           Promise == Memory!KeepsTitles /\ Memory!KeepsSaid /\ Memory!DropsTheOldest
<1>1. Init => Inv
  BY StoreInvInit DEF Init
<1>2. Inv /\ [Next]_allVars => Inv'
  <2> SUFFICES ASSUME Inv, [Next]_allVars, focus' = "store" PROVE StoreInv'
    OBVIOUS
  <2>1. focus = "store" /\ (Memory!Next \/ UNCHANGED storeVars)
    BY DEF Next, TraceSteps, HistorySteps, ConfigSteps, StoreSteps, allVars
  <2> QED
    BY <2>1, StoreStep, StoreRestsStep
<1>3. Inv /\ [Next]_allVars => [focus = "store" => Promise]_storeVars
  <2> SUFFICES ASSUME Inv, [Next]_allVars, focus = "store", ~(UNCHANGED storeVars)
               PROVE  Promise
    OBVIOUS
  <2>1. Memory!Next
    BY DEF Next, TraceSteps, HistorySteps, ConfigSteps, StoreSteps, allVars
  <2> QED
    BY <2>1, StoreStep
<1>4. Inv => (focus = "store" => Memory!EpisodesCoverSessions)
  BY StoreInvHolds
<1>5. Spec => Init /\ [][Next]_allVars
  BY DEF Spec, allVars
<1> HIDE DEF Inv
<1> QED
  BY <1>1, <1>2, <1>3, <1>4, <1>5, PTL DEF SessionsAreKept

-----------------------------------------------------------------------------
(* What is in order in a sequence is so in every longer one.                *)
LEMMA InOrderLonger ==
  ASSUME NEW u \in Seq(Prompts), NEW s \in Seq(Prompts), NEW e \in Prompts,
         Log!InOrder(u, s)
  PROVE  Log!InOrder(u, Append(s, e))
<1>1. PICK f \in [DOMAIN u -> DOMAIN s] :
        /\ \A i \in DOMAIN u : u[i] = s[f[i]]
        /\ \A i, j \in DOMAIN u : i < j => f[i] < f[j]
  BY DEF Log!InOrder
<1>2. /\ DOMAIN s \subseteq DOMAIN Append(s, e)
      /\ \A i \in DOMAIN s : Append(s, e)[i] = s[i]
  OBVIOUS
<1>3. /\ f \in [DOMAIN u -> DOMAIN Append(s, e)]
      /\ \A i \in DOMAIN u : u[i] = Append(s, e)[f[i]]
  BY <1>1, <1>2
<1> QED
  BY <1>1, <1>3 DEF Log!InOrder

(* What is added to both ends up in order.                                  *)
LEMMA InOrderAppended ==
  ASSUME NEW u \in Seq(Prompts), NEW s \in Seq(Prompts), NEW e \in Prompts,
         Log!InOrder(u, s)
  PROVE  Log!InOrder(Append(u, e), Append(s, e))
<1>1. PICK f \in [DOMAIN u -> DOMAIN s] :
        /\ \A i \in DOMAIN u : u[i] = s[f[i]]
        /\ \A i, j \in DOMAIN u : i < j => f[i] < f[j]
  BY DEF Log!InOrder
<1>2. PICK n \in Nat, m \in Nat : n = Len(u) /\ m = Len(s)
  BY LenProperties
<1>3. PICK v, t : v = Append(u, e) /\ t = Append(s, e)
  OBVIOUS
<1>4. /\ DOMAIN u = 1..n /\ DOMAIN s = 1..m
      /\ DOMAIN v = 1..(n + 1) /\ DOMAIN t = 1..(m + 1)
      /\ v[n + 1] = e /\ t[m + 1] = e
      /\ \A i \in 1..n : v[i] = u[i]
      /\ \A i \in 1..m : t[i] = s[i]
  BY <1>2, <1>3, AppendProperties, LenProperties
<1> DEFINE to == [i \in 1..(n + 1) |-> IF i = n + 1 THEN m + 1 ELSE f[i]]
<1>5. \A i \in 1..n : f[i] \in 1..m /\ u[i] = s[f[i]]
  BY <1>1, <1>4
<1>6. to \in [DOMAIN v -> DOMAIN t]
  BY <1>4, <1>5
<1>7. ASSUME NEW i \in DOMAIN v PROVE v[i] = t[to[i]]
  BY <1>4, <1>5
<1>8. ASSUME NEW i \in DOMAIN v, NEW j \in DOMAIN v, i < j PROVE to[i] < to[j]
  <2>1. i \in 1..n /\ to[i] = f[i] /\ f[i] <= m
    BY <1>4, <1>5, <1>8
  <2>2. CASE j = n + 1
    BY <1>4, <1>5, <2>1, <2>2
  <2>3. CASE j # n + 1
    BY <1>1, <1>4, <1>8, <2>1, <2>3
  <2> QED
    BY <2>2, <2>3
<1> HIDE DEF to
<1>9. Log!InOrder(v, t)
  BY <1>6, <1>7, <1>8 DEF Log!InOrder
<1> QED
  BY <1>3, <1>9

(* The order is transitive, and the whole is in order.                      *)
LEMMA InOrderTransitive ==
  ASSUME NEW u \in Seq(Prompts), NEW s \in Seq(Prompts), NEW t \in Seq(Prompts),
         Log!InOrder(u, s), Log!InOrder(s, t)
  PROVE  Log!InOrder(u, t)
<1>1. PICK f \in [DOMAIN u -> DOMAIN s] :
        /\ \A i \in DOMAIN u : u[i] = s[f[i]]
        /\ \A i, j \in DOMAIN u : i < j => f[i] < f[j]
  BY DEF Log!InOrder
<1>2. PICK g \in [DOMAIN s -> DOMAIN t] :
        /\ \A i \in DOMAIN s : s[i] = t[g[i]]
        /\ \A i, j \in DOMAIN s : i < j => g[i] < g[j]
  BY DEF Log!InOrder
<1> DEFINE h == [i \in DOMAIN u |-> g[f[i]]]
<1>3. /\ h \in [DOMAIN u -> DOMAIN t]
      /\ \A i \in DOMAIN u : u[i] = t[h[i]]
      /\ \A i, j \in DOMAIN u : i < j => h[i] < h[j]
  BY <1>1, <1>2
<1> HIDE DEF h
<1> QED
  BY <1>3 DEF Log!InOrder

(* A sequence is in order in itself, and the empty one in every one.        *)
LEMMA InOrderItself ==
  ASSUME NEW s \in Seq(Prompts)
  PROVE  Log!InOrder(s, s) /\ Log!InOrder(<<>>, s)
<1>1. PICK f : f = [i \in DOMAIN s |-> i]
  OBVIOUS
<1>2. /\ f \in [DOMAIN s -> DOMAIN s] /\ \A i \in DOMAIN s : s[i] = s[f[i]]
      /\ \A i, j \in DOMAIN s : i < j => f[i] < f[j]
  BY <1>1
<1>3. Log!InOrder(s, s)
  BY <1>2 DEF Log!InOrder
<1>4. PICK g : g = [i \in {} |-> i]
  OBVIOUS
<1>5. DOMAIN <<>> = {} /\ g \in [{} -> DOMAIN s]
  BY <1>4
<1>6. Log!InOrder(<<>>, s)
  BY <1>5 DEF Log!InOrder
<1> QED
  BY <1>3, <1>6

(* The cap drops from the front, and nothing else.                          *)
LEMMA CappedKeeps ==
  ASSUME NEW s \in Seq(Prompts)
  PROVE  /\ Log!Capped(s) \in Seq(Prompts) /\ ~Log!Over(Log!Capped(s))
         /\ Log!InOrder(Log!Capped(s), s)
<1>1. PICK n \in Nat : n = Len(s)
  BY LenProperties
<1>2. MaxEntries \in Nat /\ DOMAIN s = 1..n /\ \A i \in 1..n : s[i] \in Prompts
  <2>1. MaxEntries \in Nat
    BY HomeAssumption
  <2>2. DOMAIN s = 1..n /\ \A i \in 1..n : s[i] \in Prompts
    BY <1>1, ElementOfSeq, LenProperties
  <2> QED
    BY <2>1, <2>2
<1>3. CASE ~Log!Over(s)
  <2>1. Log!Capped(s) = s
    BY <1>3 DEF Log!Capped
  <2> QED
    BY <1>3, <2>1, InOrderItself
<1>4. CASE Log!Over(s)
  <2>0. n > MaxEntries
    BY <1>1, <1>4 DEF Log!Over
  <2>1. PICK k \in Nat : k = n - MaxEntries
    BY <1>2, <2>0
  <2>2. PICK u : u = SubSeq(s, k + 1, n)
    OBVIOUS
  <2>3. Log!Capped(s) = u
    BY <1>1, <1>2, <1>4, <2>0, <2>1, <2>2 DEF Log!Capped
  <2>4. /\ u \in Seq(Prompts) /\ Len(u) = MaxEntries /\ DOMAIN u = 1..MaxEntries
        /\ \A i \in 1..MaxEntries : u[i] = s[k + i]
    <3>1. \A i \in (k + 1)..n : s[i] \in Prompts
      BY <1>2, <2>1
    <3>2. k + 1 \in Int /\ n \in Int /\ k + 1 <= n + 1 /\ (n - (k + 1)) + 1 = MaxEntries
      BY <1>2, <2>0, <2>1
    <3> QED
      BY <1>1, <1>2, <2>1, <2>2, <3>1, <3>2, SubSeqProperties, LenProperties
  <2>5. PICK f : f = [i \in 1..MaxEntries |-> k + i]
    OBVIOUS
  <2>6. /\ f \in [DOMAIN u -> DOMAIN s] /\ \A i \in DOMAIN u : u[i] = s[f[i]]
        /\ \A i, j \in DOMAIN u : i < j => f[i] < f[j]
    BY <1>2, <2>0, <2>1, <2>4, <2>5
  <2>7. Log!InOrder(u, s)
    BY <2>6 DEF Log!InOrder
  <2> QED
    BY <1>2, <2>3, <2>4, <2>7 DEF Log!Over
<1> QED
  BY <1>3, <1>4

(* A list whose i-th sequence is the i-th entry or nothing.                 *)
Picks(ss, s) ==
  DOMAIN ss = DOMAIN s /\ \A i \in DOMAIN s : ss[i] = <<>> \/ ss[i] = <<s[i]>>

(* What it makes is in order in the sequence it was picked from.            *)
LEMMA PickedInOrder ==
  ASSUME NEW s \in Seq(Prompts), NEW ss \in Seq(Seq(Prompts)), Picks(ss, s)
  PROVE  Log!InOrder(Log!FlattenSeq(ss), s)
<1> DEFINE A == {us \in Seq(Seq(Prompts)) : \A u \in Seq(Prompts) :
                   Picks(us, u) => Log!InOrder(Log!FlattenSeq(us), u)}
<1>1. <<>> \in A
  <2>1. <<>> \in Seq(Prompts) /\ <<>> \in Seq(Seq(Prompts))
    OBVIOUS
  <2>2. Log!FlattenSeq(<<>>) = <<>>
    BY <2>1, FlattenAppend
  <2> QED
    BY <2>1, <2>2, InOrderItself
<1>2. ASSUME NEW us \in A, NEW t \in Seq(Prompts) PROVE Append(us, t) \in A
  <2>1. PICK vs \in Seq(Seq(Prompts)) : vs = Append(us, t)
    BY AppendProperties
  <2> SUFFICES ASSUME NEW v \in Seq(Prompts), Picks(vs, v)
               PROVE  Log!InOrder(Log!FlattenSeq(vs), v)
    BY <2>1
  <2>2. PICK n \in Nat : n = Len(us)
    BY LenProperties
  <2>3. /\ DOMAIN us = 1..n /\ DOMAIN vs = 1..(n + 1) /\ vs[n + 1] = t
        /\ \A i \in 1..n : vs[i] = us[i]
    BY <2>1, <2>2, AppendProperties, LenProperties
  <2>4. DOMAIN v = 1..(n + 1) /\ Len(v) = n + 1 /\ \A i \in 1..(n + 1) : v[i] \in Prompts
    <3>1. DOMAIN v = 1..(n + 1)
      BY <2>3 DEF Picks
    <3>2. DOMAIN v = 1..Len(v) /\ Len(v) \in Nat
      BY LenProperties
    <3>3. Len(v) = n + 1
      BY <3>1, <3>2
    <3> QED
      BY <3>1, <3>3, ElementOfSeq
  <2>5. PICK e, u : e = v[n + 1] /\ u = [i \in 1..n |-> v[i]]
    OBVIOUS
  <2>6. e \in Prompts /\ u \in Seq(Prompts) /\ DOMAIN u = 1..n /\ Len(u) = n
    BY <2>4, <2>5
  <2>7. v = Append(u, e)
    <3>1. PICK w \in Seq(Prompts) : w = Append(u, e)
      BY <2>6, AppendProperties
    <3>2. DOMAIN w = 1..(n + 1) /\ w[n + 1] = e /\ \A i \in 1..n : w[i] = u[i]
      <4>1. Len(w) = n + 1 /\ w[n + 1] = e /\ \A i \in 1..n : w[i] = u[i]
        BY <2>6, <3>1
      <4>2. DOMAIN w = 1..Len(w)
        BY LenProperties
      <4> QED
        BY <4>1, <4>2
    <3>3. \A i \in 1..(n + 1) : w[i] = v[i]
      BY <2>4, <2>5, <3>2
    <3>4. w = v
      BY <2>4, <3>2, <3>3, SeqEqual, LenProperties
    <3> QED
      BY <3>1, <3>4
  <2>8. Picks(us, u)
    BY <2>3, <2>5, <2>6 DEF Picks
  <2>9. Log!InOrder(Log!FlattenSeq(us), u)
    BY <2>6, <2>8
  <2>10. Log!FlattenSeq(us) \in Seq(Prompts)
    BY FlattenType
  <2>11. t = <<>> \/ t = <<e>>
    <3>1. n + 1 \in DOMAIN v
      BY <2>4
    <3>2. vs[n + 1] = <<>> \/ vs[n + 1] = <<v[n + 1]>>
      BY <3>1 DEF Picks
    <3> QED
      BY <2>3, <2>5, <3>2
  <2>12. PICK g \in Seq(Prompts) : g = Log!FlattenSeq(us)
    BY <2>10
  <2>13. CASE t = <<>>
    <3>1. Log!FlattenSeq(vs) = g
      <4>1. Log!FlattenSeq(vs) = IF us = <<>> THEN t ELSE g \o t
        BY <2>1, <2>12, FlattenAppend
      <4>2. us = <<>> => g = <<>>
        BY <2>12, FlattenAppend
      <4>3. g \o t = g
        BY <2>13, ConcatEmptySeq
      <4> QED
        BY <2>13, <4>1, <4>2, <4>3
    <3> QED
      BY <2>6, <2>7, <2>9, <2>12, <3>1, InOrderLonger
  <2>14. CASE t = <<e>>
    <3>1. Log!FlattenSeq(vs) = Append(g, e)
      <4>1. Log!FlattenSeq(vs) = IF us = <<>> THEN t ELSE g \o t
        BY <2>1, <2>12, FlattenAppend
      <4>2. us = <<>> => g = <<>>
        BY <2>12, FlattenAppend
      <4>3. g \o t = Append(g, e) /\ Append(<<>>, e) = <<e>>
        BY <2>6, <2>14, AppendIsConcat
      <4> QED
        BY <2>14, <4>1, <4>2, <4>3
    <3> QED
      BY <2>6, <2>7, <2>9, <2>12, <3>1, InOrderAppended
  <2> QED
    BY <2>11, <2>13, <2>14
<1> HIDE DEF A
<1>3. A = Seq(Seq(Prompts))
  BY <1>1, <1>2, InductionOnSeq DEF A
<1> QED
  BY <1>3 DEF A

-----------------------------------------------------------------------------
(* The prompt history.                                                      *)
Shows == Prompts \cup {""}
Boxes == [text : Shows, row : Nat, index : Nat, draft : Shows]

(* What a session has in memory is in the order of all that was sent.       *)
InMemory(e, all) ==
  e # Log!Closed => /\ e \in Seq(Prompts) /\ ~Log!Over(e)
                    /\ Log!InOrder(e, all)

FilesInv ==
  /\ hfile \in Seq(Prompts) /\ accepted \in Seq(Prompts) /\ disturbed \in BOOLEAN
  /\ DOMAIN entries = Log!Sessions
  /\ \A s \in Log!Sessions : InMemory(entries[s], accepted)
  /\ Log!InOrder(hfile, accepted) /\ (~disturbed => hfile = accepted)

(* A walk is at an entry, and what was typed is on screen or the draft.     *)
Walks(b, t, e) ==
  /\ b.row \in 0..Log!LastRow(b.text)
  /\ b.index \in 0..(IF e = Log!Closed THEN 0 ELSE Len(e))
  /\ t = IF b.index = 0 THEN b.text ELSE b.draft

WalksInv ==
  /\ box \in [Tuis -> Boxes] /\ DOMAIN typed = Tuis
  /\ \A s \in Tuis : Walks(box[s], typed[s], entries[s])

HistoryInv == FilesInv /\ WalksInv

(* No list of prompts is taken for that of a session that is not there.     *)
LEMMA ListsAreOpen ==
  ASSUME NEW e \in Seq(Prompts) PROVE e # Log!Closed
<1> SUFFICES ASSUME e = Log!Closed PROVE FALSE
  OBVIOUS
<1>1. e[1] = "closed" /\ 1 \in 1..Len(e)
  BY DEF Log!Closed
<1>2. e[1] \in Prompts
  BY <1>1, ElementOfSeq
<1> QED
  BY <1>1, <1>2, HomeAssumption

(* What load makes of the file.                                             *)
LEMMA LoadedInOrder ==
  ASSUME NEW s \in Seq(Prompts), NEW all \in Seq(Prompts), Log!InOrder(s, all)
  PROVE  Log!Loaded(s) \in Seq(Prompts) /\ InMemory(Log!Loaded(s), all)
<1> DEFINE ss == [i \in DOMAIN s |->
                    IF i # 1 /\ s[i] = s[i - 1] THEN <<>> ELSE <<s[i]>>]
<1>1. Picks(ss, s)
  BY DEF Picks
<1>2. ss \in Seq(Seq(Prompts))
  <2>1. DOMAIN s = 1..Len(s) /\ Len(s) \in Nat /\ \A i \in DOMAIN s : s[i] \in Prompts
    BY ElementOfSeq, LenProperties
  <2>2. <<>> \in Seq(Prompts) /\ \A x \in Prompts : <<x>> \in Seq(Prompts)
    OBVIOUS
  <2>3. \A i \in DOMAIN s : ss[i] \in Seq(Prompts)
    BY <2>1, <2>2
  <2> QED
    BY <2>1, <2>3
<1>3. Log!InOrder(Log!FlattenSeq(ss), s) /\ Log!FlattenSeq(ss) \in Seq(Prompts)
  BY <1>1, <1>2, PickedInOrder, FlattenType
<1>4. Log!Loaded(s) = Log!Capped(Log!FlattenSeq(ss))
  BY DEF Log!Loaded
<1> HIDE DEF ss
<1>5. PICK u \in Seq(Prompts) : u = Log!FlattenSeq(ss)
  BY <1>3
<1>6. PICK v \in Seq(Prompts) : v = Log!Capped(u)
  BY CappedKeeps
<1>7. Log!InOrder(v, u) /\ ~Log!Over(v) /\ Log!InOrder(u, s)
  BY <1>3, <1>5, <1>6, CappedKeeps
<1>8. Log!InOrder(v, s)
  BY <1>7, InOrderTransitive
<1>9. Log!InOrder(v, all)
  BY <1>8, InOrderTransitive
<1> QED
  BY <1>4, <1>5, <1>6, <1>7, <1>9 DEF InMemory

(* A longer history leaves what is in memory in order.                      *)
LEMMA InMemoryLonger ==
  ASSUME NEW e, NEW all \in Seq(Prompts), NEW prompt \in Prompts, InMemory(e, all)
  PROVE  InMemory(e, Append(all, prompt))
BY InOrderLonger DEF InMemory

(* A prompt is recorded, or refused; the list in memory gets no shorter.    *)
LEMMA Recorded ==
  ASSUME FilesInv, NEW s \in Log!Sessions, NEW prompt \in Prompts, NEW private \in BOOLEAN,
         Log!Live(s), Log!Record(s, prompt, private)
  PROVE  /\ FilesInv' /\ Log!Live(s)' /\ Len(entries[s]) <= Len(entries'[s])
         /\ \A r \in Log!Sessions \ {s} : entries'[r] = entries[r]
<1>1. /\ entries[s] \in Seq(Prompts) /\ ~Log!Over(entries[s])
      /\ Log!InOrder(entries[s], accepted) /\ entries[s] # Log!Closed
      /\ Len(entries[s]) \in Nat /\ MaxEntries \in Nat
  <2>1. /\ entries[s] \in Seq(Prompts) /\ ~Log!Over(entries[s])
        /\ Log!InOrder(entries[s], accepted) /\ entries[s] # Log!Closed
    BY DEF FilesInv, InMemory, Log!Live
  <2>2. Len(entries[s]) \in Nat
    BY <2>1, LenProperties
  <2>3. MaxEntries \in Nat
    BY HomeAssumption
  <2> QED
    BY <2>1, <2>2, <2>3
<1>2. CASE UNCHANGED <<hfile, entries, accepted, disturbed>>
  BY <1>1, <1>2 DEF FilesInv, Log!Live
<1>3. CASE ~UNCHANGED <<hfile, entries, accepted, disturbed>>
  <2>1. PICK all \in Seq(Prompts) : all = Append(entries[s], prompt)
    BY <1>1, AppendProperties
  <2>2. PICK to \in Seq(Prompts) : to = Append(accepted, prompt)
    BY AppendProperties DEF FilesInv
  <2>3. /\ entries' = [entries EXCEPT ![s] = Log!Capped(all)] /\ accepted' = to
        /\ \/ /\ hfile' = IF Log!Over(all) THEN Log!Capped(all) ELSE Append(hfile, prompt)
              /\ disturbed' = (disturbed \/ Log!Over(all))
           \/ hfile' = hfile /\ disturbed' = TRUE
    BY <1>3, <2>1, <2>2 DEF Log!Record
  <2>4. Log!InOrder(all, to)
    BY <1>1, <2>1, <2>2, InOrderAppended DEF FilesInv
  <2>5. PICK kept \in Seq(Prompts) : kept = Log!Capped(all)
    BY CappedKeeps
  <2>6. /\ ~Log!Over(kept) /\ Log!InOrder(kept, to)
    BY <2>4, <2>5, CappedKeeps, InOrderTransitive
  <2>7. Len(entries[s]) <= Len(kept)
    <3>1. Len(all) = Len(entries[s]) + 1
      BY <1>1, <2>1, AppendProperties
    <3>2. CASE Log!Over(all)
      <4>1. kept = SubSeq(all, Len(all) - MaxEntries + 1, Len(all))
        BY <2>5, <3>2 DEF Log!Capped
      <4>2. Len(all) = MaxEntries + 1 /\ Len(all) - MaxEntries + 1 = 2
        BY <1>1, <3>1, <3>2 DEF Log!Over
      <4>3. Len(kept) = MaxEntries
        BY <1>1, <4>1, <4>2
      <4> QED
        BY <1>1, <3>1, <4>2, <4>3
    <3>3. CASE ~Log!Over(all)
      <4>1. kept = all
        BY <2>5, <3>3 DEF Log!Capped
      <4> QED
        BY <1>1, <3>1, <4>1
    <3> QED
      BY <3>2, <3>3
  <2>8. /\ entries'[s] = kept /\ DOMAIN entries' = Log!Sessions
        /\ \A r \in Log!Sessions \ {s} : entries'[r] = entries[r]
    BY <2>3, <2>5 DEF FilesInv
  <2>9. ASSUME NEW r \in Log!Sessions PROVE InMemory(entries'[r], to)
    <3>1. CASE r = s
      BY <2>6, <2>8, <3>1 DEF InMemory
    <3>2. CASE r # s
      BY <2>2, <2>8, <3>2, InMemoryLonger DEF FilesInv
    <3> QED
      BY <3>1, <3>2
  <2>10. /\ hfile \in Seq(Prompts) /\ accepted \in Seq(Prompts) /\ disturbed \in BOOLEAN
         /\ Log!InOrder(hfile, accepted) /\ (~disturbed => hfile = accepted)
    BY DEF FilesInv
  <2>11. /\ hfile' \in Seq(Prompts) /\ disturbed' \in BOOLEAN /\ Log!InOrder(hfile', to)
         /\ (~disturbed' => hfile' = to)
    <3>1. CASE hfile' = hfile /\ disturbed' = TRUE
      BY <2>2, <2>10, <3>1, InOrderLonger
    <3>2. CASE hfile' = kept /\ disturbed' = TRUE
      BY <2>6, <3>2
    <3>3. CASE hfile' = Append(hfile, prompt) /\ disturbed' = disturbed
      <4>1. Append(hfile, prompt) \in Seq(Prompts)
        BY <2>10, AppendProperties
      <4>2. Log!InOrder(Append(hfile, prompt), to)
        BY <2>2, <2>10, InOrderAppended
      <4> QED
        BY <2>2, <2>10, <3>3, <4>1, <4>2
    <3> QED
      BY <2>3, <2>5, <2>10, <3>1, <3>2, <3>3
  <2>12. FilesInv'
    BY <2>2, <2>3, <2>8, <2>9, <2>11 DEF FilesInv
  <2>13. Log!Live(s)'
    BY <2>8, ListsAreOpen DEF Log!Live
  <2> QED
    BY <2>7, <2>8, <2>12, <2>13
<1> QED
  BY <1>2, <1>3

(* The rows of a text.                                                      *)
LEMMA RowsOf ==
  ASSUME NEW text PROVE Log!LastRow(text) \in 0..1 /\ 0 \in 0..Log!LastRow(text)
BY DEF Log!LastRow

(* The box of a walk that has ended, or has not begun.                      *)
LEMMA EmptyWalks ==
  ASSUME NEW e, e = Log!Closed \/ e \in Seq(Prompts)
  PROVE  Log!EmptyBox \in Boxes /\ Walks(Log!EmptyBox, "", e)
<1>1. Log!EmptyBox \in Boxes
  BY DEF Log!EmptyBox, Boxes, Shows
<1>2. 0 \in 0..Log!LastRow(Log!EmptyBox.text)
  BY RowsOf
<1>3. 0 \in 0..(IF e = Log!Closed THEN 0 ELSE Len(e))
  BY LenProperties
<1> QED
  BY <1>1, <1>2, <1>3 DEF Walks, Log!EmptyBox

(* Where the lists and boxes are left alone but for one session's box, which *)
(* walks, every box walks.                                                  *)
OneBox(s) ==
  /\ box' \in [Tuis -> Boxes] /\ DOMAIN typed' = Tuis
  /\ \A r \in Tuis \ {s} : box'[r] = box[r] /\ typed'[r] = typed[r]
  /\ s \in Tuis => Walks(box'[s], typed'[s], entries'[s])

(* A step that moves the box of one session keeps the walks of the others.  *)
LEMMA BoxMoves ==
  ASSUME WalksInv, NEW s, OneBox(s), \A r \in Tuis \ {s} : entries'[r] = entries[r]
  PROVE  WalksInv'
<1>1. ASSUME NEW r \in Tuis PROVE Walks(box'[r], typed'[r], entries'[r])
  <2>1. CASE r = s
    BY <2>1 DEF OneBox
  <2>2. CASE r # s
    <3>1. box'[r] = box[r] /\ typed'[r] = typed[r] /\ entries'[r] = entries[r]
      BY <2>2 DEF OneBox
    <3>2. Walks(box[r], typed[r], entries[r])
      BY DEF WalksInv
    <3> QED
      BY <3>1, <3>2
  <2> QED
    BY <2>1, <2>2
<1>2. box' \in [Tuis -> Boxes] /\ DOMAIN typed' = Tuis
  BY DEF OneBox
<1> QED
  BY <1>1, <1>2 DEF WalksInv

(* Setting the box of a session, and what it has typed.                     *)
LEMMA BoxSet ==
  ASSUME WalksInv, NEW s \in Tuis, NEW b \in Boxes, NEW text,
         box' = [box EXCEPT ![s] = b], typed' = [typed EXCEPT ![s] = text],
         Walks(b, text, entries'[s])
  PROVE  OneBox(s)
<1>1. /\ box \in [Tuis -> Boxes] /\ DOMAIN typed = Tuis
  BY DEF WalksInv
<1>2. box' \in [Tuis -> Boxes] /\ DOMAIN typed' = Tuis
  BY <1>1
<1>3. \A r \in Tuis \ {s} : box'[r] = box[r] /\ typed'[r] = typed[r]
  BY <1>1
<1>4. box'[s] = b /\ typed'[s] = text
  BY <1>1
<1> QED
  BY <1>2, <1>3, <1>4 DEF OneBox

(* A session starts, and ends.                                              *)
LEMMA SessionsBeginAndEnd ==
  ASSUME HistoryInv, NEW s \in Log!Sessions, Log!Begin(s) \/ Log!End(s)
  PROVE  HistoryInv'
<1>1. CASE Log!Begin(s)
  <2>1. PICK e \in Seq(Prompts) : e = Log!Loaded(hfile) /\ InMemory(e, accepted)
    <3>1. Log!InOrder(hfile, accepted) /\ hfile \in Seq(Prompts) /\ accepted \in Seq(Prompts)
      BY DEF HistoryInv, FilesInv
    <3>2. Log!Loaded(hfile) \in Seq(Prompts) /\ InMemory(Log!Loaded(hfile), accepted)
      BY <3>1, LoadedInOrder
    <3> QED
      BY <3>2
  <2>2. /\ entries' = [entries EXCEPT ![s] = e]
        /\ UNCHANGED <<hfile, box, accepted, disturbed, typed>> /\ entries[s] = Log!Closed
    BY <1>1, <2>1 DEF Log!Begin, Log!Live
  <2>3. entries'[s] = e /\ \A r \in Log!Sessions \ {s} : entries'[r] = entries[r]
    BY <2>2 DEF HistoryInv, FilesInv
  <2>4. FilesInv'
    <3>1. \A r \in Log!Sessions : InMemory(entries'[r], accepted)
      BY <2>1, <2>3 DEF HistoryInv, FilesInv
    <3> QED
      BY <2>2, <3>1 DEF HistoryInv, FilesInv
  <2>5. WalksInv'
    <3>1. s \in Tuis => Walks(box[s], typed[s], e)
      <4>1. SUFFICES ASSUME s \in Tuis PROVE Walks(box[s], typed[s], e)
        OBVIOUS
      <4>2. Walks(box[s], typed[s], entries[s]) /\ entries[s] = Log!Closed
        BY <2>2, <4>1 DEF HistoryInv, WalksInv
      <4>3. 0 \in 0..(IF e = Log!Closed THEN 0 ELSE Len(e))
        BY LenProperties
      <4> QED
        BY <4>2, <4>3 DEF Walks
    <3>2. OneBox(s)
      BY <2>2, <2>3, <3>1 DEF HistoryInv, WalksInv, OneBox
    <3>3. \A r \in Tuis \ {s} : entries'[r] = entries[r]
      BY <2>3 DEF Log!Sessions
    <3> QED
      BY <3>2, <3>3, BoxMoves DEF HistoryInv
  <2> QED
    BY <2>4, <2>5 DEF HistoryInv
<1>2. CASE Log!End(s)
  <2>1. /\ entries' = [entries EXCEPT ![s] = Log!Closed]
        /\ box' = (IF s \in Tuis THEN [box EXCEPT ![s] = Log!EmptyBox] ELSE box)
        /\ typed' = (IF s \in Tuis THEN [typed EXCEPT ![s] = ""] ELSE typed)
        /\ UNCHANGED <<hfile, accepted, disturbed>>
    BY <1>2 DEF Log!End
  <2>2. entries'[s] = Log!Closed /\ \A r \in Log!Sessions \ {s} : entries'[r] = entries[r]
    BY <2>1 DEF HistoryInv, FilesInv
  <2>3. FilesInv'
    <3>1. \A r \in Log!Sessions : InMemory(entries'[r], accepted)
      BY <2>2 DEF HistoryInv, FilesInv, InMemory
    <3> QED
      BY <2>1, <3>1 DEF HistoryInv, FilesInv
  <2>4. WalksInv'
    <3>1. OneBox(s)
      <4>1. CASE s \in Tuis
        BY <2>1, <2>2, <4>1, EmptyWalks, BoxSet DEF HistoryInv
      <4>2. CASE s \notin Tuis
        BY <2>1, <4>2 DEF HistoryInv, WalksInv, OneBox
      <4> QED
        BY <4>1, <4>2
    <3>2. \A r \in Tuis \ {s} : entries'[r] = entries[r]
      BY <2>2 DEF Log!Sessions
    <3> QED
      BY <3>1, <3>2, BoxMoves DEF HistoryInv
  <2> QED
    BY <2>3, <2>4 DEF HistoryInv
<1> QED
  BY <1>1, <1>2

(* A prompt is sent: from the plain loop, or from the composer, which is    *)
(* then empty.                                                              *)
LEMMA PromptsAreSent ==
  ASSUME HistoryInv, NEW s \in Log!Sessions, NEW prompt \in Prompts,
         Log!PlainSubmits(s, prompt) \/ Log!TuiSubmits(s)
  PROVE  HistoryInv'
<1>1. CASE Log!PlainSubmits(s, prompt)
  <2>1. Log!Record(s, prompt, TRUE) \/ Log!Record(s, prompt, FALSE)
    BY <1>1 DEF Log!PlainSubmits, Log!Record
  <2>2. Log!Live(s) /\ UNCHANGED <<box, typed>>
    BY <1>1 DEF Log!PlainSubmits
  <2>3. /\ FilesInv' /\ Log!Live(s)' /\ Len(entries[s]) <= Len(entries'[s])
        /\ \A r \in Log!Sessions \ {s} : entries'[r] = entries[r]
    BY <2>1, <2>2, Recorded DEF HistoryInv
  <2>4. s \in Tuis => Walks(box[s], typed[s], entries'[s])
    <3> SUFFICES ASSUME s \in Tuis PROVE Walks(box[s], typed[s], entries'[s])
      OBVIOUS
    <3>1. Walks(box[s], typed[s], entries[s]) /\ entries[s] # Log!Closed
      BY <2>2 DEF HistoryInv, WalksInv, Log!Live
    <3>2. PICK n \in Nat, m \in Nat : n = Len(entries[s]) /\ m = Len(entries'[s])
      <4>1. entries[s] \in Seq(Prompts)
        BY <3>1 DEF HistoryInv, FilesInv, InMemory
      <4>2. entries'[s] \in Seq(Prompts)
        BY <2>3 DEF FilesInv, InMemory, Log!Live
      <4> QED
        BY <4>1, <4>2, LenProperties
    <3>3. n <= m /\ entries'[s] # Log!Closed
      BY <2>3, <3>2 DEF Log!Live
    <3> QED
      BY <3>1, <3>2, <3>3 DEF Walks
  <2>5. OneBox(s)
    BY <2>2, <2>4 DEF HistoryInv, WalksInv, OneBox
  <2>6. \A r \in Tuis \ {s} : entries'[r] = entries[r]
    BY <2>3 DEF Log!Sessions
  <2> QED
    BY <2>3, <2>5, <2>6, BoxMoves DEF HistoryInv
<1>2. CASE Log!TuiSubmits(s)
  <2>1. /\ s \in Tuis /\ Log!Live(s) /\ Log!Record(s, box[s].text, FALSE)
        /\ box' = [box EXCEPT ![s] = Log!EmptyBox] /\ typed' = [typed EXCEPT ![s] = ""]
        /\ box[s].text # ""
    BY <1>2 DEF Log!TuiSubmits
  <2>2. box[s].text \in Prompts
    BY <2>1 DEF HistoryInv, WalksInv, Boxes, Shows
  <2>3. PICK text \in Prompts : text = box[s].text
    BY <2>2
  <2>4. Log!Record(s, text, FALSE)
    BY <2>1, <2>3
  <2>5. /\ FilesInv' /\ Log!Live(s)'
        /\ \A r \in Log!Sessions \ {s} : entries'[r] = entries[r]
    BY <2>1, <2>4, Recorded DEF HistoryInv
  <2>6. entries'[s] \in Seq(Prompts)
    BY <2>5 DEF FilesInv, InMemory, Log!Live
  <2>7. Log!EmptyBox \in Boxes /\ Walks(Log!EmptyBox, "", entries'[s])
    BY <2>6, EmptyWalks
  <2>8. OneBox(s)
    BY <2>1, <2>7, BoxSet DEF HistoryInv
  <2>9. \A r \in Tuis \ {s} : entries'[r] = entries[r]
    BY <2>5 DEF Log!Sessions
  <2> QED
    BY <2>5, <2>8, <2>9, BoxMoves DEF HistoryInv
<1> QED
  BY <1>1, <1>2

(* Typing and pasting.                                                      *)
LEMMA TextIsEdited ==
  ASSUME HistoryInv, NEW s \in Tuis, NEW text \in Prompts,
         Log!Type(s, text) \/ Log!Insert(s, text)
  PROVE  HistoryInv'
<1>0. UNCHANGED <<hfile, entries, accepted, disturbed>>
  BY DEF Log!Type, Log!Insert
<1>1. FilesInv'
  BY <1>0 DEF HistoryInv, FilesInv
<1>2. entries'[s] = entries[s] /\ \A r \in Tuis \ {s} : entries'[r] = entries[r]
  BY <1>0
<1>3. PICK b \in Boxes : b = box[s] /\ Walks(b, typed[s], entries[s])
  BY DEF HistoryInv, WalksInv
<1>4. PICK row : row = Log!LastRow(text) /\ row \in Nat /\ row \in 0..row
  BY RowsOf
<1>5. PICK c, d : c = [b EXCEPT !.text = text, !.row = row, !.index = 0]
                  /\ d = [b EXCEPT !.text = text, !.row = row]
  OBVIOUS
<1>6. /\ c \in Boxes /\ c.text = text /\ c.row = row /\ c.index = 0
      /\ d \in Boxes /\ d.text = text /\ d.row = row /\ d.index = b.index
      /\ d.draft = b.draft
  BY <1>4, <1>5 DEF Boxes, Shows
<1>7. OneBox(s)
  <2>1. CASE Log!Type(s, text)
    <3>1. box' = [box EXCEPT ![s] = c] /\ typed' = [typed EXCEPT ![s] = text]
      BY <1>3, <1>4, <1>5, <2>1 DEF Log!Type, HistoryInv, WalksInv
    <3>2. Walks(c, text, entries'[s])
      BY <1>2, <1>3, <1>4, <1>6 DEF Walks
    <3> QED
      BY <1>6, <3>1, <3>2, BoxSet DEF HistoryInv
  <2>2. CASE Log!Insert(s, text)
    <3>1. PICK t : t = IF b.index = 0 THEN text ELSE typed[s]
      OBVIOUS
    <3>2. box' = [box EXCEPT ![s] = d] /\ typed' = [typed EXCEPT ![s] = t]
      BY <1>3, <1>4, <1>5, <2>2, <3>1 DEF Log!Insert, HistoryInv, WalksInv
    <3>3. Walks(d, t, entries'[s])
      BY <1>2, <1>3, <1>4, <1>6, <3>1 DEF Walks
    <3> QED
      BY <1>6, <3>2, <3>3, BoxSet DEF HistoryInv
  <2> QED
    BY <2>1, <2>2
<1> QED
  BY <1>1, <1>2, <1>7, BoxMoves DEF HistoryInv

(* The two arrow keys, where the box of the session becomes b.              *)
LEMMA BoxShown ==
  ASSUME HistoryInv, NEW s \in Tuis, NEW b \in Boxes,
         UNCHANGED <<hfile, entries, accepted, disturbed, typed>>,
         box' = [box EXCEPT ![s] = b], Walks(b, typed[s], entries[s])
  PROVE  HistoryInv'
<1>1. FilesInv'
  BY DEF HistoryInv, FilesInv
<1>2. box \in [Tuis -> Boxes] /\ DOMAIN typed = Tuis
  BY DEF HistoryInv, WalksInv
<1>3. box' \in [Tuis -> Boxes] /\ box'[s] = b /\ \A r \in Tuis \ {s} : box'[r] = box[r]
  BY <1>2
<1>4. OneBox(s) /\ \A r \in Tuis \ {s} : entries'[r] = entries[r]
  BY <1>2, <1>3 DEF OneBox
<1> QED
  BY <1>1, <1>4, BoxMoves DEF HistoryInv

(* Up: the cursor, then an older entry, and the draft is kept.              *)
LEMMA WalksUp ==
  ASSUME HistoryInv, NEW s \in Tuis, Log!Up(s)
  PROVE  HistoryInv'
<1>1. PICK b \in Boxes : b = box[s] /\ Walks(b, typed[s], entries[s])
  BY DEF HistoryInv, WalksInv
<1>2. PICK e \in Seq(Prompts) : e = entries[s] /\ e # Log!Closed
  BY DEF Log!Up, Log!Live, HistoryInv, FilesInv, InMemory, Log!Sessions
<1>3. PICK len \in Nat : len = Len(e) /\ \A i \in 1..len : e[i] \in Prompts
  BY ElementOfSeq, LenProperties
<1>4. UNCHANGED <<hfile, entries, accepted, disturbed, typed>>
  BY DEF Log!Up
<1>5. b.text \in Shows /\ b.row \in Nat /\ b.index \in 0..len /\ b.draft \in Shows
  BY <1>1, <1>2, <1>3 DEF Boxes, Walks
<1>6. CASE b.row > 0 \/ e = <<>>
  <2>1. PICK c : c = [b EXCEPT !.row = 0]
    OBVIOUS
  <2>2. c \in Boxes /\ c.text = b.text /\ c.row = 0 /\ c.index = b.index /\ c.draft = b.draft
    BY <1>5, <2>1 DEF Boxes
  <2>3. box' = [box EXCEPT ![s] = c]
    BY <1>1, <1>2, <1>6, <2>1 DEF Log!Up, Log!MoveTo, HistoryInv, WalksInv
  <2>4. Walks(c, typed[s], entries[s])
    BY <1>1, <2>2, RowsOf DEF Walks
  <2> QED
    BY <1>4, <2>2, <2>3, <2>4, BoxShown
<1>7. CASE ~(b.row > 0 \/ e = <<>>)
  <2>1. PICK n : n = IF b.index = 0 THEN len ELSE b.index - 1
    OBVIOUS
  <2>2. CASE n = 0
    <3>1. box' = [box EXCEPT ![s] = b]
      BY <1>1, <1>2, <1>3, <1>7, <2>1, <2>2 DEF Log!Up, HistoryInv, WalksInv
    <3> QED
      BY <1>1, <1>4, <3>1, BoxShown
  <2>3. CASE n # 0
    <3>1. n \in 1..len
      BY <1>3, <1>5, <2>1, <2>3
    <3>2. PICK text \in Shows, draft \in Shows :
            text = e[n] /\ draft = IF b.index = 0 THEN b.text ELSE b.draft
      BY <1>3, <1>5, <3>1 DEF Shows
    <3>3. PICK row \in 0..1 : row = Log!LastRow(text) /\ row \in 0..row
      BY RowsOf
    <3>4. PICK c \in Boxes :
            /\ c = [b EXCEPT !.index = n, !.draft = draft, !.text = text, !.row = row]
            /\ c.text = text /\ c.row = row /\ c.index = n /\ c.draft = draft
      <4>1. PICK c : c = [b EXCEPT !.index = n, !.draft = draft, !.text = text, !.row = row]
        OBVIOUS
      <4>2. row \in Nat /\ n \in Nat
        BY <3>1
      <4>3. c \in Boxes
        BY <4>1, <4>2, <3>1 DEF Boxes
      <4>4. c.text = text /\ c.row = row /\ c.index = n /\ c.draft = draft
        BY <4>1 DEF Boxes
      <4> QED
        BY <4>1, <4>3, <4>4
    <3>5. box' = [box EXCEPT ![s] = c]
      <4>1. c = [[b EXCEPT !.index = n, !.draft = draft]
                   EXCEPT !.text = text, !.row = row]
        BY <3>4 DEF Boxes
      <4>2. Log!Show(s, [b EXCEPT !.index = n, !.draft = draft], text)
        BY <1>1, <1>2, <1>3, <1>7, <2>1, <2>3, <3>2 DEF Log!Up
      <4> QED
        BY <3>3, <4>1, <4>2 DEF Log!Show
    <3>6. Walks(c, typed[s], entries[s])
      BY <1>1, <1>2, <1>3, <3>1, <3>2, <3>3, <3>4 DEF Walks
    <3> QED
      BY <1>4, <3>4, <3>5, <3>6, BoxShown
  <2> QED
    BY <2>2, <2>3
<1> QED
  BY <1>6, <1>7

(* Down: the cursor, then a newer entry, and past the newest the draft.     *)
LEMMA WalksDown ==
  ASSUME HistoryInv, NEW s \in Tuis, Log!Down(s)
  PROVE  HistoryInv'
<1>1. PICK b \in Boxes : b = box[s] /\ Walks(b, typed[s], entries[s])
  BY DEF HistoryInv, WalksInv
<1>2. PICK e \in Seq(Prompts) : e = entries[s] /\ e # Log!Closed
  BY DEF Log!Down, Log!Live, HistoryInv, FilesInv, InMemory, Log!Sessions
<1>3. PICK len \in Nat : len = Len(e) /\ \A i \in 1..len : e[i] \in Prompts
  BY ElementOfSeq, LenProperties
<1>4. UNCHANGED <<hfile, entries, accepted, disturbed, typed>>
  BY DEF Log!Down
<1>5. b.text \in Shows /\ b.row \in Nat /\ b.index \in 0..len /\ b.draft \in Shows
  BY <1>1, <1>2, <1>3 DEF Boxes, Walks
<1>6. CASE b.row < Log!LastRow(b.text) \/ b.index = 0
  <2>1. PICK row, c : row = Log!LastRow(b.text) /\ c = [b EXCEPT !.row = row]
    OBVIOUS
  <2>2. row \in 0..1 /\ row \in 0..row
    BY <2>1, RowsOf
  <2>3. /\ c \in Boxes /\ c.text = b.text /\ c.row = row /\ c.index = b.index
        /\ c.draft = b.draft
    BY <1>5, <2>1, <2>2 DEF Boxes
  <2>4. box' = [box EXCEPT ![s] = c]
    BY <1>1, <1>6, <2>1 DEF Log!Down, Log!MoveTo, HistoryInv, WalksInv
  <2>5. Walks(c, typed[s], entries[s])
    BY <1>1, <2>1, <2>2, <2>3 DEF Walks
  <2> QED
    BY <1>4, <2>3, <2>4, <2>5, BoxShown
<1>7. CASE ~(b.row < Log!LastRow(b.text) \/ b.index = 0)
  <2>1. CASE b.index < len
    <3>1. b.index + 1 \in 1..len /\ b.index + 1 # 0
      BY <1>5, <2>1
    <3>2. PICK n \in 1..len, text \in Shows : n = b.index + 1 /\ text = e[n]
      BY <1>3, <3>1 DEF Shows
    <3>3. PICK row \in 0..1 : row = Log!LastRow(text) /\ row \in 0..row
      BY RowsOf
    <3>4. PICK c \in Boxes :
            /\ c = [b EXCEPT !.index = n, !.text = text, !.row = row]
            /\ c.text = text /\ c.row = row /\ c.index = n /\ c.draft = b.draft
      <4>1. PICK c : c = [b EXCEPT !.index = n, !.text = text, !.row = row]
        OBVIOUS
      <4>2. row \in Nat /\ n \in Nat
        OBVIOUS
      <4>3. c \in Boxes
        BY <4>1, <4>2 DEF Boxes
      <4>4. c.text = text /\ c.row = row /\ c.index = n /\ c.draft = b.draft
        BY <4>1 DEF Boxes
      <4> QED
        BY <4>1, <4>3, <4>4
    <3>5. box' = [box EXCEPT ![s] = c]
      <4>1. c = [[b EXCEPT !.index = n] EXCEPT !.text = text, !.row = row]
        BY <3>4 DEF Boxes
      <4>2. [b EXCEPT !.index = @ + 1] = [b EXCEPT !.index = n]
        BY <3>2 DEF Boxes
      <4>3. Log!Show(s, [b EXCEPT !.index = @ + 1], text)
        BY <1>1, <1>2, <1>3, <1>7, <2>1, <3>2 DEF Log!Down
      <4> QED
        BY <3>3, <4>1, <4>2, <4>3 DEF Log!Show
    <3>6. Walks(c, typed[s], entries[s])
      BY <1>1, <1>2, <1>3, <1>7, <3>2, <3>3, <3>4 DEF Walks
    <3> QED
      BY <1>4, <3>4, <3>5, <3>6, BoxShown
  <2>2. CASE ~(b.index < len)
    <3>1. PICK text \in Shows : text = b.draft
      BY <1>5
    <3>2. PICK row \in 0..1 : row = Log!LastRow(text) /\ row \in 0..row
      BY RowsOf
    <3>3. PICK c \in Boxes :
            /\ c = [b EXCEPT !.index = 0, !.draft = "", !.text = text, !.row = row]
            /\ c.text = text /\ c.row = row /\ c.index = 0
      <4>1. PICK c : c = [b EXCEPT !.index = 0, !.draft = "", !.text = text, !.row = row]
        OBVIOUS
      <4>2. row \in Nat
        OBVIOUS
      <4>3. c \in Boxes
        BY <4>1, <4>2 DEF Boxes, Shows
      <4>4. c.text = text /\ c.row = row /\ c.index = 0
        BY <4>1 DEF Boxes
      <4> QED
        BY <4>1, <4>3, <4>4
    <3>4. box' = [box EXCEPT ![s] = c]
      <4>1. c = [[b EXCEPT !.index = 0, !.draft = ""] EXCEPT !.text = text, !.row = row]
        BY <3>3 DEF Boxes
      <4>2. Log!Show(s, [b EXCEPT !.index = 0, !.draft = ""], text)
        BY <1>1, <1>2, <1>3, <1>7, <2>2, <3>1 DEF Log!Down
      <4> QED
        BY <3>2, <4>1, <4>2 DEF Log!Show
    <3>5. Walks(c, typed[s], entries[s])
      BY <1>1, <1>2, <1>3, <1>7, <3>1, <3>2, <3>3 DEF Walks
    <3> QED
      BY <1>4, <3>3, <3>4, <3>5, BoxShown
  <2> QED
    BY <2>1, <2>2
<1> QED
  BY <1>6, <1>7

(* Every step of the sessions keeps the invariant.                          *)
LEMMA HistoryStep ==
  ASSUME HistoryInv, Log!Next
  PROVE  HistoryInv'
<1>0. Tuis \subseteq Log!Sessions /\ Plains \subseteq Log!Sessions
  BY DEF Log!Sessions
<1>1. CASE \E s \in Log!Sessions : Log!Begin(s) \/ Log!End(s)
  BY <1>1, SessionsBeginAndEnd
<1>2. CASE \E s \in Plains, prompt \in Prompts : Log!PlainSubmits(s, prompt)
  BY <1>0, <1>2, PromptsAreSent
<1>3. CASE \E s \in Tuis : Log!TuiSubmits(s)
  <2>1. PICK s \in Tuis : Log!TuiSubmits(s)
    BY <1>3
  <2>2. box[s].text \in Prompts
    BY <2>1 DEF Log!TuiSubmits, HistoryInv, WalksInv, Boxes, Shows
  <2> QED
    BY <1>0, <2>1, <2>2, PromptsAreSent
<1>4. CASE \E s \in Tuis : Log!Clear(s)
  <2>1. PICK s \in Tuis : Log!Clear(s)
    BY <1>4
  <2>2. FilesInv'
    BY <2>1 DEF HistoryInv, FilesInv, Log!Clear
  <2>3. entries'[s] \in Seq(Prompts) /\ \A r \in Tuis \ {s} : entries'[r] = entries[r]
    BY <1>0, <2>1 DEF Log!Clear, Log!Live, HistoryInv, FilesInv, InMemory
  <2>4. OneBox(s)
    BY <2>1, <2>3, EmptyWalks, BoxSet DEF Log!Clear, HistoryInv
  <2> QED
    BY <2>2, <2>3, <2>4, BoxMoves DEF HistoryInv
<1>5. CASE \E s \in Tuis : Log!Up(s) \/ Log!Down(s)
  BY <1>5, WalksUp, WalksDown
<1>6. CASE \E s \in Tuis, prompt \in Prompts : Log!Type(s, prompt) \/ Log!Insert(s, prompt)
  BY <1>6, TextIsEdited
<1> QED
  BY <1>1, <1>2, <1>3, <1>4, <1>5, <1>6 DEF Log!Next

(* A file that nobody has written, and sessions that have not begun.        *)
LEMMA HistoryBegins ==
  ASSUME Log!Init PROVE HistoryInv
<1>1. <<>> \in Seq(Prompts) /\ Log!InOrder(<<>>, <<>>)
  <2>1. <<>> \in Seq(Prompts)
    OBVIOUS
  <2> QED
    BY <2>1, InOrderItself
<1>2. FilesInv
  BY <1>1 DEF Log!Init, FilesInv, InMemory
<1>3. Log!EmptyBox \in Boxes /\ Walks(Log!EmptyBox, "", Log!Closed)
  BY EmptyWalks
<1>4. WalksInv
  BY <1>3 DEF Log!Init, WalksInv, Log!Sessions
<1> QED
  BY <1>2, <1>4 DEF HistoryInv

(* What the invariant says for the properties of the history.               *)
LEMMA HistoryInvHolds ==
  ASSUME HistoryInv
  PROVE  Log!TypeOK /\ Log!FileKeepsOrder /\ Log!DraftComesBack
<1>1. Log!FileKeepsOrder
  BY DEF HistoryInv, FilesInv, Log!FileKeepsOrder
<1>2. Log!DraftComesBack
  BY DEF HistoryInv, WalksInv, Walks, Log!DraftComesBack
<1>3. ASSUME NEW s \in Log!Sessions, Log!Live(s)
      PROVE  entries[s] \in Seq(Prompts) /\ ~Log!Over(entries[s])
  BY <1>3 DEF HistoryInv, FilesInv, InMemory, Log!Live
<1>4. ASSUME NEW s \in Tuis
      PROVE  /\ box[s].text \in Prompts \cup {""} /\ box[s].row \in 0..Log!LastRow(box[s].text)
             /\ Log!Live(s) => box[s].index \in 0..Len(entries[s])
  BY DEF HistoryInv, WalksInv, Walks, Boxes, Shows, Log!Live
<1>5. Log!TypeOK
  BY <1>3, <1>4 DEF HistoryInv, FilesInv, Log!TypeOK
<1> QED
  BY <1>1, <1>2, <1>5

(* No session of another component touches the history.                     *)
LEMMA HistoryRestsStep ==
  ASSUME focus = "history" => HistoryInv, [Next]_allVars
  PROVE  (focus = "history" => HistoryInv)'
<1> SUFFICES ASSUME focus' = "history" PROVE HistoryInv'
  OBVIOUS
<1>1. focus = "history"
  BY DEF Next, TraceSteps, HistorySteps, ConfigSteps, StoreSteps, allVars
<1>2. CASE HistorySteps
  BY <1>1, <1>2, HistoryStep DEF HistorySteps
<1>3. CASE UNCHANGED histVars
  <2>1. FilesInv'
    BY <1>1, <1>3 DEF histVars, HistoryInv, FilesInv
  <2>2. WalksInv'
    BY <1>1, <1>3 DEF histVars, HistoryInv, WalksInv
  <2> QED
    BY <2>1, <2>2 DEF HistoryInv
<1> QED
  BY <1>1, <1>2, <1>3 DEF Next, TraceSteps, ConfigSteps, StoreSteps, allVars

-----------------------------------------------------------------------------
(* Whatever sessions share the history, and however many: the file holds    *)
(* prompts in the order they were accepted, all of them until a session     *)
(* goes over the cap or a write fails, and no walk costs the draft          *)
(* (history.py, prompt_input.py).                                           *)
THEOREM PromptsSurvive == Spec => []PromptsAreKept
<1> DEFINE Inv == focus = "history" => HistoryInv
<1>1. Init => Inv
  BY HistoryBegins DEF Init
<1>2. Inv /\ [Next]_allVars => Inv'
  BY HistoryRestsStep
<1>3. Inv => PromptsAreKept
  BY HistoryInvHolds DEF PromptsAreKept
<1> HIDE DEF Inv
<1> QED
  BY <1>1, <1>2, <1>3, PTL DEF Spec, allVars

-----------------------------------------------------------------------------
(* The trace.                                                               *)
Steps == {Trace!Down, Trace!Open} \cup {Trace!Shift(k) : k \in -1..Keep}

TraceTypes ==
  /\ files \in 0..MaxFiles /\ name \in [Trace!Generations -> 0..files]
  /\ content \in [1..MaxFiles -> Seq(Trace!TraceEvent)]
  /\ at \in [Processes -> Steps]
  /\ fh \in [Processes -> 0..files] /\ size \in [Processes -> Nat]
  /\ held \subseteq Trace!Generations /\ written \in Seq(Trace!TraceEvent)
  /\ raced \in BOOLEAN

(* A file is open exactly where a recorder is between two events.           *)
OpenFiles == \A p \in Processes : at[p] = Trace!Open <=> fh[p] # Trace!NoFile

(* The steps of a recorder are told apart by their names.                   *)
LEMMA StepsDiffer ==
  /\ Trace!Down # Trace!Open /\ Trace!Down \in Steps /\ Trace!Open \in Steps
  /\ \A k \in -1..Keep : Trace!Shift(k) \in Steps /\ Trace!Shift(k) # Trace!Open
                         /\ Trace!Shift(k).step = "rotate" /\ Trace!Shift(k).gen = k
  /\ Trace!Down.step # "rotate" /\ Trace!Open.step # "rotate"
<1>1. /\ Trace!Down # Trace!Open /\ Trace!Down.step # "rotate" /\ Trace!Open.step # "rotate"
  BY DEF Trace!Down, Trace!Open
<1>2. \A k \in -1..Keep : /\ Trace!Shift(k).step = "rotate" /\ Trace!Shift(k).gen = k
                          /\ Trace!Open.step = "open"
  BY DEF Trace!Shift, Trace!Open
<1>3. \A k \in -1..Keep : Trace!Shift(k) # Trace!Open
  BY <1>2
<1>4. \A k \in -1..Keep : Trace!Shift(k) \in Steps
  BY DEF Steps
<1>5. Trace!Down \in Steps /\ Trace!Open \in Steps
  BY DEF Steps
<1> QED
  BY <1>1, <1>2, <1>3, <1>4, <1>5

(* How many files there are, and may be.                                    *)
LEMMA FilesAreFew ==
  ASSUME TraceTypes
  PROVE  files \in Nat /\ MaxFiles \in Nat /\ files <= MaxFiles
<1>1. MaxFiles \in Nat
  BY HomeAssumption
<1>2. files \in 0..MaxFiles
  BY DEF TraceTypes
<1> QED
  BY <1>1, <1>2

(* A recorder that rotates is at a generation.                              *)
LEMMA RotatingAt ==
  ASSUME TraceTypes, NEW p \in Processes, Trace!Rotating(p)
  PROVE  at[p].gen \in -1..Keep /\ at[p] = Trace!Shift(at[p].gen)
<1>1. at[p] \in Steps /\ at[p].step = "rotate"
  BY DEF TraceTypes, Trace!Rotating
<1>2. PICK k \in -1..Keep : at[p] = Trace!Shift(k)
  BY <1>1, StepsDiffer DEF Steps
<1> QED
  BY <1>2, StepsDiffer

(* The types, where one process moves on and the counters stay in bounds.   *)
LEMMA ProcessMoves ==
  ASSUME TraceTypes, OpenFiles, NEW p \in Processes, NEW step \in Steps,
         NEW file \in 0..files', step = Trace!Open <=> file # Trace!NoFile,
         at' = [at EXCEPT ![p] = step], fh' = [fh EXCEPT ![p] = file],
         files' \in Nat, files <= files'
  PROVE  /\ at' \in [Processes -> Steps] /\ fh' \in [Processes -> 0..files'] /\ OpenFiles'
         /\ at'[p] = step /\ fh'[p] = file
         /\ \A q \in Processes \ {p} : at'[q] = at[q] /\ fh'[q] = fh[q]
<1>1. /\ at \in [Processes -> Steps] /\ fh \in [Processes -> 0..files] /\ files \in Nat
  BY FilesAreFew DEF TraceTypes
<1>2. at' \in [Processes -> Steps]
  BY <1>1
<1>3. fh' \in [Processes -> 0..files']
  BY <1>1
<1>4. at'[p] = step /\ fh'[p] = file
  BY <1>1
<1>5. \A q \in Processes \ {p} : at'[q] = at[q] /\ fh'[q] = fh[q]
  BY <1>1
<1>6. OpenFiles'
  BY <1>4, <1>5 DEF OpenFiles, Trace!NoFile, Trace!Open
<1> QED
  BY <1>2, <1>3, <1>4, <1>5, <1>6

(* The live file is opened: the one that is there, or a new one.            *)
LEMMA LiveIsOpened ==
  ASSUME TraceTypes, OpenFiles, NEW p \in Processes, Trace!OpenLive(p)
  PROVE  /\ files' \in 0..MaxFiles /\ name' \in [Trace!Generations -> 0..files']
         /\ files <= files' /\ name'[0] \in 1..files' /\ fh'[p] = name'[0]
         /\ IF name[0] = Trace!NoFile THEN files' = files + 1 /\ name'[0] = files + 1
            ELSE files' = files /\ name' = name
         /\ \A k \in Trace!Generations \ {0} : name'[k] = name[k]
         /\ at' \in [Processes -> Steps] /\ fh' \in [Processes -> 0..files'] /\ OpenFiles'
         /\ at'[p] = Trace!Open /\ size' = [size EXCEPT ![p] = Trace!FileSize(0)]
         /\ \A q \in Processes \ {p} : at'[q] = at[q] /\ fh'[q] = fh[q]
<1>1. PICK n \in Nat, m \in Nat : n = files /\ m = MaxFiles /\ n <= m
  BY FilesAreFew
<1>2. name \in [Trace!Generations -> 0..n] /\ 0 \in Trace!Generations
  <2>1. Keep \in Nat
    BY HomeAssumption
  <2> QED
    BY <1>1, <2>1 DEF TraceTypes, Trace!Generations
<1>3. /\ at' = [at EXCEPT ![p] = Trace!Open] /\ fh' = [fh EXCEPT ![p] = name'[0]]
      /\ size' = [size EXCEPT ![p] = Trace!FileSize(0)]
      /\ IF name[0] = Trace!NoFile
         THEN n < m /\ files' = n + 1 /\ name' = [name EXCEPT ![0] = n + 1]
         ELSE files' = n /\ name' = name
  BY <1>1 DEF Trace!OpenLive
<1>4. /\ files' \in 0..MaxFiles /\ name' \in [Trace!Generations -> 0..files']
      /\ n <= files' /\ name'[0] \in 1..files' /\ files' \in Nat
      /\ (name[0] = Trace!NoFile => files' = n + 1 /\ name'[0] = n + 1)
      /\ \A k \in Trace!Generations \ {0} : name'[k] = name[k]
  <2>1. CASE name[0] = Trace!NoFile
    <3>1. n < m /\ files' = n + 1 /\ name' = [name EXCEPT ![0] = n + 1]
      BY <1>3, <2>1
    <3>2. name'[0] = n + 1 /\ \A k \in Trace!Generations \ {0} : name'[k] = name[k]
      BY <1>2, <3>1
    <3>3. name' \in [Trace!Generations -> 0..(n + 1)]
      BY <1>2, <3>1
    <3> QED
      BY <1>1, <3>1, <3>2, <3>3
  <2>2. CASE name[0] # Trace!NoFile
    BY <1>1, <1>2, <1>3, <2>2 DEF Trace!NoFile
  <2> QED
    BY <2>1, <2>2
<1>5. PICK i \in 0..files' : i = name'[0] /\ i # Trace!NoFile
  BY <1>4 DEF Trace!NoFile
<1>6. fh' = [fh EXCEPT ![p] = i] /\ at' = [at EXCEPT ![p] = Trace!Open]
  BY <1>3, <1>5
<1>7. Trace!Open \in Steps
  BY StepsDiffer
<1>8. files <= files' /\ files' \in Nat
  BY <1>1, <1>4
<1>9. /\ at' \in [Processes -> Steps] /\ fh' \in [Processes -> 0..files'] /\ OpenFiles'
      /\ at'[p] = Trace!Open /\ fh'[p] = i
      /\ \A q \in Processes \ {p} : at'[q] = at[q] /\ fh'[q] = fh[q]
  BY <1>5, <1>6, <1>7, <1>8, ProcessMoves
<1> QED
  BY <1>1, <1>3, <1>4, <1>5, <1>9

(* The size of the file of a generation.                                    *)
LEMMA FileSizes ==
  ASSUME TraceTypes, NEW k \in Trace!Generations
  PROVE  /\ Trace!FileSize(k) \in Nat
         /\ name[k] # Trace!NoFile => name[k] \in 1..files /\ name[k] \in 1..MaxFiles
                                      /\ Trace!FileSize(k) = Len(content[name[k]])
<1>1. PICK n \in Nat, m \in Nat : n = files /\ m = MaxFiles /\ n <= m
  BY FilesAreFew
<1>2. name[k] \in 0..n
  BY <1>1 DEF TraceTypes
<1>3. name[k] # Trace!NoFile => content[name[k]] \in Seq(Trace!TraceEvent)
  BY <1>1, <1>2 DEF TraceTypes, Trace!NoFile
<1>4. name[k] # Trace!NoFile => Len(content[name[k]]) \in Nat
  BY <1>3, LenProperties
<1> QED
  BY <1>1, <1>2, <1>4 DEF Trace!FileSize, Trace!NoFile

(* The events of a session in a file, and how many there are.               *)
EventsOf(s, p) == {i \in DOMAIN s : s[i].session = p}
Count(s, p) == Cardinality(EventsOf(s, p))

(* There are no more than the file has events.                              *)
LEMMA CountBounds ==
  ASSUME NEW s \in Seq(Trace!TraceEvent), NEW p
  PROVE  /\ IsFiniteSet(EventsOf(s, p)) /\ Count(s, p) \in Nat /\ Count(s, p) <= Len(s)
         /\ Count(<<>>, p) = 0
<1>1. PICK n \in Nat : n = Len(s) /\ DOMAIN s = 1..n
  BY LenProperties
<1>2. EventsOf(s, p) \subseteq 1..n
  BY <1>1 DEF EventsOf
<1>3. IsFiniteSet(1..n) /\ Cardinality(1..n) = n
  BY FS_Interval
<1>4. IsFiniteSet(EventsOf(s, p)) /\ Cardinality(EventsOf(s, p)) <= Cardinality(1..n)
  BY <1>2, <1>3, FS_Subset
<1>5. Cardinality(EventsOf(s, p)) \in Nat
  BY <1>4, FS_CardinalityType
<1>6. EventsOf(<<>>, p) = {}
  BY DEF EventsOf
<1>7. Count(<<>>, p) = 0
  BY <1>6, FS_EmptySet DEF Count
<1> QED
  BY <1>1, <1>3, <1>4, <1>5, <1>7 DEF Count

(* An event more counts for its session, and for no other.                  *)
LEMMA CountAppended ==
  ASSUME NEW s \in Seq(Trace!TraceEvent), NEW e \in Trace!TraceEvent, NEW p
  PROVE  Count(Append(s, e), p) = IF e.session = p THEN Count(s, p) + 1 ELSE Count(s, p)
<1>1. PICK n \in Nat : n = Len(s) /\ DOMAIN s = 1..n
  BY LenProperties
<1>2. PICK t : t = Append(s, e)
  OBVIOUS
<1>3. DOMAIN t = 1..(n + 1) /\ t[n + 1] = e /\ \A i \in 1..n : t[i] = s[i]
  BY <1>1, <1>2, AppendProperties, LenProperties
<1>4. IsFiniteSet(EventsOf(s, p)) /\ n + 1 \notin EventsOf(s, p)
  <2>1. IsFiniteSet(EventsOf(s, p))
    BY CountBounds
  <2>2. n + 1 \notin EventsOf(s, p)
    BY <1>1 DEF EventsOf
  <2> QED
    BY <2>1, <2>2
<1>5. CASE e.session = p
  <2>1. EventsOf(t, p) = EventsOf(s, p) \cup {n + 1}
    BY <1>1, <1>3, <1>5 DEF EventsOf
  <2>2. Cardinality(EventsOf(s, p) \cup {n + 1}) = Cardinality(EventsOf(s, p)) + 1
    BY <1>4, FS_AddElement
  <2> QED
    BY <1>2, <1>5, <2>1, <2>2 DEF Count
<1>6. CASE e.session # p
  <2>1. EventsOf(t, p) = EventsOf(s, p)
    BY <1>1, <1>3, <1>6 DEF EventsOf
  <2> QED
    BY <1>2, <1>6, <2>1 DEF Count
<1> QED
  BY <1>5, <1>6

(* The events of the sessions of a set, in a file in which each session has  *)
(* no more than the cap.                                                    *)
AmongEvents(s, Q) == {i \in DOMAIN s : s[i].session \in Q}
Fair(s) == \A p \in Processes : Count(s, p) <= MaxBytes

(* There are no more than the cap for each of them.                         *)
LEMMA CountedTogether ==
  ASSUME NEW s \in Seq(Trace!TraceEvent), Fair(s)
  PROVE  Len(s) <= Cardinality(Processes) * MaxBytes
<1> DEFINE S == {n \in Nat : \A Q \in SUBSET Processes :
                   Cardinality(Q) = n => /\ IsFiniteSet(AmongEvents(s, Q))
                                         /\ Cardinality(AmongEvents(s, Q)) <= n * MaxBytes}
<1>0. IsFiniteSet(Processes) /\ MaxBytes \in Nat
  BY HomeAssumption
<1>1. 0 \in S
  <2> SUFFICES ASSUME NEW Q \in SUBSET Processes, Cardinality(Q) = 0
               PROVE  /\ IsFiniteSet(AmongEvents(s, Q))
                      /\ Cardinality(AmongEvents(s, Q)) <= 0 * MaxBytes
    OBVIOUS
  <2>1. IsFiniteSet(Q)
    BY <1>0, FS_Subset
  <2>2. Q = {}
    BY <2>1, FS_EmptySet
  <2>3. AmongEvents(s, Q) = {}
    BY <2>2 DEF AmongEvents
  <2> QED
    BY <1>0, <2>3, FS_EmptySet
<1>2. ASSUME NEW n \in S PROVE n + 1 \in S
  <2>0. n \in Nat
    OBVIOUS
  <2> SUFFICES ASSUME NEW Q \in SUBSET Processes, Cardinality(Q) = n + 1
               PROVE  /\ IsFiniteSet(AmongEvents(s, Q))
                      /\ Cardinality(AmongEvents(s, Q)) <= (n + 1) * MaxBytes
    BY <2>0
  <2>1. IsFiniteSet(Q)
    BY <1>0, FS_Subset
  <2>2. PICK p \in Q : TRUE
    <3>1. Q # {}
      BY <2>0, <2>1, FS_EmptySet
    <3> QED
      BY <3>1
  <2>3. Cardinality(Q \ {p}) = n
    <3>1. Cardinality(Q \ {p}) = Cardinality(Q) - 1
      BY <2>1, <2>2, FS_RemoveElement
    <3> QED
      BY <2>0, <3>1
  <2>4. PICK A : A = AmongEvents(s, Q \ {p})
    OBVIOUS
  <2>5. IsFiniteSet(A) /\ Cardinality(A) <= n * MaxBytes
    BY <2>3, <2>4
  <2>6. PICK B : B = EventsOf(s, p)
    OBVIOUS
  <2>7. /\ IsFiniteSet(B) /\ Cardinality(B) <= MaxBytes
    BY <2>2, <2>6, CountBounds DEF Fair, Count
  <2>8. AmongEvents(s, Q) = A \cup B
    BY <2>2, <2>4, <2>6 DEF AmongEvents, EventsOf
  <2>9. /\ IsFiniteSet(A \cup B)
        /\ Cardinality(A \cup B) = Cardinality(A) + Cardinality(B) - Cardinality(A \cap B)
    BY <2>5, <2>7, FS_Union
  <2>10. /\ Cardinality(A) \in Nat /\ Cardinality(B) \in Nat /\ Cardinality(A \cap B) \in Nat
    <3>1. IsFiniteSet(A \cap B)
      BY <2>5, FS_Intersection
    <3> QED
      BY <2>5, <2>7, <3>1, FS_CardinalityType
  <2>11. (n + 1) * MaxBytes = n * MaxBytes + MaxBytes /\ n * MaxBytes \in Nat
    BY <1>0, <2>0
  <2>12. Cardinality(A \cup B) <= n * MaxBytes + MaxBytes
    BY <1>0, <2>5, <2>7, <2>9, <2>10, <2>11
  <2> QED
    BY <2>8, <2>9, <2>11, <2>12
<1> HIDE DEF S
<1>3. S = Nat
  BY <1>1, <1>2, InductionOnNat DEF S
<1>4. Cardinality(Processes) \in S
  BY <1>0, <1>3, FS_CardinalityType
<1>5. Cardinality(AmongEvents(s, Processes)) <= Cardinality(Processes) * MaxBytes
  BY <1>4 DEF S
<1>6. AmongEvents(s, Processes) = DOMAIN s
  <2>1. \A i \in DOMAIN s : s[i].session \in Processes
    <3>1. \A i \in DOMAIN s : s[i] \in Trace!TraceEvent
      BY ElementOfSeq, LenProperties
    <3> QED
      BY <3>1 DEF Trace!TraceEvent
  <2> QED
    BY <2>1 DEF AmongEvents
<1>7. Cardinality(DOMAIN s) = Len(s)
  <2>1. PICK n \in Nat : n = Len(s) /\ DOMAIN s = 1..n
    BY LenProperties
  <2>2. Cardinality(1..n) = n
    BY FS_Interval
  <2> QED
    BY <2>1, <2>2
<1> QED
  BY <1>5, <1>6, <1>7

(* No file that is not there yet has events.                                *)
NewFiles == \A i \in 1..MaxFiles : i > files => content[i] = <<>>

(* What holds as long as no two rotations overlapped and none found a file  *)
(* held: one process rotates at a time, no session has more than the cap in *)
(* a file, or the cap in the file it has open, whose size it knows; and one *)
(* that has moved the live file away has nothing in the one made since.     *)
Alone == \A p, q \in Processes : Trace!Rotating(p) /\ Trace!Rotating(q) => p = q
AllFair == \A i \in 1..MaxFiles : Fair(content[i])
Counted(p) == fh[p] # Trace!NoFile => /\ Count(content[fh[p]], p) <= size[p]
                                      /\ Count(content[fh[p]], p) < MaxBytes
Clean(p) == Trace!Rotating(p) /\ at[p].gen < 0 /\ name[0] # Trace!NoFile
              => Count(content[name[0]], p) = 0
CapsHold == Alone /\ AllFair /\ \A p \in Processes : Counted(p) /\ Clean(p)

TraceInv == TraceTypes /\ OpenFiles /\ NewFiles /\ (~raced => CapsHold)

(* The counts are numbers.                                                  *)
LEMMA CountsOfFiles ==
  ASSUME TraceTypes, NEW i \in 1..MaxFiles, NEW p
  PROVE  /\ content[i] \in Seq(Trace!TraceEvent) /\ Len(content[i]) \in Nat
         /\ Count(content[i], p) \in Nat /\ Count(content[i], p) <= Len(content[i])
         /\ Count(<<>>, p) = 0
<1>1. content[i] \in Seq(Trace!TraceEvent)
  BY DEF TraceTypes
<1>2. Len(content[i]) \in Nat
  BY <1>1, LenProperties
<1> QED
  BY <1>1, <1>2, CountBounds

(* A process opens the live file, in which it has less than the cap.        *)
LEMMA OpeningKeepsCaps ==
  ASSUME TraceInv, NEW p \in Processes, Trace!OpenLive(p),
         UNCHANGED <<content, held, written, raced>>,
         ~raced /\ name[0] # Trace!NoFile => Count(content[name[0]], p) < MaxBytes
  PROVE  TraceInv'
<1>1. TraceTypes /\ OpenFiles /\ NewFiles /\ (~raced => CapsHold)
  BY DEF TraceInv
<1>2. PICK n \in Nat, m \in Nat : n = files /\ m = MaxFiles /\ n <= m
  BY <1>1, FilesAreFew
<1>3. 0 \in Trace!Generations /\ MaxBytes \in Nat \ {0}
  <2>1. Keep \in Nat /\ MaxBytes \in Nat \ {0}
    BY HomeAssumption
  <2> QED
    BY <2>1 DEF Trace!Generations
<1>4. /\ files' \in 0..MaxFiles /\ name' \in [Trace!Generations -> 0..files']
      /\ n <= files' /\ name'[0] \in 1..files' /\ fh'[p] = name'[0]
      /\ IF name[0] = Trace!NoFile THEN files' = n + 1 /\ name'[0] = n + 1
         ELSE files' = n /\ name' = name
      /\ at' \in [Processes -> Steps] /\ fh' \in [Processes -> 0..files'] /\ OpenFiles'
      /\ at'[p] = Trace!Open /\ size' = [size EXCEPT ![p] = Trace!FileSize(0)]
      /\ \A q \in Processes \ {p} : at'[q] = at[q] /\ fh'[q] = fh[q]
  BY <1>1, <1>2, LiveIsOpened
<1>5. /\ Trace!FileSize(0) \in Nat
      /\ name[0] # Trace!NoFile => name[0] \in 1..m /\ Trace!FileSize(0) = Len(content[name[0]])
      /\ name[0] = Trace!NoFile => Trace!FileSize(0) = 0
  BY <1>1, <1>2, <1>3, FileSizes DEF Trace!FileSize
<1>6. /\ size' \in [Processes -> Nat] /\ size'[p] = Trace!FileSize(0)
      /\ \A q \in Processes \ {p} : size'[q] = size[q]
  <2>1. size \in [Processes -> Nat]
    BY <1>1 DEF TraceTypes
  <2> QED
    BY <1>4, <1>5, <2>1
<1>7. TraceTypes'
  <2>1. /\ content' \in [1..MaxFiles -> Seq(Trace!TraceEvent)] /\ held' \subseteq Trace!Generations
        /\ written' \in Seq(Trace!TraceEvent) /\ raced' \in BOOLEAN
    BY <1>1 DEF TraceTypes
  <2> QED
    BY <1>4, <1>6, <2>1 DEF TraceTypes
<1>8. NewFiles'
  <2>1. \A i \in 1..m : i > files' => content'[i] = <<>>
    BY <1>1, <1>2, <1>4 DEF NewFiles
  <2> QED
    BY <1>2, <2>1 DEF NewFiles
<1>9. ASSUME ~raced PROVE CapsHold'
  <2>1. Alone'
    <3>1. ~Trace!Rotating(p)'
      BY <1>4, StepsDiffer DEF Trace!Rotating
    <3>2. \A q \in Processes \ {p} : Trace!Rotating(q)' => Trace!Rotating(q)
      BY <1>4 DEF Trace!Rotating
    <3> QED
      BY <1>1, <1>9, <3>1, <3>2 DEF CapsHold, Alone
  <2>2. AllFair'
    BY <1>1, <1>9 DEF CapsHold, AllFair
  <2>3. ASSUME name[0] = Trace!NoFile, NEW q PROVE Count(content[name'[0]], q) = 0
    <3>1. n + 1 \in 1..m /\ n + 1 > files
      BY <1>2, <1>4, <2>3
    <3>2. content[n + 1] = <<>>
      BY <1>1, <1>2, <3>1 DEF NewFiles
    <3> QED
      BY <1>1, <1>2, <1>4, <2>3, <3>1, <3>2, CountsOfFiles
  <2>4. ASSUME NEW q \in Processes PROVE Counted(q)'
    <3>1. CASE q # p
      BY <1>1, <1>4, <1>6, <1>9, <3>1 DEF CapsHold, Counted
    <3>2. CASE q = p /\ name[0] = Trace!NoFile
      BY <1>3, <1>4, <1>5, <1>6, <2>3, <3>2 DEF Counted
    <3>3. CASE q = p /\ name[0] # Trace!NoFile
      <4>1. /\ Count(content[name[0]], p) <= Len(content[name[0]])
        BY <1>1, <1>2, <1>5, <3>3, CountsOfFiles
      <4> QED
        BY <1>4, <1>5, <1>6, <1>9, <3>3, <4>1 DEF Counted
    <3> QED
      BY <3>1, <3>2, <3>3
  <2>5. ASSUME NEW q \in Processes PROVE Clean(q)'
    <3>1. CASE q = p
      <4>1. ~Trace!Rotating(p)'
        BY <1>4, StepsDiffer DEF Trace!Rotating
      <4> QED
        BY <3>1, <4>1 DEF Clean
    <3>2. CASE q # p /\ name[0] = Trace!NoFile
      BY <2>3, <3>2 DEF Clean
    <3>3. CASE q # p /\ name[0] # Trace!NoFile
      <4>1. name'[0] = name[0] /\ at'[q] = at[q]
        BY <1>4, <3>3
      <4>2. Clean(q)
        BY <1>1, <1>9 DEF CapsHold
      <4> QED
        BY <4>1, <4>2 DEF Clean, Trace!Rotating
    <3> QED
      BY <3>1, <3>2, <3>3
  <2> QED
    BY <2>1, <2>2, <2>4, <2>5 DEF CapsHold
<1> QED
  BY <1>4, <1>7, <1>8, <1>9 DEF TraceInv

(* One process moves on or stops, and no other file is open than before.    *)
LEMMA StepsKeepTypes ==
  ASSUME TraceInv, NEW p \in Processes, NEW step \in Steps, NEW file \in 0..files,
         step = Trace!Open <=> file # Trace!NoFile,
         at' = [at EXCEPT ![p] = step], fh' = [fh EXCEPT ![p] = file], UNCHANGED files
  PROVE  /\ at' \in [Processes -> Steps] /\ fh' \in [Processes -> 0..files'] /\ OpenFiles'
         /\ at'[p] = step /\ fh'[p] = file
         /\ \A q \in Processes \ {p} : at'[q] = at[q] /\ fh'[q] = fh[q]
<1>1. TraceTypes /\ OpenFiles
  BY DEF TraceInv
<1>2. files' \in Nat /\ files <= files' /\ file \in 0..files'
  BY <1>1, FilesAreFew
<1> QED
  BY <1>1, <1>2, ProcessMoves

(* A step at which nothing is written and no file opened: what must hold    *)
(* for the process that moves.                                              *)
Moves(p) ==
  /\ at' \in [Processes -> Steps] /\ fh' \in [Processes -> 0..files'] /\ OpenFiles'
  /\ fh'[p] \in {fh[p], Trace!NoFile}
  /\ \A q \in Processes \ {p} : at'[q] = at[q] /\ fh'[q] = fh[q]
  /\ UNCHANGED <<content, files, size, written>>
  /\ name' \in [Trace!Generations -> 0..files] /\ held' \subseteq Trace!Generations
  /\ raced' \in BOOLEAN

(* It keeps the types.                                                      *)
LEMMA MovesKeepTypes ==
  ASSUME TraceInv, NEW p, Moves(p)
  PROVE  TraceTypes' /\ OpenFiles' /\ NewFiles'
<1>1. TraceTypes /\ NewFiles
  BY DEF TraceInv
<1>2. TraceTypes'
  BY <1>1 DEF TraceTypes, Moves
<1>3. NewFiles'
  BY <1>1 DEF NewFiles, Moves
<1> QED
  BY <1>2, <1>3 DEF Moves

(* A file that is open is still counted by the one that has it open.        *)
LEMMA MovesKeepCounts ==
  ASSUME CapsHold, NEW p, Moves(p)
  PROVE  AllFair' /\ \A q \in Processes : Counted(q)'
<1>1. AllFair'
  BY DEF CapsHold, AllFair, Moves
<1>2. ASSUME NEW q \in Processes PROVE Counted(q)'
  <2>1. fh'[q] = fh[q] \/ fh'[q] = Trace!NoFile
    BY DEF Moves
  <2>2. Counted(q)
    BY DEF CapsHold
  <2> QED
    BY <2>1, <2>2 DEF Counted, Moves
<1> QED
  BY <1>1, <1>2

(* A rotation begins.                                                       *)
LEMMA RotationBegins ==
  ASSUME TraceInv, NEW p \in Processes, Trace!BeginRotation(p),
         UNCHANGED <<name, content, files, size, held, written>>
  PROVE  TraceInv'
<1>1. TraceTypes /\ OpenFiles /\ (~raced => CapsHold)
  BY DEF TraceInv
<1>2. Keep \in Nat /\ Keep \in -1..Keep
  <2>1. Keep \in Nat
    BY HomeAssumption
  <2> QED
    BY <2>1
<1>3. /\ at' = [at EXCEPT ![p] = Trace!Shift(Keep)] /\ fh' = [fh EXCEPT ![p] = Trace!NoFile]
      /\ raced' = (raced \/ \E q \in Processes \ {p} : Trace!Rotating(q))
  BY DEF Trace!BeginRotation
<1>4. /\ Trace!Shift(Keep) \in Steps /\ Trace!NoFile \in 0..files
      /\ Trace!Shift(Keep) = Trace!Open <=> Trace!NoFile # Trace!NoFile
  BY <1>1, <1>2, StepsDiffer, FilesAreFew DEF Trace!NoFile
<1>5. /\ at' \in [Processes -> Steps] /\ fh' \in [Processes -> 0..files'] /\ OpenFiles'
      /\ at'[p] = Trace!Shift(Keep) /\ fh'[p] = Trace!NoFile
      /\ \A q \in Processes \ {p} : at'[q] = at[q] /\ fh'[q] = fh[q]
  BY <1>3, <1>4, StepsKeepTypes
<1>6. Moves(p)
  <2>1. raced' \in BOOLEAN
    BY <1>1, <1>3 DEF TraceTypes
  <2>2. name' \in [Trace!Generations -> 0..files] /\ held' \subseteq Trace!Generations
    BY <1>1 DEF TraceTypes
  <2> QED
    BY <1>5, <2>1, <2>2 DEF Moves
<1>7. ASSUME ~raced' PROVE CapsHold'
  <2>1. ~raced /\ \A q \in Processes \ {p} : ~Trace!Rotating(q)
    BY <1>3, <1>7
  <2>2. \A q \in Processes \ {p} : ~Trace!Rotating(q)'
    BY <1>5, <2>1 DEF Trace!Rotating
  <2>3. Alone'
    BY <2>2 DEF Alone
  <2>4. at'[p].gen = Keep
    BY <1>2, <1>5, StepsDiffer
  <2>5. ASSUME NEW q \in Processes PROVE Clean(q)'
    BY <1>2, <2>2, <2>4 DEF Clean
  <2> QED
    BY <1>1, <1>6, <2>1, <2>3, <2>5, MovesKeepCounts DEF CapsHold
<1> QED
  BY <1>6, <1>7, MovesKeepTypes DEF TraceInv

(* A recorder starts, and one that has rotated opens its file again.        *)
LEMMA RecordersOpen ==
  ASSUME TraceInv, NEW p \in Processes, Trace!Start(p) \/ Trace!Reopen(p)
  PROVE  TraceInv'
<1>1. TraceTypes /\ (~raced => CapsHold)
  BY DEF TraceInv
<1>2. 0 \in Trace!Generations /\ MaxBytes \in Nat \ {0}
  <2>1. Keep \in Nat /\ MaxBytes \in Nat \ {0}
    BY HomeAssumption
  <2> QED
    BY <2>1 DEF Trace!Generations
<1>3. CASE Trace!Start(p)
  <2>1. CASE Trace!FileSize(0) >= MaxBytes /\ Trace!BeginRotation(p) /\ UNCHANGED <<name, files, size>>
    BY <1>3, <2>1, RotationBegins DEF Trace!Start
  <2>2. CASE Trace!FileSize(0) < MaxBytes /\ Trace!OpenLive(p) /\ UNCHANGED raced
    <3>1. ASSUME name[0] # Trace!NoFile PROVE Count(content[name[0]], p) < MaxBytes
      <4>1. /\ name[0] \in 1..MaxFiles /\ Trace!FileSize(0) = Len(content[name[0]])
        BY <1>1, <1>2, <3>1, FileSizes
      <4>2. /\ Count(content[name[0]], p) <= Len(content[name[0]])
            /\ Count(content[name[0]], p) \in Nat /\ Len(content[name[0]]) \in Nat
        BY <1>1, <4>1, CountsOfFiles
      <4> QED
        BY <1>2, <2>2, <4>1, <4>2
    <3>2. UNCHANGED <<content, held, written, raced>>
      BY <1>3, <2>2 DEF Trace!Start
    <3> QED
      BY <2>2, <3>1, <3>2, OpeningKeepsCaps
  <2> QED
    BY <1>3, <2>1, <2>2 DEF Trace!Start
<1>4. CASE Trace!Reopen(p)
  <2>1. /\ Trace!Rotating(p) /\ at[p].gen < 0 /\ Trace!OpenLive(p)
        /\ UNCHANGED <<content, held, written, raced>>
    BY <1>4 DEF Trace!Reopen
  <2>2. ASSUME ~raced, name[0] # Trace!NoFile PROVE Count(content[name[0]], p) < MaxBytes
    <3>1. Count(content[name[0]], p) = 0
      BY <1>1, <2>1, <2>2 DEF CapsHold, Clean
    <3> QED
      BY <1>2, <3>1
  <2> QED
    BY <2>1, <2>2, OpeningKeepsCaps
<1> QED
  BY <1>3, <1>4

(* What one step of a rotation makes of the names.                          *)
LEMMA NamesRotate ==
  ASSUME TraceTypes, NEW k \in 0..Keep,
         name' = IF k = Keep THEN Trace!Removed(k) ELSE Trace!Renamed(k)
  PROVE  /\ name' \in [Trace!Generations -> 0..files]
         /\ {k, k + 1} \cap held = {} => name'[k] = Trace!NoFile
<1>1. PICK n \in Nat, keep \in Nat : n = files /\ keep = Keep
  <2>1. Keep \in Nat
    BY HomeAssumption
  <2> QED
    BY <2>1, FilesAreFew
<1>2. name \in [Trace!Generations -> 0..n] /\ Trace!Generations = 0..keep
  BY <1>1 DEF TraceTypes, Trace!Generations
<1>3. CASE k = Keep
  BY <1>1, <1>2, <1>3 DEF Trace!Removed, Trace!NoFile
<1>4. CASE k # Keep
  <2>1. k \in 0..keep /\ k + 1 \in 0..keep /\ k # k + 1
    BY <1>1, <1>4
  <2>2. CASE name' = name
    BY <1>1, <1>2, <1>4, <2>1, <2>2 DEF Trace!Renamed, Trace!NoFile
  <2>3. CASE name' # name
    <3>1. name' = [name EXCEPT ![k] = Trace!NoFile, ![k + 1] = name[k]]
      BY <1>4, <2>3 DEF Trace!Renamed
    <3>2. name'[k] = Trace!NoFile
      BY <1>2, <2>1, <3>1
    <3>3. name' \in [0..keep -> 0..n]
      <4>0. name \in [0..keep -> 0..n] /\ Trace!NoFile \in 0..n
        BY <1>2 DEF Trace!NoFile
      <4>1. PICK gone \in [0..keep -> 0..n] : gone = [name EXCEPT ![k] = Trace!NoFile]
        BY <4>0
      <4>2. name[k] \in 0..n
        BY <1>2, <2>1
      <4>3. name' = [gone EXCEPT ![k + 1] = name[k]]
        BY <3>1, <4>1
      <4> QED
        BY <4>2, <4>3
    <3> QED
      BY <1>1, <1>2, <3>2, <3>3
  <2> QED
    BY <2>2, <2>3
<1> QED
  BY <1>3, <1>4

(* A rotation goes on to the generation before.                             *)
LEMMA RotationsGoOn ==
  ASSUME TraceInv, NEW p \in Processes, Trace!RotateStep(p)
  PROVE  TraceInv'
<1>1. TraceTypes /\ OpenFiles /\ (~raced => CapsHold)
  BY DEF TraceInv
<1>2. PICK k \in 0..Keep :
        /\ k = at[p].gen /\ Trace!Rotating(p) /\ at[p] = Trace!Shift(k)
        /\ name' = (IF k = Keep THEN Trace!Removed(k) ELSE Trace!Renamed(k))
        /\ at' = [at EXCEPT ![p] = Trace!Shift(k - 1)]
        /\ raced' = (raced \/ {k, k + 1} \cap held # {})
        /\ UNCHANGED <<content, files, fh, size, held, written>>
  <2>1. Trace!Rotating(p) /\ at[p].gen >= 0
    BY DEF Trace!RotateStep
  <2>2. at[p].gen \in -1..Keep /\ at[p] = Trace!Shift(at[p].gen)
    BY <1>1, <2>1, RotatingAt
  <2>3. at[p].gen \in 0..Keep
    BY <2>1, <2>2
  <2> QED
    BY <2>1, <2>2, <2>3 DEF Trace!RotateStep
<1>3. k - 1 \in -1..Keep
  <2>1. Keep \in Nat
    BY HomeAssumption
  <2>2. k \in Nat /\ k <= Keep
    BY <1>2, <2>1
  <2> QED
    BY <2>1, <2>2
<1>4. /\ name' \in [Trace!Generations -> 0..files]
      /\ {k, k + 1} \cap held = {} => name'[k] = Trace!NoFile
  BY <1>1, <1>2, NamesRotate
<1>5. fh[p] = Trace!NoFile
  <2>1. k \in -1..Keep
    BY <1>2
  <2> QED
    BY <1>1, <1>2, <2>1, StepsDiffer DEF OpenFiles
<1>6. /\ Trace!Shift(k - 1) \in Steps /\ Trace!Shift(k - 1) # Trace!Open
      /\ Trace!NoFile \in 0..files /\ fh' = [fh EXCEPT ![p] = Trace!NoFile]
  <2>1. fh \in [Processes -> 0..files]
    BY <1>1 DEF TraceTypes
  <2>2. fh' = [fh EXCEPT ![p] = Trace!NoFile]
    BY <1>2, <1>5, <2>1
  <2>3. Trace!NoFile \in 0..files
    BY <1>1, FilesAreFew DEF Trace!NoFile
  <2> QED
    BY <1>3, <2>2, <2>3, StepsDiffer
<1>7. /\ at' \in [Processes -> Steps] /\ fh' \in [Processes -> 0..files'] /\ OpenFiles'
      /\ at'[p] = Trace!Shift(k - 1) /\ fh'[p] = Trace!NoFile
      /\ \A q \in Processes \ {p} : at'[q] = at[q] /\ fh'[q] = fh[q]
  <2>1. Trace!Shift(k - 1) = Trace!Open <=> Trace!NoFile # Trace!NoFile
    BY <1>6
  <2>2. UNCHANGED files
    BY <1>2
  <2> QED
    BY <1>2, <1>6, <2>1, <2>2, StepsKeepTypes
<1>8. Moves(p)
  <2>1. raced' \in BOOLEAN /\ held' \subseteq Trace!Generations
    BY <1>1, <1>2 DEF TraceTypes
  <2> QED
    BY <1>2, <1>4, <1>7, <2>1 DEF Moves
<1>9. ASSUME ~raced' PROVE CapsHold'
  <2>1. ~raced /\ name'[k] = Trace!NoFile
    BY <1>2, <1>4, <1>9
  <2>2. \A q \in Processes : Trace!Rotating(q)' => Trace!Rotating(q)
    BY <1>2, <1>7 DEF Trace!Rotating
  <2>3. Alone'
    BY <1>1, <2>1, <2>2 DEF CapsHold, Alone
  <2>4. ASSUME NEW q \in Processes PROVE Clean(q)'
    <3>1. CASE q # p
      BY <1>1, <1>2, <2>1, <2>2, <3>1 DEF CapsHold, Alone, Clean
    <3>2. CASE q = p
      <4>1. at'[p].gen = k - 1
        BY <1>3, <1>7, StepsDiffer
      <4>2. at'[p].gen < 0 => k = 0
        BY <1>2, <4>1
      <4> QED
        BY <2>1, <3>2, <4>2 DEF Clean
    <3> QED
      BY <3>1, <3>2
  <2> QED
    BY <1>1, <1>8, <2>1, <2>3, <2>4, MovesKeepCounts DEF CapsHold
<1> QED
  BY <1>8, <1>9, MovesKeepTypes DEF TraceInv

(* A recorder stops, or its process dies; a file is held, and let go.       *)
LEMMA StopsAndHolds ==
  ASSUME TraceInv,
         \/ \E p \in Processes : Trace!Stop(p)
         \/ \E k \in Trace!Generations : Trace!Hold(k) \/ Trace!Release(k)
  PROVE  TraceInv'
<1>1. TraceTypes /\ OpenFiles /\ (~raced => CapsHold)
  BY DEF TraceInv
<1>2. CASE \E p \in Processes : Trace!Stop(p)
  <2>1. PICK p \in Processes : Trace!Stop(p)
    BY <1>2
  <2>2. /\ at' = [at EXCEPT ![p] = Trace!Down] /\ fh' = [fh EXCEPT ![p] = Trace!NoFile]
        /\ UNCHANGED <<name, content, files, size, held, written, raced>>
    BY <2>1 DEF Trace!Stop
  <2>3. /\ Trace!Down \in Steps /\ Trace!NoFile \in 0..files
        /\ Trace!Down = Trace!Open <=> Trace!NoFile # Trace!NoFile
    BY <1>1, StepsDiffer, FilesAreFew DEF Trace!NoFile
  <2>4. UNCHANGED files
    BY <2>2
  <2>5. /\ at' \in [Processes -> Steps] /\ fh' \in [Processes -> 0..files'] /\ OpenFiles'
        /\ at'[p] = Trace!Down /\ fh'[p] = Trace!NoFile
        /\ \A q \in Processes \ {p} : at'[q] = at[q] /\ fh'[q] = fh[q]
    BY <2>2, <2>3, <2>4, StepsKeepTypes
  <2>6. Moves(p)
    <3>1. /\ raced' \in BOOLEAN /\ held' \subseteq Trace!Generations
          /\ name' \in [Trace!Generations -> 0..files]
      BY <1>1, <2>2 DEF TraceTypes
    <3> QED
      BY <2>2, <2>5, <3>1 DEF Moves
  <2>7. ASSUME ~raced' PROVE CapsHold'
    <3>1. ~raced /\ CapsHold
      BY <1>1, <2>2, <2>7
    <3>2. \A q \in Processes : Trace!Rotating(q)' => Trace!Rotating(q) /\ at'[q] = at[q]
      BY <2>5, StepsDiffer DEF Trace!Rotating
    <3>3. Alone'
      BY <3>1, <3>2 DEF CapsHold, Alone
    <3>4. ASSUME NEW q \in Processes PROVE Clean(q)'
      BY <2>2, <3>1, <3>2 DEF CapsHold, Clean
    <3> QED
      BY <2>6, <3>1, <3>3, <3>4, MovesKeepCounts DEF CapsHold
  <2> QED
    BY <2>6, <2>7, MovesKeepTypes DEF TraceInv
<1>3. CASE \E k \in Trace!Generations : Trace!Hold(k) \/ Trace!Release(k)
  <2>1. /\ UNCHANGED <<name, content, files, at, fh, size, written, raced>>
        /\ held' \subseteq Trace!Generations
    BY <1>1, <1>3 DEF Trace!Hold, Trace!Release, TraceTypes
  <2>2. TraceTypes'
    BY <1>1, <2>1 DEF TraceTypes
  <2>3. OpenFiles'
    BY <1>1, <2>1 DEF OpenFiles
  <2>4. NewFiles'
    BY <2>1 DEF TraceInv, NewFiles
  <2>5. CapsHold => CapsHold'
    <3> SUFFICES ASSUME CapsHold PROVE CapsHold'
      OBVIOUS
    <3>1. Alone'
      BY <2>1 DEF CapsHold, Alone, Trace!Rotating
    <3>2. AllFair'
      BY <2>1 DEF CapsHold, AllFair
    <3>3. ASSUME NEW q \in Processes PROVE Counted(q)' /\ Clean(q)'
      BY <2>1 DEF CapsHold, Counted, Clean, Trace!Rotating
    <3> QED
      BY <3>1, <3>2, <3>3 DEF CapsHold
  <2> QED
    BY <1>1, <2>1, <2>2, <2>3, <2>4, <2>5 DEF TraceInv
<1> QED
  BY <1>2, <1>3

(* An event is written to file i, and counts for its session alone.         *)
Written(i, e) ==
  /\ e \in Trace!TraceEvent
  /\ content' = [content EXCEPT ![i] = Append(content[i], e)]

(* What that does to the counts.                                            *)
LEMMA CountsWritten ==
  ASSUME TraceTypes, NEW i \in 1..MaxFiles, NEW e, Written(i, e)
  PROVE  /\ content' \in [1..MaxFiles -> Seq(Trace!TraceEvent)]
         /\ \A j \in 1..MaxFiles : \A q :
              Count(content'[j], q) = IF j = i /\ e.session = q
                                      THEN Count(content[j], q) + 1 ELSE Count(content[j], q)
<1>1. content \in [1..MaxFiles -> Seq(Trace!TraceEvent)] /\ e \in Trace!TraceEvent
  BY DEF TraceTypes, Written
<1>2. PICK s \in Seq(Trace!TraceEvent) : s = Append(content[i], e)
  <2>1. content[i] \in Seq(Trace!TraceEvent)
    BY <1>1
  <2> QED
    BY <1>1, <2>1, AppendProperties
<1>3. content' = [content EXCEPT ![i] = s]
  BY <1>2 DEF Written
<1>4. content' \in [1..MaxFiles -> Seq(Trace!TraceEvent)]
  BY <1>1, <1>3
<1>5. ASSUME NEW j \in 1..MaxFiles, NEW q
      PROVE  Count(content'[j], q) = IF j = i /\ e.session = q
                                     THEN Count(content[j], q) + 1 ELSE Count(content[j], q)
  <2>1. CASE j = i
    <3>1. content'[j] = s
      BY <1>1, <1>3, <2>1
    <3>2. content[i] \in Seq(Trace!TraceEvent)
      BY <1>1
    <3>3. Count(s, q) = IF e.session = q THEN Count(content[i], q) + 1 ELSE Count(content[i], q)
      BY <1>1, <1>2, <3>2, CountAppended
    <3> QED
      BY <2>1, <3>1, <3>3
  <2>2. CASE j # i
    <3>1. content'[j] = content[j]
      BY <1>1, <1>3, <2>2
    <3> QED
      BY <2>2, <3>1
  <2> QED
    BY <2>1, <2>2
<1> QED
  BY <1>4, <1>5

(* An event, and the rotation that it begins when it fills the file.        *)
LEMMA EventsKeepCaps ==
  ASSUME TraceInv, NEW p \in Processes, Trace!Event(p)
  PROVE  TraceInv'
<1>1. TraceTypes /\ OpenFiles /\ NewFiles /\ (~raced => CapsHold)
  BY DEF TraceInv
<1>2. PICK n \in Nat, m \in Nat : n = files /\ m = MaxFiles /\ n <= m
  BY <1>1, FilesAreFew
<1>3. PICK i \in 1..n : i = fh[p] /\ fh[p] # Trace!NoFile
  <2>1. at[p] = Trace!Open
    BY DEF Trace!Event
  <2>2. fh[p] # Trace!NoFile /\ fh[p] \in 0..n
    BY <1>1, <1>2, <2>1 DEF OpenFiles, TraceTypes
  <2> QED
    BY <2>2 DEF Trace!NoFile
<1>4. PICK e \in Trace!TraceEvent :
        /\ e.session = p /\ content' = [content EXCEPT ![i] = Append(content[i], e)]
        /\ written' = Append(written, e)
  <2>1. PICK len \in Nat, cap \in Nat : len = Len(written) /\ cap = MaxEvents
    <3>1. written \in Seq(Trace!TraceEvent)
      BY <1>1 DEF TraceTypes
    <3>2. MaxEvents \in Nat
      BY HomeAssumption
    <3> QED
      BY <3>1, <3>2, LenProperties
  <2>2. len < cap
    BY <2>1 DEF Trace!Event
  <2>3. PICK e : e = [session |-> p, number |-> len + 1]
    OBVIOUS
  <2>4. e \in Trace!TraceEvent /\ e.session = p
    <3>1. len + 1 \in 1..MaxEvents
      BY <2>1, <2>2
    <3> QED
      BY <2>3, <3>1 DEF Trace!TraceEvent
  <2>5. written' = Append(written, e)
    BY <2>1, <2>3 DEF Trace!Event
  <2>6. content' = [content EXCEPT ![i] = Append(content[i], e)]
    BY <1>3, <2>1, <2>3 DEF Trace!Event
  <2> QED
    BY <2>4, <2>5, <2>6
<1>5. /\ content' \in [1..MaxFiles -> Seq(Trace!TraceEvent)]
      /\ \A j \in 1..MaxFiles : \A q :
           Count(content'[j], q) = IF j = i /\ e.session = q
                                   THEN Count(content[j], q) + 1 ELSE Count(content[j], q)
  <2>1. i \in 1..MaxFiles /\ Written(i, e)
    BY <1>2, <1>4 DEF Written
  <2> QED
    BY <1>1, <2>1, CountsWritten
<1>6. PICK grown \in Nat :
        /\ grown = size[p] + 1 /\ size' = [size EXCEPT ![p] = grown]
        /\ size' \in [Processes -> Nat] /\ size'[p] = grown
        /\ \A q \in Processes \ {p} : size'[q] = size[q]
  <2>1. size \in [Processes -> Nat]
    BY <1>1 DEF TraceTypes
  <2>2. PICK grown \in Nat : grown = size[p] + 1
    BY <2>1
  <2>3. size' = [size EXCEPT ![p] = grown]
    BY <2>2 DEF Trace!Event
  <2>4. /\ size' \in [Processes -> Nat] /\ size'[p] = grown
        /\ \A q \in Processes \ {p} : size'[q] = size[q]
    BY <2>1, <2>3
  <2> QED
    BY <2>2, <2>3, <2>4
<1>7. UNCHANGED <<name, files, held>> /\ MaxBytes \in Nat \ {0} /\ Keep \in Nat
  BY HomeAssumption DEF Trace!Event
<1>8. written' \in Seq(Trace!TraceEvent)
  BY <1>1, <1>4, AppendProperties DEF TraceTypes
<1>9. NewFiles'
  <2>1. ASSUME NEW j \in 1..MaxFiles, j > files' PROVE content'[j] = <<>>
    <3>1. j # i /\ content[j] = <<>>
      BY <1>1, <1>2, <1>7, <2>1 DEF NewFiles
    <3>2. content \in [1..MaxFiles -> Seq(Trace!TraceEvent)]
      BY <1>1 DEF TraceTypes
    <3> QED
      BY <1>4, <3>1, <3>2
  <2> QED
    BY <2>1 DEF NewFiles
<1>10. ASSUME CapsHold
       PROVE  AllFair' /\ Count(content'[i], p) <= grown /\ Count(content'[i], p) \in Nat
  <2>1. /\ Count(content[i], p) <= size[p] /\ Count(content[i], p) < MaxBytes
    BY <1>3, <1>10 DEF CapsHold, Counted
  <2>2. ASSUME NEW j \in 1..MaxFiles, NEW q \in Processes
        PROVE  Count(content'[j], q) <= MaxBytes
    <3>1. Count(content[j], q) \in Nat /\ Count(content[j], q) <= MaxBytes
      BY <1>1, <1>10, CountsOfFiles DEF CapsHold, AllFair, Fair
    <3>2. CASE j = i /\ q = p
      BY <1>4, <1>5, <1>7, <2>1, <3>1, <3>2
    <3>3. CASE ~(j = i /\ q = p)
      BY <1>4, <1>5, <3>1, <3>3
    <3> QED
      BY <3>2, <3>3
  <2>3. AllFair'
    BY <2>2 DEF AllFair, Fair
  <2>4. i \in 1..MaxFiles /\ Count(content[i], p) \in Nat
    BY <1>1, <1>2, CountsOfFiles
  <2>5. Count(content'[i], p) = Count(content[i], p) + 1
    BY <1>4, <1>5, <2>4
  <2>6. size[p] \in Nat
    BY <1>1 DEF TraceTypes
  <2> QED
    BY <1>6, <2>1, <2>3, <2>4, <2>5, <2>6
<1>11. ASSUME CapsHold, NEW q \in Processes, q # p, NEW j \in 1..MaxFiles
       PROVE  Count(content'[j], q) = Count(content[j], q)
  BY <1>4, <1>5, <1>11
<1>12. CASE grown >= MaxBytes
  <2>1. Trace!BeginRotation(p)
    BY <1>6, <1>12 DEF Trace!Event
  <2>2. /\ at' = [at EXCEPT ![p] = Trace!Shift(Keep)] /\ fh' = [fh EXCEPT ![p] = Trace!NoFile]
        /\ raced' = (raced \/ \E q \in Processes \ {p} : Trace!Rotating(q))
    BY <2>1 DEF Trace!BeginRotation
  <2>3. /\ Trace!Shift(Keep) \in Steps /\ Trace!NoFile \in 0..files
        /\ Trace!Shift(Keep) = Trace!Open <=> Trace!NoFile # Trace!NoFile
        /\ Trace!Shift(Keep).gen = Keep
    <3>1. Keep \in -1..Keep
      BY <1>7
    <3> QED
      BY <1>1, <3>1, StepsDiffer, FilesAreFew DEF Trace!NoFile
  <2>4. UNCHANGED files
    BY <1>7
  <2>5. /\ at' \in [Processes -> Steps] /\ fh' \in [Processes -> 0..files'] /\ OpenFiles'
        /\ at'[p] = Trace!Shift(Keep) /\ fh'[p] = Trace!NoFile
        /\ \A q \in Processes \ {p} : at'[q] = at[q] /\ fh'[q] = fh[q]
    BY <2>2, <2>3, <2>4, StepsKeepTypes
  <2>6. TraceTypes'
    <3>1. raced' \in BOOLEAN
      BY <1>1, <2>2 DEF TraceTypes
    <3>2. /\ files' \in 0..MaxFiles /\ name' \in [Trace!Generations -> 0..files']
          /\ held' \subseteq Trace!Generations
      BY <1>1, <1>7 DEF TraceTypes
    <3> QED
      BY <1>5, <1>6, <1>8, <2>5, <3>1, <3>2 DEF TraceTypes
  <2>7. ASSUME ~raced' PROVE CapsHold'
    <3>1. ~raced /\ CapsHold /\ \A q \in Processes \ {p} : ~Trace!Rotating(q)
      BY <1>1, <2>2, <2>7
    <3>2. \A q \in Processes \ {p} : ~Trace!Rotating(q)'
      BY <2>5, <3>1 DEF Trace!Rotating
    <3>3. Alone'
      BY <3>2 DEF Alone
    <3>4. ASSUME NEW q \in Processes PROVE Clean(q)'
      <4>1. at'[p].gen = Keep
        BY <2>3, <2>5
      <4> QED
        BY <1>7, <3>2, <4>1 DEF Clean
    <3>5. ASSUME NEW q \in Processes PROVE Counted(q)'
      <4>1. CASE q = p
        BY <2>5, <4>1 DEF Counted
      <4>2. CASE q # p
        <5>1. SUFFICES ASSUME fh[q] # Trace!NoFile
                       PROVE  /\ Count(content'[fh[q]], q) <= size[q]
                              /\ Count(content'[fh[q]], q) < MaxBytes
          BY <1>6, <2>5, <4>2 DEF Counted
        <5>2. fh[q] \in 1..MaxFiles
          BY <1>1, <1>2, <5>1 DEF TraceTypes, Trace!NoFile
        <5>3. Count(content'[fh[q]], q) = Count(content[fh[q]], q)
          BY <1>11, <3>1, <4>2, <5>2
        <5> QED
          BY <3>1, <5>1, <5>3 DEF CapsHold, Counted
      <4> QED
        BY <4>1, <4>2
    <3> QED
      BY <1>10, <3>1, <3>3, <3>4, <3>5 DEF CapsHold
  <2> QED
    BY <1>9, <2>5, <2>6, <2>7 DEF TraceInv
<1>13. CASE ~(grown >= MaxBytes)
  <2>1. UNCHANGED <<at, fh, raced>>
    BY <1>6, <1>13 DEF Trace!Event
  <2>2. TraceTypes'
    <3>1. /\ files' \in 0..MaxFiles /\ name' \in [Trace!Generations -> 0..files']
          /\ held' \subseteq Trace!Generations /\ raced' \in BOOLEAN
          /\ at' \in [Processes -> Steps] /\ fh' \in [Processes -> 0..files']
      BY <1>1, <1>7, <2>1 DEF TraceTypes
    <3> QED
      BY <1>5, <1>6, <1>8, <3>1 DEF TraceTypes
  <2>3. OpenFiles'
    BY <1>1, <2>1 DEF OpenFiles
  <2>4. ASSUME CapsHold PROVE CapsHold'
    <3>1. Alone'
      BY <2>1, <2>4 DEF CapsHold, Alone, Trace!Rotating
    <3>2. ASSUME NEW q \in Processes PROVE Counted(q)'
      <4>1. CASE q = p
        <5>1. Count(content'[i], p) <= grown /\ Count(content'[i], p) \in Nat
          BY <1>10, <2>4
        <5>2. fh'[p] = i /\ size'[p] = grown /\ Count(content'[i], p) < MaxBytes
          BY <1>3, <1>6, <1>7, <1>13, <2>1, <5>1
        <5> QED
          BY <4>1, <5>1, <5>2 DEF Counted
      <4>2. CASE q # p
        <5>1. SUFFICES ASSUME fh[q] # Trace!NoFile
                       PROVE  /\ Count(content'[fh[q]], q) <= size[q]
                              /\ Count(content'[fh[q]], q) < MaxBytes
          BY <1>6, <2>1, <4>2 DEF Counted
        <5>2. fh[q] \in 1..MaxFiles
          BY <1>1, <1>2, <5>1 DEF TraceTypes, Trace!NoFile
        <5>3. Count(content'[fh[q]], q) = Count(content[fh[q]], q)
          BY <1>11, <2>4, <4>2, <5>2
        <5> QED
          BY <2>4, <5>1, <5>3 DEF CapsHold, Counted
      <4> QED
        BY <4>1, <4>2
    <3>3. ASSUME NEW q \in Processes PROVE Clean(q)'
      <4>1. CASE q = p
        <5>1. ~Trace!Rotating(p)'
          BY <2>1, StepsDiffer DEF Trace!Event, Trace!Rotating
        <5> QED
          BY <4>1, <5>1 DEF Clean
      <4>2. CASE q # p
        <5>1. SUFFICES ASSUME Trace!Rotating(q), at[q].gen < 0, name[0] # Trace!NoFile
                       PROVE  Count(content'[name[0]], q) = 0
          BY <1>7, <2>1 DEF Clean, Trace!Rotating
        <5>2. name[0] \in 1..MaxFiles
          <6>1. 0 \in Trace!Generations
            BY <1>7 DEF Trace!Generations
          <6> QED
            BY <1>1, <5>1, <6>1, FileSizes
        <5>3. Count(content'[name[0]], q) = Count(content[name[0]], q)
          BY <1>11, <2>4, <4>2, <5>2
        <5> QED
          BY <2>4, <5>1, <5>3 DEF CapsHold, Clean
      <4> QED
        BY <4>1, <4>2
    <3> QED
      BY <1>10, <2>4, <3>1, <3>2, <3>3 DEF CapsHold
  <2> QED
    BY <1>1, <1>9, <2>1, <2>2, <2>3, <2>4 DEF TraceInv
<1> QED
  BY <1>12, <1>13

(* Every step of the recorders keeps the invariant, and they begin in it.   *)
LEMMA TraceStep ==
  ASSUME TraceInv, Trace!Next
  PROVE  TraceInv'
<1>1. CASE \E p \in Processes : Trace!Start(p) \/ Trace!Reopen(p)
  BY <1>1, RecordersOpen
<1>2. CASE \E p \in Processes : Trace!Event(p)
  BY <1>2, EventsKeepCaps
<1>3. CASE \E p \in Processes : Trace!RotateStep(p)
  BY <1>3, RotationsGoOn
<1>4. CASE \E p \in Processes : Trace!Stop(p)
  BY <1>4, StopsAndHolds
<1>5. CASE \E k \in Trace!Generations : Trace!Hold(k) \/ Trace!Release(k)
  BY <1>5, StopsAndHolds
<1> QED
  BY <1>1, <1>2, <1>3, <1>4, <1>5 DEF Trace!Next

(* No file, and no process that has one open.                               *)
LEMMA TraceBegins ==
  ASSUME Trace!Init PROVE TraceInv
<1>1. MaxFiles \in Nat /\ MaxBytes \in Nat
  BY HomeAssumption
<1>2. <<>> \in Seq(Trace!TraceEvent)
  OBVIOUS
<1>3. TraceTypes
  <2>1. files \in 0..MaxFiles /\ name \in [Trace!Generations -> 0..files]
    BY <1>1 DEF Trace!Init, Trace!NoFile
  <2>2. content \in [1..MaxFiles -> Seq(Trace!TraceEvent)]
    BY <1>2 DEF Trace!Init
  <2>3. at \in [Processes -> Steps]
    BY StepsDiffer DEF Trace!Init
  <2>4. fh \in [Processes -> 0..files] /\ size \in [Processes -> Nat]
    BY DEF Trace!Init, Trace!NoFile
  <2>5. held \subseteq Trace!Generations /\ written \in Seq(Trace!TraceEvent) /\ raced \in BOOLEAN
    BY <1>2 DEF Trace!Init
  <2> QED
    BY <2>1, <2>2, <2>3, <2>4, <2>5 DEF TraceTypes
<1>4. OpenFiles
  BY StepsDiffer DEF Trace!Init, OpenFiles
<1>5. NewFiles
  BY DEF Trace!Init, NewFiles
<1>6. \A p \in Processes : at[p] = Trace!Down /\ fh[p] = Trace!NoFile
  BY DEF Trace!Init
<1>7. \A p \in Processes : ~Trace!Rotating(p)
  BY <1>6, StepsDiffer DEF Trace!Rotating
<1>8. AllFair
  <2>1. ASSUME NEW i \in 1..MaxFiles, NEW p \in Processes
        PROVE  Count(content[i], p) <= MaxBytes
    <3>1. content[i] = <<>>
      BY DEF Trace!Init
    <3> QED
      BY <1>1, <1>3, <3>1, CountsOfFiles
  <2> QED
    BY <2>1 DEF AllFair, Fair
<1>9. CapsHold
  BY <1>6, <1>7, <1>8 DEF CapsHold, Alone, Counted, Clean
<1> QED
  BY <1>3, <1>4, <1>5, <1>9 DEF TraceInv

(* Where the recorders rest, nothing changes.                               *)
LEMMA TraceRestsStep ==
  ASSUME TraceInv, UNCHANGED recVars
  PROVE  TraceInv'
<1>1. /\ name' = name /\ content' = content /\ files' = files /\ at' = at /\ fh' = fh
      /\ size' = size /\ held' = held /\ written' = written /\ raced' = raced
  BY DEF recVars
<1> QED
  BY <1>1 DEF TraceInv, TraceTypes, OpenFiles, NewFiles, CapsHold, Alone, AllFair, Counted,
     Clean, Trace!Rotating

(* What the invariant says for the properties of the trace.                 *)
LEMMA TraceInvHolds ==
  ASSUME TraceInv
  PROVE  Trace!TypeOK /\ Trace!FilesAreCapped
<1>1. TraceTypes /\ OpenFiles /\ (~raced => CapsHold)
  BY DEF TraceInv
<1>2. Trace!TypeOK
  BY <1>1 DEF TraceTypes, OpenFiles, Steps, Trace!TypeOK
<1>3. ASSUME ~raced, NEW i \in 1..files
      PROVE  Len(content[i]) <= Cardinality(Processes) * MaxBytes
  <2>1. i \in 1..MaxFiles
    BY <1>1, FilesAreFew
  <2>2. content[i] \in Seq(Trace!TraceEvent) /\ Fair(content[i])
    BY <1>1, <1>3, <2>1 DEF TraceTypes, CapsHold, AllFair
  <2> QED
    BY <2>2, CountedTogether
<1>4. Trace!Cardinality(Processes) = Cardinality(Processes)
  BY DEF Trace!Cardinality, Cardinality, Trace!IsFiniteSet, IsFiniteSet
<1>5. Trace!FilesAreCapped
  BY <1>3, <1>4 DEF Trace!FilesAreCapped
<1> QED
  BY <1>2, <1>5

-----------------------------------------------------------------------------
(* Reading the trace back.  The events of one session among those of s, in  *)
(* their order; and s in the order of the numbers.                          *)
Rises(s) == \A i, j \in 1..Len(s) : i < j => s[i].number < s[j].number

IsOf(x, s, p) ==
  /\ x \in Seq(Trace!TraceEvent)
  /\ \A i \in 1..Len(x) : x[i].session = p /\ \E j \in 1..Len(s) : x[i] = s[j]
  /\ \A j \in 1..Len(s) : s[j].session = p => \E i \in 1..Len(x) : x[i] = s[j]
  /\ Rises(s) => Rises(x)

(* An event more is left out, or comes last.                                *)
LEMMA OfAppended ==
  ASSUME NEW s \in Seq(Trace!TraceEvent), NEW e \in Trace!TraceEvent, NEW p
  PROVE  /\ Trace!Of(<<>>, {p}) = <<>>
         /\ Trace!Of(s, {p}) \in Seq(Trace!TraceEvent)
         /\ Trace!Of(Append(s, e), {p}) =
              IF e.session = p THEN Append(Trace!Of(s, {p}), e)
              ELSE Trace!Of(s, {p})
<1> DEFINE E == Trace!TraceEvent
           Only(x) == IF x.session \in {p} THEN <<x>> ELSE <<>>
           Parts(q) == [i \in DOMAIN q |-> Only(q[i])]
<1>1. \A q : Trace!Of(q, {p}) = Log!FlattenSeq(Parts(q))
  BY DEF Trace!Of, Trace!FlattenSeq, Log!FlattenSeq
<1>2. ASSUME NEW x \in E PROVE Only(x) \in Seq(E)
  OBVIOUS
<1>3. ASSUME NEW q \in Seq(E) PROVE Parts(q) \in Seq(Seq(E)) /\ Len(Parts(q)) = Len(q)
  <2>1. DOMAIN q = 1..Len(q) /\ Len(q) \in Nat /\ \A i \in DOMAIN q : q[i] \in E
    BY ElementOfSeq, LenProperties
  <2>2. \A i \in DOMAIN q : Only(q[i]) \in Seq(E)
    BY <1>2, <2>1
  <2> HIDE DEF Only
  <2> QED
    BY <2>1, <2>2
<1>4. Parts(<<>>) = <<>>
  OBVIOUS
<1>5. PICK t \in Seq(E) : t = Append(s, e)
  BY AppendProperties
<1>6. PICK n \in Nat : n = Len(s)
  BY LenProperties
<1>7. Len(t) = n + 1 /\ t[n + 1] = e /\ \A i \in 1..n : t[i] = s[i]
  BY <1>5, <1>6, AppendProperties
<1>8. PICK u \in Seq(Seq(E)) : u = Parts(s)
  BY <1>3
<1>9. PICK v \in Seq(Seq(E)) : v = Parts(t)
  BY <1>3
<1>10. PICK w \in Seq(E) : w = Only(e)
  BY <1>2
<1>11. v = Append(u, w)
  <2>1. PICK a \in Seq(Seq(E)) : a = Append(u, w)
    BY AppendProperties
  <2>2. Len(u) = n /\ Len(v) = n + 1
    BY <1>3, <1>6, <1>7, <1>8, <1>9
  <2>3. Len(a) = n + 1 /\ a[n + 1] = w /\ \A i \in 1..n : a[i] = u[i]
    BY <2>1, <2>2, AppendProperties
  <2>4. DOMAIN s = 1..n /\ DOMAIN t = 1..(n + 1)
    BY <1>6, <1>7, LenProperties
  <2>5. ASSUME NEW i \in 1..(n + 1) PROVE a[i] = v[i]
    <3>1. v[i] = Only(t[i])
      BY <1>9, <2>4
    <3>2. CASE i = n + 1
      BY <1>7, <1>10, <2>3, <3>1, <3>2
    <3>3. CASE i # n + 1
      <4>1. i \in 1..n
        BY <3>3
      <4>2. u[i] = Only(s[i])
        BY <1>8, <2>4, <4>1
      <4> QED
        BY <1>7, <2>3, <3>1, <4>1, <4>2
    <3> QED
      BY <3>2, <3>3
  <2>6. a = v
    BY <2>2, <2>3, <2>5, SeqEqual
  <2> QED
    BY <2>1, <2>6
<1>12. PICK g \in Seq(E) : g = Log!FlattenSeq(u)
  BY FlattenType
<1>13. /\ Log!FlattenSeq(<<>>) = <<>>
       /\ Log!FlattenSeq(v) = IF u = <<>> THEN w ELSE g \o w
  BY <1>11, <1>12, FlattenAppend
<1>14. u = <<>> => g = <<>>
  BY <1>12, <1>13
<1>15. Trace!Of(s, {p}) = g
  BY <1>1, <1>8, <1>12
<1>16. Trace!Of(t, {p}) = Log!FlattenSeq(v)
  BY <1>1, <1>9
<1>17. Trace!Of(<<>>, {p}) = <<>>
  BY <1>1, <1>4, <1>13
<1>18. Trace!Of(t, {p}) = IF e.session = p THEN Append(g, e) ELSE g
  <2>1. CASE e.session = p
    <3>1. w = <<e>>
      BY <1>10, <2>1
    <3>2. g \o <<e>> = Append(g, e) /\ Append(<<>>, e) = <<e>>
      BY AppendIsConcat
    <3> QED
      BY <1>13, <1>14, <1>16, <2>1, <3>1, <3>2
  <2>2. CASE e.session # p
    <3>1. w = <<>>
      BY <1>10, <2>2
    <3>2. g \o <<>> = g
      BY ConcatEmptySeq
    <3> QED
      BY <1>13, <1>14, <1>16, <2>2, <3>1, <3>2
  <2> QED
    BY <2>1, <2>2
<1> QED
  BY <1>5, <1>15, <1>17, <1>18

(* What is taken of s is taken of a longer s, ...                           *)
LEMMA OfLonger ==
  ASSUME NEW s \in Seq(Trace!TraceEvent), NEW e \in Trace!TraceEvent, NEW p, NEW x,
         IsOf(x, s, p), e.session # p
  PROVE  IsOf(x, Append(s, e), p)
<1>1. PICK t \in Seq(Trace!TraceEvent) : t = Append(s, e)
  BY AppendProperties
<1>2. PICK n \in Nat : n = Len(s)
  BY LenProperties
<1>3. Len(t) = n + 1 /\ t[n + 1] = e /\ \A i \in 1..n : t[i] = s[i]
  BY <1>1, <1>2, AppendProperties
<1>4. \A i \in 1..n : i \in 1..(n + 1)
  OBVIOUS
<1>5. Rises(t) => Rises(s)
  BY <1>2, <1>3, <1>4 DEF Rises
<1>6. \A i \in 1..Len(x) : x[i].session = p /\ \E j \in 1..Len(t) : x[i] = t[j]
  BY <1>2, <1>3, <1>4 DEF IsOf
<1>7. ASSUME NEW j \in 1..Len(t), t[j].session = p PROVE \E i \in 1..Len(x) : x[i] = t[j]
  <2>1. j \in 1..n /\ t[j] = s[j]
    <3>1. j # n + 1
      BY <1>3, <1>7
    <3>2. j \in 1..n
      BY <1>3, <3>1
    <3> QED
      BY <1>3, <3>2
  <2>2. s[j].session = p
    BY <1>7, <2>1
  <2>3. \E i \in 1..Len(x) : x[i] = s[j]
    BY <1>2, <2>1, <2>2 DEF IsOf
  <2> QED
    BY <2>1, <2>3
<1> QED
  BY <1>1, <1>5, <1>6, <1>7 DEF IsOf

(* ... and with it its last event.                                          *)
LEMMA OfTaken ==
  ASSUME NEW s \in Seq(Trace!TraceEvent), NEW e \in Trace!TraceEvent, NEW p, NEW x,
         IsOf(x, s, p), e.session = p
  PROVE  IsOf(Append(x, e), Append(s, e), p)
<1>1. PICK t \in Seq(Trace!TraceEvent) : t = Append(s, e)
  BY AppendProperties
<1>2. PICK n \in Nat : n = Len(s)
  BY LenProperties
<1>3. Len(t) = n + 1 /\ t[n + 1] = e /\ \A i \in 1..n : t[i] = s[i]
  BY <1>1, <1>2, AppendProperties
<1>4. \A i \in 1..n : i \in 1..(n + 1)
  OBVIOUS
<1>5. x \in Seq(Trace!TraceEvent)
  BY DEF IsOf
<1>6. PICK y \in Seq(Trace!TraceEvent) : y = Append(x, e)
  BY <1>5, AppendProperties
<1>7. PICK m \in Nat : m = Len(x)
  BY <1>5, LenProperties
<1>8. Len(y) = m + 1 /\ y[m + 1] = e /\ \A i \in 1..m : y[i] = x[i]
  BY <1>5, <1>6, <1>7, AppendProperties
<1>9. \A i \in 1..m : i \in 1..(m + 1)
  OBVIOUS
<1>10. ASSUME NEW i \in 1..Len(y)
       PROVE  y[i].session = p /\ \E j \in 1..Len(t) : y[i] = t[j]
  <2>1. CASE i = m + 1
    <3>1. n + 1 \in 1..Len(t) /\ y[i] = t[n + 1]
      BY <1>3, <1>8, <2>1
    <3> QED
      BY <1>8, <2>1, <3>1
  <2>2. CASE i # m + 1
    <3>1. i \in 1..m
      BY <1>8, <2>2
    <3>2. x[i].session = p /\ \E j \in 1..n : x[i] = s[j]
      BY <1>2, <1>7, <3>1 DEF IsOf
    <3> QED
      BY <1>3, <1>4, <1>8, <3>1, <3>2
  <2> QED
    BY <2>1, <2>2
<1>11. ASSUME NEW j \in 1..Len(t), t[j].session = p PROVE \E i \in 1..Len(y) : y[i] = t[j]
  <2>1. CASE j = n + 1
    <3>1. m + 1 \in 1..Len(y) /\ y[m + 1] = t[j]
      BY <1>3, <1>8, <2>1
    <3> QED
      BY <3>1
  <2>2. CASE j # n + 1
    <3>1. j \in 1..n /\ s[j].session = p
      BY <1>3, <1>11, <2>2
    <3>2. PICK i \in 1..m : x[i] = s[j]
      BY <1>2, <1>7, <3>1 DEF IsOf
    <3> QED
      BY <1>3, <1>8, <1>9, <3>1, <3>2
  <2> QED
    BY <2>1, <2>2
<1>12. ASSUME Rises(t) PROVE Rises(y)
  <2>1. Rises(s)
    BY <1>2, <1>3, <1>4, <1>12 DEF Rises
  <2>2. Rises(x)
    BY <2>1 DEF IsOf
  <2>3. SUFFICES ASSUME NEW i \in 1..(m + 1), NEW j \in 1..(m + 1), i < j
                 PROVE  y[i].number < y[j].number
    BY <1>8 DEF Rises
  <2>4. i \in 1..m
    BY <2>3
  <2>5. CASE j = m + 1
    <3>1. PICK k \in 1..n : x[i] = s[k]
      BY <1>2, <1>7, <2>4 DEF IsOf
    <3>2. k \in 1..Len(t) /\ n + 1 \in 1..Len(t) /\ k < n + 1
      BY <1>3
    <3>3. t[k].number < t[n + 1].number
      BY <1>12, <3>2 DEF Rises
    <3> QED
      BY <1>3, <1>8, <2>4, <2>5, <3>1, <3>3
  <2>6. CASE j # m + 1
    <3>1. j \in 1..m
      BY <2>6
    <3> QED
      BY <1>7, <1>8, <2>2, <2>3, <2>4, <3>1 DEF Rises
  <2> QED
    BY <2>5, <2>6
<1> QED
  BY <1>1, <1>6, <1>10, <1>11, <1>12 DEF IsOf

(* The events of a session are these, in this order.                        *)
LEMMA OfProperties ==
  ASSUME NEW s \in Seq(Trace!TraceEvent), NEW p
  PROVE  IsOf(Trace!Of(s, {p}), s, p)
<1> DEFINE A == {q \in Seq(Trace!TraceEvent) : IsOf(Trace!Of(q, {p}), q, p)}
<1>1. <<>> \in A
  <2>1. Trace!Of(<<>>, {p}) = <<>>
    <3>1. PICK parts : parts = [i \in DOMAIN <<>> |-> <<>>]
      OBVIOUS
    <3> QED
      BY EmptySeq DEF Trace!Of, Trace!FlattenSeq
  <2>2. <<>> \in Seq(Trace!TraceEvent) /\ ~(\E i \in 1..Len(<<>>) : TRUE)
    BY EmptySeq
  <2>3. Rises(<<>>)
    BY <2>2 DEF Rises
  <2> QED
    BY <2>1, <2>2, <2>3 DEF IsOf
<1>2. ASSUME NEW q \in A, NEW e \in Trace!TraceEvent PROVE Append(q, e) \in A
  <2>1. q \in Seq(Trace!TraceEvent) /\ IsOf(Trace!Of(q, {p}), q, p)
    OBVIOUS
  <2>2. Append(q, e) \in Seq(Trace!TraceEvent)
    BY <2>1, AppendProperties
  <2>3. PICK x : x = Trace!Of(q, {p})
    OBVIOUS
  <2>4. IsOf(x, q, p)
    BY <2>1, <2>3
  <2>5. Trace!Of(Append(q, e), {p}) = IF e.session = p THEN Append(x, e) ELSE x
    BY <2>1, <2>3, OfAppended
  <2>6. CASE e.session = p
    <3>1. IsOf(Append(x, e), Append(q, e), p)
      BY <2>1, <2>4, <2>6, OfTaken
    <3> QED
      BY <2>2, <2>5, <2>6, <3>1
  <2>7. CASE e.session # p
    <3>1. IsOf(x, Append(q, e), p)
      BY <2>1, <2>4, <2>7, OfLonger
    <3> QED
      BY <2>2, <2>5, <2>7, <3>1
  <2> QED
    BY <2>6, <2>7
<1> HIDE DEF A
<1>3. A \in SUBSET Seq(Trace!TraceEvent)
  BY DEF A
<1>4. A = Seq(Trace!TraceEvent)
  BY <1>1, <1>2, <1>3, InductionOnSeq
<1> QED
  BY <1>4 DEF A

(* One sequence is the end of another, counted from the last element.       *)
IsEnd(x, y) ==
  Len(x) <= Len(y) /\ \A d \in Nat : d < Len(x) => x[Len(x) - d] = y[Len(y) - d]

(* The end of an end is an end.                                             *)
LEMMA EndsTransitive ==
  ASSUME NEW T, NEW x \in Seq(T), NEW y \in Seq(T), NEW z \in Seq(T),
         IsEnd(x, y), IsEnd(y, z)
  PROVE  IsEnd(x, z)
<1>1. Len(x) \in Nat /\ Len(y) \in Nat /\ Len(z) \in Nat
  BY LenProperties
<1> QED
  BY <1>1 DEF IsEnd

(* Two ends of one sequence that have one length are the same.              *)
LEMMA EndsAlike ==
  ASSUME NEW T, NEW x \in Seq(T), NEW y \in Seq(T), NEW z \in Seq(T),
         IsEnd(x, z), IsEnd(y, z), Len(x) = Len(y)
  PROVE  x = y
<1>1. PICK n \in Nat : n = Len(x) /\ n = Len(y)
  BY LenProperties
<1>2. ASSUME NEW i \in 1..n PROVE x[i] = y[i]
  <2>1. n - i \in Nat /\ n - i < n /\ n - (n - i) = i
    OBVIOUS
  <2>2. x[n - (n - i)] = y[n - (n - i)]
    BY <1>1, <2>1 DEF IsEnd
  <2> QED
    BY <2>1, <2>2
<1> QED
  BY <1>1, <1>2, SeqEqual

(* What is put before two sequences leaves one the end of the other, ...    *)
LEMMA EndsBefore ==
  ASSUME NEW T, NEW r \in Seq(T), NEW s \in Seq(T), NEW t \in Seq(T), IsEnd(r, s)
  PROVE  IsEnd(r \o t, s \o t)
<1>1. PICK a \in Nat, b \in Nat, c \in Nat : a = Len(r) /\ b = Len(s) /\ c = Len(t)
  BY LenProperties
<1>2. PICK u \in Seq(T) : u = r \o t
  BY ConcatProperties
<1>3. PICK v \in Seq(T) : v = s \o t
  BY ConcatProperties
<1>4. Len(u) = a + c /\ \A i \in 1..(a + c) : u[i] = IF i <= a THEN r[i] ELSE t[i - a]
  BY <1>1, <1>2, ConcatProperties
<1>5. Len(v) = b + c /\ \A i \in 1..(b + c) : v[i] = IF i <= b THEN s[i] ELSE t[i - b]
  BY <1>1, <1>3, ConcatProperties
<1>6. a <= b /\ \A d \in Nat : d < a => r[a - d] = s[b - d]
  BY <1>1 DEF IsEnd
<1>7. ASSUME NEW d \in Nat, d < a + c PROVE u[(a + c) - d] = v[(b + c) - d]
  <2>1. (a + c) - d \in 1..(a + c) /\ (b + c) - d \in 1..(b + c)
    BY <1>6, <1>7
  <2>2. CASE d < c
    <3>1. ~((a + c) - d <= a) /\ ~((b + c) - d <= b)
          /\ ((a + c) - d) - a = ((b + c) - d) - b
      BY <2>2
    <3> QED
      BY <1>4, <1>5, <2>1, <3>1
  <2>3. CASE ~(d < c)
    <3>1. PICK g \in Nat : g = d - c /\ g < a
      BY <1>7, <2>3
    <3>2. (a + c) - d = a - g /\ (b + c) - d = b - g /\ a - g <= a /\ b - g <= b
      BY <3>1
    <3>3. r[a - g] = s[b - g]
      BY <1>6, <3>1
    <3> QED
      BY <1>4, <1>5, <2>1, <3>2, <3>3
  <2> QED
    BY <2>2, <2>3
<1> QED
  BY <1>2, <1>3, <1>4, <1>5, <1>6, <1>7 DEF IsEnd

(* ... and what is put before one leaves it an end.                         *)
LEMMA EndsConcat ==
  ASSUME NEW T, NEW s \in Seq(T), NEW t \in Seq(T)
  PROVE  IsEnd(t, s \o t) /\ IsEnd(t, t)
<1>1. PICK b \in Nat, c \in Nat : b = Len(s) /\ c = Len(t)
  BY LenProperties
<1>2. PICK v \in Seq(T) : v = s \o t
  BY ConcatProperties
<1>3. Len(v) = b + c /\ \A i \in 1..(b + c) : v[i] = IF i <= b THEN s[i] ELSE t[i - b]
  BY <1>1, <1>2, ConcatProperties
<1>4. ASSUME NEW d \in Nat, d < c PROVE t[c - d] = v[(b + c) - d]
  <2>1. (b + c) - d \in 1..(b + c) /\ ~((b + c) - d <= b) /\ ((b + c) - d) - b = c - d
    BY <1>4
  <2> QED
    BY <1>3, <2>1
<1> QED
  BY <1>1, <1>2, <1>3, <1>4 DEF IsEnd

(* Newest: the end of a sequence, of so many elements if it has so many.    *)
LEMMA NewestProperties ==
  ASSUME NEW T, NEW s \in Seq(T), NEW n \in Nat
  PROVE  /\ Trace!Newest(s, n) \in Seq(T) /\ IsEnd(Trace!Newest(s, n), s)
         /\ Len(Trace!Newest(s, n)) = IF Len(s) > n THEN n ELSE Len(s)
<1>1. PICK b \in Nat : b = Len(s)
  BY LenProperties
<1>2. PICK f \in Nat : f = (IF b > n THEN b - n + 1 ELSE 1) /\ f >= 1 /\ f <= b + 1
  <2>1. CASE b > n
    <3>1. b - n + 1 \in Nat /\ b - n + 1 >= 1 /\ b - n + 1 <= b + 1
      BY <2>1
    <3> QED
      BY <2>1, <3>1
  <2>2. CASE ~(b > n)
    BY <2>2
  <2> QED
    BY <2>1, <2>2
<1>3. PICK r : r = SubSeq(s, f, b)
  OBVIOUS
<1>4. Trace!Newest(s, n) = r
  BY <1>1, <1>2, <1>3 DEF Trace!Newest
<1>5. \A i \in f..b : s[i] \in T
  BY <1>1, <1>2, ElementOfSeq
<1>6. /\ r \in Seq(T) /\ Len(r) = (IF f <= b THEN b - f + 1 ELSE 0)
      /\ \A i \in 1..(b - f + 1) : r[i] = s[f + i - 1]
  BY <1>3, <1>5, SubSeqProperties
<1>7. PICK a \in Nat : a = b - f + 1 /\ a <= b /\ a = IF b > n THEN n ELSE b
  BY <1>2
<1>8. Len(r) = a
  BY <1>2, <1>6, <1>7
<1>9. ASSUME NEW d \in Nat, d < a PROVE r[a - d] = s[b - d]
  <2>1. a - d \in 1..(b - f + 1) /\ f + (a - d) - 1 = b - d
    BY <1>7, <1>9
  <2> QED
    BY <1>6, <2>1
<1>10. IsEnd(r, s)
  BY <1>1, <1>7, <1>8, <1>9 DEF IsEnd
<1> QED
  BY <1>1, <1>4, <1>6, <1>7, <1>8, <1>10

(* The newest of the newest.                                                *)
LEMMA NewestOfNewest ==
  ASSUME NEW T, NEW s \in Seq(T), NEW m \in Nat, NEW n \in Nat, n <= m
  PROVE  Trace!Newest(Trace!Newest(s, m), n) = Trace!Newest(s, n)
<1>1. PICK b \in Nat : b = Len(s)
  BY LenProperties
<1>2. PICK x \in Seq(T) : x = Trace!Newest(s, m)
  BY NewestProperties
<1>3. IsEnd(x, s) /\ Len(x) = IF b > m THEN m ELSE b
  BY <1>1, <1>2, NewestProperties
<1>4. PICK y \in Seq(T) : y = Trace!Newest(x, n)
  BY NewestProperties
<1>5. IsEnd(y, x) /\ Len(y) = IF Len(x) > n THEN n ELSE Len(x)
  BY <1>4, NewestProperties
<1>6. PICK z \in Seq(T) : z = Trace!Newest(s, n)
  BY NewestProperties
<1>7. IsEnd(z, s) /\ Len(z) = IF b > n THEN n ELSE b
  BY <1>1, <1>6, NewestProperties
<1>8. IsEnd(y, s)
  BY <1>3, <1>5, EndsTransitive
<1>9. Len(y) = Len(z)
  BY <1>3, <1>5, <1>7
<1> QED
  BY <1>2, <1>4, <1>6, <1>7, <1>8, <1>9, EndsAlike

(* The newest of two sequences: those of the second, and of the first what  *)
(* these leave of the number.                                               *)
LEMMA NewestOfConcat ==
  ASSUME NEW T, NEW s \in Seq(T), NEW t \in Seq(T), NEW n \in Nat, NEW r,
         r = Trace!Newest(t, n)
  PROVE  Trace!Newest(s, n - Len(r)) \o r = Trace!Newest(s \o t, n)
<1>1. PICK b \in Nat, c \in Nat : b = Len(s) /\ c = Len(t)
  BY LenProperties
<1>2. r \in Seq(T) /\ IsEnd(r, t) /\ Len(r) = IF c > n THEN n ELSE c
  BY <1>1, NewestProperties
<1>3. PICK k \in Nat : k = n - Len(r)
  <2>1. PICK a \in Nat : a = Len(r) /\ a <= n
    BY <1>1, <1>2
  <2>2. n - a \in Nat
    BY <2>1
  <2> QED
    BY <2>1, <2>2
<1>4. PICK x \in Seq(T) : x = Trace!Newest(s, k)
  BY NewestProperties
<1>5. IsEnd(x, s) /\ Len(x) = IF b > k THEN k ELSE b
  BY <1>1, <1>4, NewestProperties
<1>6. PICK v \in Seq(T) : v = s \o t
  BY ConcatProperties
<1>7. Len(v) = b + c
  BY <1>1, <1>6, ConcatProperties
<1>8. PICK z \in Seq(T) : z = Trace!Newest(v, n)
  BY NewestProperties
<1>9. IsEnd(z, v) /\ Len(z) = IF b + c > n THEN n ELSE b + c
  BY <1>7, <1>8, NewestProperties
<1>10. PICK u \in Seq(T) : u = x \o r
  BY <1>2, ConcatProperties
<1>11. Len(u) = Len(x) + Len(r)
  BY <1>2, <1>10, ConcatProperties
<1>12. Len(u) = Len(z)
  BY <1>2, <1>3, <1>5, <1>9, <1>11
<1>13. IsEnd(u, v)
  <2>1. CASE c > n
    <3>1. k = 0 /\ Len(x) = 0
      BY <1>2, <1>3, <1>5, <2>1
    <3>2. x = <<>>
      BY <3>1, EmptySeq
    <3>3. u = r
      BY <1>2, <1>10, <3>2, ConcatEmptySeq
    <3>4. IsEnd(t, v)
      BY <1>6, EndsConcat
    <3> QED
      BY <1>2, <3>3, <3>4, EndsTransitive
  <2>2. CASE ~(c > n)
    <3>1. IsEnd(t, t)
      BY EndsConcat
    <3>2. r = t
      BY <1>1, <1>2, <2>2, <3>1, EndsAlike
    <3> QED
      BY <1>5, <1>6, <1>10, <3>2, EndsBefore
  <2> QED
    BY <2>1, <2>2
<1> QED
  BY <1>3, <1>4, <1>6, <1>8, <1>9, <1>10, <1>12, <1>13, EndsAlike

(* An end is a suffix.                                                      *)
LEMMA EndsIsSuffix ==
  ASSUME NEW T, NEW x \in Seq(T), NEW y \in Seq(T), IsEnd(x, y)
  PROVE  Trace!IsSuffix(x, y)
<1>1. PICK a \in Nat, b \in Nat : a = Len(x) /\ b = Len(y) /\ a <= b
  BY LenProperties DEF IsEnd
<1>2. PICK u : u = [i \in 1..a |-> x[(a - i) + 1]]
  OBVIOUS
<1>3. PICK v : v = [i \in 1..b |-> y[(b - i) + 1]]
  OBVIOUS
<1>4. ASSUME NEW i \in 1..a PROVE x[(a - i) + 1] \in T
  <2>1. (a - i) + 1 \in 1..a
    OBVIOUS
  <2> QED
    BY <1>1, <2>1, ElementOfSeq
<1>5. ASSUME NEW i \in 1..b PROVE y[(b - i) + 1] \in T
  <2>1. (b - i) + 1 \in 1..b
    OBVIOUS
  <2> QED
    BY <1>1, <2>1, ElementOfSeq
<1>6. u \in Seq(T) /\ Len(u) = a
  BY <1>2, <1>4
<1>7. v \in Seq(T) /\ Len(v) = b
  BY <1>3, <1>5
<1>8. PICK s : s = SubSeq(u, 1, a)
  OBVIOUS
<1>9. PICK t : t = SubSeq(v, 1, a)
  OBVIOUS
<1>10. s \in Seq(T) /\ Len(s) = a /\ \A i \in 1..a : s[i] = u[i]
  <2>1. \A i \in 1..a : u[i] \in T
    BY <1>6, ElementOfSeq
  <2> QED
    BY <1>8, <2>1, SubSeqProperties
<1>11. t \in Seq(T) /\ Len(t) = a /\ \A i \in 1..a : t[i] = v[i]
  <2>1. \A i \in 1..a : v[i] \in T
    BY <1>1, <1>7, ElementOfSeq
  <2> QED
    BY <1>9, <2>1, SubSeqProperties
<1>12. ASSUME NEW i \in 1..a PROVE s[i] = t[i]
  <2>1. PICK d \in Nat : d = i - 1 /\ d < a
    OBVIOUS
  <2>2. (a - i) + 1 = a - d /\ (b - i) + 1 = b - d /\ i \in 1..b
    BY <1>1, <2>1
  <2>3. x[a - d] = y[b - d]
    BY <1>1, <2>1 DEF IsEnd
  <2> QED
    BY <1>2, <1>3, <1>10, <1>11, <2>2, <2>3
<1>13. s = t
  BY <1>10, <1>11, <1>12, SeqEqual
<1>14. Trace!Reverse(x) = u /\ Trace!Reverse(y) = v
  BY <1>1, <1>2, <1>3 DEF Trace!Reverse
<1> QED
  BY <1>1, <1>6, <1>7, <1>8, <1>9, <1>13, <1>14 DEF Trace!IsSuffix, Trace!IsPrefix

(* The events of x, all among those of y, are the end of y if y has no      *)
(* later event that x has not: both rise.                                   *)
LEMMA LatestAreTheEnd ==
  ASSUME NEW x \in Seq(Trace!TraceEvent), NEW y \in Seq(Trace!TraceEvent),
         Rises(x), Rises(y),
         \A i \in 1..Len(x) : \E j \in 1..Len(y) : x[i] = y[j],
         \A i \in 1..Len(x), j \in 1..Len(y) :
           y[j].number > x[i].number => \E l \in 1..Len(x) : x[l] = y[j]
  PROVE  IsEnd(x, y)
<1>1. PICK n \in Nat, m \in Nat : n = Len(x) /\ m = Len(y)
  BY LenProperties
<1>2. ASSUME NEW i \in 1..n PROVE x[i].number \in Int
  <2>1. x[i] \in Trace!TraceEvent
    BY <1>1, ElementOfSeq
  <2> QED
    BY <2>1 DEF Trace!TraceEvent
<1>3. ASSUME NEW j \in 1..m PROVE y[j].number \in Int
  <2>1. y[j] \in Trace!TraceEvent
    BY <1>1, ElementOfSeq
  <2> QED
    BY <2>1 DEF Trace!TraceEvent
<1>4. \A i, j \in 1..n : i < j => x[i].number < x[j].number
  BY <1>1 DEF Rises
<1>5. \A i, j \in 1..m : i < j => y[i].number < y[j].number
  BY <1>1 DEF Rises
<1> DEFINE S == {d \in Nat : d < n => d < m /\ x[n - d] = y[m - d]}
(* The last of x that is not placed yet is the last of y that is not.       *)
<1>6. ASSUME NEW d \in Nat, d < n, d = 0 \/ (d - 1 < m /\ x[n - (d - 1)] = y[m - (d - 1)])
      PROVE  d < m /\ x[n - d] = y[m - d]
  <2>1. PICK a \in 1..n : a = n - d
    BY <1>6
  <2>2. PICK j \in 1..m : x[a] = y[j]
    BY <1>1
  <2>3. ASSUME d # 0
        PROVE  /\ a + 1 \in 1..n /\ (m - d) + 1 \in 1..m /\ x[a + 1] = y[(m - d) + 1]
               /\ j <= m - d
    <3>1. a + 1 \in 1..n /\ n - (d - 1) = a + 1 /\ m - (d - 1) = (m - d) + 1
      BY <1>6, <2>1, <2>3
    <3>2. (m - d) + 1 \in 1..m /\ x[a + 1] = y[(m - d) + 1]
      BY <1>6, <2>3, <3>1
    <3>3. x[a].number < x[a + 1].number
      BY <1>4, <3>1
    <3>4. y[j].number < y[(m - d) + 1].number
      BY <2>2, <3>2, <3>3
    <3>5. j < (m - d) + 1
      <4>1. SUFFICES ASSUME ~(j < (m - d) + 1) PROVE FALSE
        OBVIOUS
      <4>2. CASE j = (m - d) + 1
        BY <1>3, <3>2, <3>4, <4>2
      <4>3. CASE j > (m - d) + 1
        <5>1. y[(m - d) + 1].number < y[j].number
          BY <1>5, <3>2, <4>3
        <5> QED
          BY <1>3, <3>2, <3>4, <5>1
      <4> QED
        BY <4>1, <4>2, <4>3
    <3> QED
      BY <3>1, <3>2, <3>5
  <2>4. j <= m - d
    <3>1. CASE d = 0
      BY <3>1
    <3> QED
      BY <2>3, <3>1
  <2>5. PICK b \in 1..m : b = m - d
    BY <2>4
  <2>6. SUFFICES ASSUME j # b PROVE FALSE
    BY <2>1, <2>2, <2>4, <2>5
  <2>7. j < b
    BY <2>4, <2>5, <2>6
  <2>8. y[j].number < y[b].number
    BY <1>5, <2>7
  <2>9. y[b].number > x[a].number
    BY <1>3, <2>2, <2>8
  <2>10. PICK l \in 1..n : x[l] = y[b]
    BY <1>1, <2>9
  <2>11. x[a].number < x[l].number
    BY <2>2, <2>8, <2>10
  <2>12. a < l
    <3>1. SUFFICES ASSUME ~(a < l) PROVE FALSE
      OBVIOUS
    <3>2. CASE a = l
      BY <1>2, <2>11, <3>2
    <3>3. CASE l < a
      <4>1. x[l].number < x[a].number
        BY <1>4, <3>3
      <4> QED
        BY <1>2, <2>11, <4>1
    <3> QED
      BY <3>1, <3>2, <3>3
  <2>13. d # 0
    BY <2>1, <2>12
  <2>14. y[b].number < y[b + 1].number /\ x[a + 1] = y[b + 1] /\ a + 1 \in 1..n
    <3>1. b + 1 \in 1..m /\ x[a + 1] = y[b + 1] /\ a + 1 \in 1..n
      BY <2>3, <2>5, <2>13
    <3> QED
      BY <1>5, <3>1
  <2>15. x[l].number < x[a + 1].number
    BY <2>10, <2>14
  <2>16. CASE l = a + 1
    BY <1>2, <2>15, <2>16
  <2>17. CASE l > a + 1
    <3>1. x[a + 1].number < x[l].number
      BY <1>4, <2>14, <2>17
    <3> QED
      BY <1>2, <2>14, <2>15, <3>1
  <2> QED
    BY <2>12, <2>16, <2>17
<1>7. 0 \in S
  BY <1>6
<1>8. ASSUME NEW d \in S PROVE d + 1 \in S
  <2>1. SUFFICES ASSUME d + 1 < n PROVE d + 1 < m /\ x[n - (d + 1)] = y[m - (d + 1)]
    OBVIOUS
  <2>2. d \in Nat /\ d < n
    BY <2>1
  <2>3. PICK c \in Nat : c = d + 1 /\ c < n /\ c - 1 = d
    BY <2>1, <2>2
  <2>4. d < m /\ x[n - d] = y[m - d]
    BY <2>2
  <2> HIDE DEF S
  <2>5. c < m /\ x[n - c] = y[m - c]
    BY <1>6, <2>3, <2>4
  <2> QED
    BY <2>3, <2>5
<1>9. S \in SUBSET Nat
  OBVIOUS
<1> HIDE DEF S
<1>10. S = Nat
  BY <1>7, <1>8, <1>9, InductionOnNat
<1>11. \A d \in Nat : d < n => d < m /\ x[n - d] = y[m - d]
  BY <1>10 DEF S
<1>12. n <= m
  <2>1. CASE n = 0
    BY <2>1
  <2>2. CASE n # 0
    <3>1. n - 1 \in Nat /\ n - 1 < n
      BY <2>2
    <3> QED
      BY <1>11, <3>1
  <2> QED
    BY <2>1, <2>2
<1> QED
  BY <1>1, <1>11, <1>12 DEF IsEnd

-----------------------------------------------------------------------------
(* The events in their files: each file in order, and of two files the      *)
(* older has the earlier events of every session; every event is in one of  *)
(* the files, and what is in a file was written; and a session has no event *)
(* in a file newer than the one it has open.                                *)
In(e, s) == \E j \in 1..Len(s) : s[j] = e

FilesRise == \A i \in 1..MaxFiles : Rises(content[i])
SessionsRise ==
  \A i, k \in 1..MaxFiles : i < k =>
    \A a \in 1..Len(content[i]), b \in 1..Len(content[k]) :
      content[i][a].session = content[k][b].session =>
        content[i][a].number < content[k][b].number
FilesWritten ==
  \A i \in 1..MaxFiles : \A a \in 1..Len(content[i]) :
    content[i][a].number <= Len(written) /\ written[content[i][a].number] = content[i][a]
AllKept ==
  \A n \in 1..Len(written) :
    written[n].number = n /\ \E i \in 1..files : In(written[n], content[i])
OpenIsLatest ==
  \A p \in Processes : fh[p] # Trace!NoFile =>
    \A i \in 1..MaxFiles : i > fh[p] =>
      \A a \in 1..Len(content[i]) : content[i][a].session # p

(* The names: the live file is the newest, and older generations are older  *)
(* files.                                                                   *)
LiveIsLast == name[0] \in {Trace!NoFile, files}
NamesDescend ==
  \A k, l \in Trace!Generations :
    k < l /\ name[k] # Trace!NoFile /\ name[l] # Trace!NoFile => name[k] > name[l]

(* As long as no two rotations overlapped and none found a file held, no    *)
(* file newer than one that has a name is without one, and nothing has the  *)
(* name that a rotation gives next.                                         *)
NoneBetween ==
  \A k \in Trace!Generations, i \in 1..files :
    name[k] # Trace!NoFile /\ i > name[k] => \E l \in Trace!Generations : name[l] = i
NextIsFree ==
  \A p \in Processes : Trace!Rotating(p) /\ at[p].gen >= 0 /\ at[p].gen < Keep =>
    name[at[p].gen + 1] = Trace!NoFile

EventsInv == FilesRise /\ SessionsRise /\ FilesWritten /\ AllKept /\ OpenIsLatest
NamesInv == LiveIsLast /\ NamesDescend /\ (~raced => NoneBetween /\ NextIsFree)

(* All that the generations up to k have of session p, oldest first.        *)
Whole(x, k, p) ==
  /\ x \in Seq(Trace!TraceEvent) /\ Rises(x)
  /\ \A i \in 1..Len(x) : x[i].session = p /\ \E g \in 0..k :
       name[g] # Trace!NoFile /\ In(x[i], content[name[g]])
  /\ \A g \in 0..k : name[g] # Trace!NoFile =>
       \A j \in 1..Len(content[name[g]]) :
         content[name[g]][j].session = p => In(content[name[g]][j], x)

(* What two sequences have one after the other.                             *)
LEMMA InConcat ==
  ASSUME NEW T, NEW s \in Seq(T), NEW t \in Seq(T)
  PROVE  /\ s \o t \in Seq(T)
         /\ \A e : In(e, s \o t) <=> In(e, s) \/ In(e, t)
<1>1. PICK a \in Nat, b \in Nat : a = Len(s) /\ b = Len(t)
  BY LenProperties
<1>2. PICK v \in Seq(T) : v = s \o t
  BY ConcatProperties
<1>3. Len(v) = a + b /\ \A i \in 1..(a + b) : v[i] = IF i <= a THEN s[i] ELSE t[i - a]
  BY <1>1, <1>2, ConcatProperties
<1>4. ASSUME NEW e, NEW j \in 1..(a + b), v[j] = e PROVE In(e, s) \/ In(e, t)
  <2>1. CASE j <= a
    <3>1. j \in 1..a /\ s[j] = e
      BY <1>3, <1>4, <2>1
    <3> QED
      BY <1>1, <3>1 DEF In
  <2>2. CASE ~(j <= a)
    <3>1. j - a \in 1..b /\ t[j - a] = e
      BY <1>3, <1>4, <2>2
    <3> QED
      BY <1>1, <3>1 DEF In
  <2> QED
    BY <2>1, <2>2
<1>5. ASSUME NEW e, NEW j \in 1..a, s[j] = e PROVE In(e, v)
  <2>1. j \in 1..(a + b) /\ v[j] = e
    <3>1. j \in 1..(a + b) /\ j <= a
      OBVIOUS
    <3> QED
      BY <1>3, <1>5, <3>1
  <2> QED
    BY <1>3, <2>1 DEF In
<1>6. ASSUME NEW e, NEW j \in 1..b, t[j] = e PROVE In(e, v)
  <2>1. j + a \in 1..(a + b) /\ ~(j + a <= a) /\ (j + a) - a = j
    OBVIOUS
  <2>2. v[j + a] = e
    BY <1>3, <1>6, <2>1
  <2> QED
    BY <1>3, <2>1, <2>2 DEF In
<1>7. \A e : In(e, v) => In(e, s) \/ In(e, t)
  BY <1>3, <1>4 DEF In
<1>8. \A e : In(e, s) => In(e, v)
  BY <1>1, <1>5 DEF In
<1>9. \A e : In(e, t) => In(e, v)
  BY <1>1, <1>6 DEF In
<1> QED
  BY <1>2, <1>7, <1>8, <1>9

(* Two sequences that rise, one after the other.                            *)
LEMMA ConcatRises ==
  ASSUME NEW s \in Seq(Trace!TraceEvent), NEW t \in Seq(Trace!TraceEvent),
         Rises(s), Rises(t),
         \A i \in 1..Len(s), j \in 1..Len(t) : s[i].number < t[j].number
  PROVE  Rises(s \o t)
<1>1. PICK a \in Nat, b \in Nat : a = Len(s) /\ b = Len(t)
  BY LenProperties
<1>2. PICK v \in Seq(Trace!TraceEvent) : v = s \o t
  BY ConcatProperties
<1>3. Len(v) = a + b /\ \A i \in 1..(a + b) : v[i] = IF i <= a THEN s[i] ELSE t[i - a]
  BY <1>1, <1>2, ConcatProperties
<1>4. ASSUME NEW i \in 1..(a + b), NEW j \in 1..(a + b), i < j
      PROVE  v[i].number < v[j].number
  <2>1. CASE j <= a
    <3>1. i \in 1..a /\ j \in 1..a /\ v[i] = s[i] /\ v[j] = s[j]
      BY <1>3, <1>4, <2>1
    <3> QED
      BY <1>1, <1>4, <3>1 DEF Rises
  <2>2. CASE ~(j <= a) /\ i <= a
    <3>1. i \in 1..a /\ j - a \in 1..b /\ v[i] = s[i] /\ v[j] = t[j - a]
      BY <1>3, <2>2
    <3> QED
      BY <1>1, <3>1
  <2>3. CASE ~(i <= a)
    <3>1. PICK c \in 1..b, d \in 1..b : c = i - a /\ d = j - a /\ c < d
      <4>1. i - a \in 1..b /\ j - a \in 1..b /\ i - a < j - a
        BY <1>4, <2>3
      <4> QED
        BY <4>1
    <3>2. v[i] = t[c] /\ v[j] = t[d]
      BY <1>3, <1>4, <2>3, <3>1
    <3> QED
      BY <1>1, <3>1, <3>2 DEF Rises
  <2> QED
    BY <2>1, <2>2, <2>3
<1> QED
  BY <1>2, <1>3, <1>4 DEF Rises

(* What a generation has of a session.                                      *)
LEMMA MatchingProperties ==
  ASSUME TraceTypes, FilesRise, NEW k \in Trace!Generations, NEW p
  PROVE  /\ Trace!Matching(k, {p}) \in Seq(Trace!TraceEvent)
         /\ Rises(Trace!Matching(k, {p}))
         /\ \A e : In(e, Trace!Matching(k, {p})) <=>
              name[k] # Trace!NoFile /\ In(e, content[name[k]]) /\ e.session = p
<1>1. CASE name[k] = Trace!NoFile
  <2>1. Trace!Matching(k, {p}) = <<>>
    BY <1>1 DEF Trace!Matching
  <2>2. <<>> \in Seq(Trace!TraceEvent) /\ \A i \in 1..Len(<<>>) : FALSE
    BY EmptySeq
  <2> QED
    BY <1>1, <2>1, <2>2 DEF Rises, In
<1>2. CASE name[k] # Trace!NoFile
  <2>1. name[k] \in 1..MaxFiles
    <3>1. PICK n \in Nat, m \in Nat : n = files /\ m = MaxFiles /\ n <= m
      BY FilesAreFew
    <3>2. name[k] \in 0..n
      BY <3>1 DEF TraceTypes
    <3> QED
      BY <1>2, <3>1, <3>2 DEF Trace!NoFile
  <2>2. PICK s \in Seq(Trace!TraceEvent) : s = content[name[k]]
    BY <2>1 DEF TraceTypes
  <2>3. Rises(s)
    BY <2>1, <2>2 DEF FilesRise
  <2>4. PICK x : x = Trace!Of(s, {p})
    OBVIOUS
  <2>5. IsOf(x, s, p)
    BY <2>4, OfProperties
  <2>6. Trace!Matching(k, {p}) = x
    BY <1>2, <2>2, <2>4 DEF Trace!Matching
  <2>7. \A e : In(e, x) <=> In(e, s) /\ e.session = p
    BY <2>5 DEF IsOf, In
  <2>8. x \in Seq(Trace!TraceEvent) /\ Rises(x)
    BY <2>3, <2>5 DEF IsOf
  <2> QED
    BY <1>2, <2>2, <2>6, <2>7, <2>8
<1> QED
  BY <1>1, <1>2

(* One generation more.                                                     *)
LEMMA WholeGrows ==
  ASSUME TraceTypes, FilesRise, SessionsRise, NamesDescend, NEW p,
         NEW k \in -1..Keep, NEW l \in 0..Keep, l = k + 1, NEW x, Whole(x, k, p)
  PROVE  Whole(Trace!Matching(l, {p}) \o x, l, p)
<1>1. PICK keep \in Nat : keep = Keep
  BY HomeAssumption
<1>2. l \in Trace!Generations
  BY DEF Trace!Generations
<1>3. PICK s \in Seq(Trace!TraceEvent) : s = Trace!Matching(l, {p})
  BY <1>2, MatchingProperties
<1>4. /\ Rises(s)
      /\ \A e : In(e, s) <=> name[l] # Trace!NoFile /\ In(e, content[name[l]])
                             /\ e.session = p
  BY <1>2, <1>3, MatchingProperties
<1>5. x \in Seq(Trace!TraceEvent) /\ Rises(x)
  BY DEF Whole
<1>6. \A g \in Int : g \in 0..l <=> g \in 0..k \/ g = l
  BY <1>1
<1>7. ASSUME NEW g \in Trace!Generations, name[g] # Trace!NoFile
      PROVE  name[g] \in 1..MaxFiles
  <2>1. PICK n \in Nat, m \in Nat : n = files /\ m = MaxFiles /\ n <= m
    BY FilesAreFew
  <2>2. name[g] \in 0..n
    BY <2>1 DEF TraceTypes
  <2> QED
    BY <1>7, <2>1, <2>2 DEF Trace!NoFile
<1>8. ASSUME NEW i \in 1..Len(s), NEW j \in 1..Len(x) PROVE s[i].number < x[j].number
  <2>1. In(s[i], s)
    BY DEF In
  <2>2. name[l] # Trace!NoFile /\ In(s[i], content[name[l]]) /\ s[i].session = p
    BY <1>4, <2>1
  <2>3. x[j].session = p
    BY DEF Whole
  <2>4. PICK g \in 0..k : name[g] # Trace!NoFile /\ In(x[j], content[name[g]])
    BY DEF Whole
  <2>5. g \in Trace!Generations /\ g < l
    BY <1>1 DEF Trace!Generations
  <2>6. PICK older \in 1..MaxFiles, newer \in 1..MaxFiles :
          older = name[l] /\ newer = name[g]
    BY <1>2, <1>7, <2>2, <2>4, <2>5
  <2>7. older < newer
    <3>1. name[g] > name[l]
      BY <1>2, <2>2, <2>4, <2>5 DEF NamesDescend
    <3> QED
      BY <2>6, <3>1
  <2>8. PICK a \in 1..Len(content[older]) : content[older][a] = s[i]
    BY <2>2, <2>6 DEF In
  <2>9. PICK b \in 1..Len(content[newer]) : content[newer][b] = x[j]
    BY <2>4, <2>6 DEF In
  <2>10. content[older][a].session = content[newer][b].session
    BY <2>2, <2>3, <2>8, <2>9
  <2>11. content[older][a].number < content[newer][b].number
    BY <2>7, <2>10 DEF SessionsRise
  <2> QED
    BY <2>8, <2>9, <2>11
<1>9. PICK v \in Seq(Trace!TraceEvent) : v = s \o x
  BY <1>5, InConcat
<1>10. Rises(v)
  BY <1>4, <1>5, <1>8, <1>9, ConcatRises
<1>11. \A e : In(e, v) <=> In(e, s) \/ In(e, x)
  BY <1>5, <1>9, InConcat
<1>12. ASSUME NEW i \in 1..Len(v)
       PROVE  v[i].session = p /\ \E g \in 0..l :
                name[g] # Trace!NoFile /\ In(v[i], content[name[g]])
  <2>1. In(v[i], v)
    BY DEF In
  <2>2. CASE In(v[i], s)
    <3>1. l \in 0..l
      BY <1>1
    <3> QED
      BY <1>4, <2>2, <3>1
  <2>3. CASE In(v[i], x)
    <3>1. PICK j \in 1..Len(x) : x[j] = v[i]
      BY <2>3 DEF In
    <3>2. PICK g \in 0..k : name[g] # Trace!NoFile /\ In(x[j], content[name[g]])
      BY DEF Whole
    <3>3. g \in 0..l
      BY <1>6
    <3>4. x[j].session = p
      BY DEF Whole
    <3> QED
      BY <3>1, <3>2, <3>3, <3>4
  <2> QED
    BY <1>11, <2>1, <2>2, <2>3
<1>13. ASSUME NEW g \in 0..l, name[g] # Trace!NoFile,
              NEW j \in 1..Len(content[name[g]]), content[name[g]][j].session = p
       PROVE  In(content[name[g]][j], v)
  <2>1. CASE g = l
    <3>1. In(content[name[l]][j], content[name[l]])
      BY <2>1 DEF In
    <3> QED
      BY <1>4, <1>11, <1>13, <2>1, <3>1
  <2>2. CASE g # l
    <3>1. g \in 0..k
      BY <1>6, <2>2
    <3> QED
      BY <1>11, <1>13, <3>1 DEF Whole
  <2> QED
    BY <2>1, <2>2
<1> QED
  BY <1>3, <1>9, <1>10, <1>12, <1>13 DEF Whole

(* read_events: the generations one after the other, for what is left of    *)
(* the limit.                                                               *)
Reading(w, top, p, limit) ==
  w = [k \in -1..top |->
         IF k = -1 THEN <<>>
         ELSE LET newer == w[k - 1]
              IN Trace!Newest(Trace!Matching(k, {p}), limit - Len(newer)) \o newer]

(* There is such a function.                                                *)
LEMMA ReadingExists ==
  ASSUME NEW n \in Nat, NEW p, NEW limit
  PROVE  \E w : Reading(w, n - 1, p, limit)
<1> DEFINE more(k, newer) ==
             Trace!Newest(Trace!Matching(k, {p}), limit - Len(newer)) \o newer
           S == {m \in Nat : \E w : Reading(w, m - 1, p, limit)}
<1>1. 0 \in S
  <2>1. PICK w : w = [k \in -1..-1 |-> <<>>]
    OBVIOUS
  <2>2. Reading(w, -1, p, limit)
    BY <2>1 DEF Reading
  <2>3. PICK m \in Nat : m = 0 /\ m - 1 = -1
    OBVIOUS
  <2>4. Reading(w, m - 1, p, limit)
    BY <2>2, <2>3
  <2> QED
    BY <2>3, <2>4
<1>2. ASSUME NEW m \in S PROVE m + 1 \in S
  <2>1. PICK f : Reading(f, m - 1, p, limit)
    OBVIOUS
  <2>2. m \in Nat
    OBVIOUS
  <2>3. f = [k \in -1..(m - 1) |-> IF k = -1 THEN <<>> ELSE more(k, f[k - 1])]
    BY <2>1 DEF Reading
  <2> HIDE DEF S, more
  <2>4. PICK w : w = [k \in -1..m |-> IF k = -1 THEN <<>> ELSE more(k, f[k - 1])]
    OBVIOUS
  <2>5. ASSUME NEW k \in -1..(m - 1) PROVE w[k] = f[k]
    <3>1. k \in -1..m
      BY <2>2
    <3> QED
      BY <2>3, <2>4, <3>1
  <2>6. ASSUME NEW k \in -1..m, k # -1 PROVE w[k - 1] = f[k - 1]
    <3>1. k - 1 \in -1..(m - 1)
      BY <2>2, <2>6
    <3> QED
      BY <2>5, <3>1
  <2>7. w = [k \in -1..m |-> IF k = -1 THEN <<>> ELSE more(k, w[k - 1])]
    BY <2>4, <2>6
  <2>8. Reading(w, m, p, limit)
    BY <2>7 DEF Reading, more
  <2>9. PICK l \in Nat : l = m + 1 /\ l - 1 = m
    BY <2>2
  <2>10. Reading(w, l - 1, p, limit)
    BY <2>8, <2>9
  <2>11. l \in S
    BY <2>10 DEF S
  <2> QED
    BY <2>9, <2>11
<1> HIDE DEF S
<1>3. S = Nat
  BY <1>1, <1>2, InductionOnNat DEF S
<1>4. n \in S
  BY <1>3
<1> QED
  BY <1>4 DEF S

(* read_events takes what such a function has for the oldest generation.    *)
LEMMA EventsAreRead ==
  ASSUME NEW p, NEW limit
  PROVE  \E w : Reading(w, Keep, p, limit) /\ Trace!ReadEvents({p}, limit) = w[Keep]
<1> DEFINE walk == CHOOSE w : Reading(w, Keep, p, limit)
<1>1. PICK n \in Nat : n - 1 = Keep
  <2>1. Keep \in Nat
    BY HomeAssumption
  <2>2. Keep + 1 \in Nat /\ (Keep + 1) - 1 = Keep
    BY <2>1
  <2> QED
    BY <2>2
<1>2. \E w : Reading(w, Keep, p, limit)
  BY <1>1, ReadingExists
<1>3. Reading(walk, Keep, p, limit)
  BY <1>2
<1>4. Trace!ReadEvents({p}, limit) = walk[Keep]
  BY DEF Trace!ReadEvents, Reading
<1> QED
  BY <1>3, <1>4

(* However many are asked for, they are the newest of the same events.      *)
LEMMA ReadsTheNewest ==
  ASSUME TraceTypes, FilesRise, SessionsRise, NamesDescend, NEW p,
         NEW m \in Nat, NEW n \in Nat
  PROVE  \E x : /\ Whole(x, Keep, p)
                /\ Trace!ReadEvents({p}, m) = Trace!Newest(x, m)
                /\ Trace!ReadEvents({p}, n) = Trace!Newest(x, n)
<1>1. PICK v : Reading(v, Keep, p, m) /\ Trace!ReadEvents({p}, m) = v[Keep]
  BY EventsAreRead
<1>2. PICK w : Reading(w, Keep, p, n) /\ Trace!ReadEvents({p}, n) = w[Keep]
  BY EventsAreRead
<1>3. PICK keep \in Nat : keep = Keep
  BY HomeAssumption
<1> DEFINE Read(k) == \E x : /\ Whole(x, k, p) /\ v[k] = Trace!Newest(x, m)
                             /\ w[k] = Trace!Newest(x, n)
           S == {i \in Nat : i - 1 <= keep => Read(i - 1)}
<1>4. 0 \in S
  <2>1. Whole(<<>>, -1, p)
    <3>1. <<>> \in Seq(Trace!TraceEvent) /\ \A i \in 1..Len(<<>>) : FALSE
      BY EmptySeq
    <3>2. \A g \in 0..-1 : FALSE
      OBVIOUS
    <3> QED
      BY <3>1, <3>2 DEF Whole, Rises
  <2>2. v[-1] = <<>> /\ w[-1] = <<>>
    <3>1. -1 \in -1..Keep
      BY <1>3
    <3> QED
      BY <1>1, <1>2, <3>1 DEF Reading
  <2>3. ASSUME NEW l \in Nat PROVE Trace!Newest(<<>>, l) = <<>>
    <3>1. PICK e \in Seq(Trace!TraceEvent) : e = <<>> /\ Len(e) = 0
      BY EmptySeq
    <3>2. PICK r \in Seq(Trace!TraceEvent) : r = Trace!Newest(e, l)
      BY NewestProperties
    <3>3. Len(r) = IF Len(e) > l THEN l ELSE Len(e)
      BY <3>2, NewestProperties
    <3>4. Len(r) = 0
      BY <3>1, <3>3
    <3> QED
      BY <3>1, <3>2, <3>4, EmptySeq
  <2>4. Read(-1)
    BY <2>1, <2>2, <2>3
  <2>5. PICK i \in Nat : i = 0 /\ i - 1 = -1
    OBVIOUS
  <2> HIDE DEF Read
  <2> QED
    BY <2>4, <2>5
<1>5. ASSUME NEW i \in S PROVE i + 1 \in S
  <2>1. i \in Nat /\ (i - 1 <= keep => Read(i - 1))
    OBVIOUS
  <2>2. PICK j \in Nat : j = i + 1 /\ j - 1 = i
    BY <2>1
  <2> HIDE DEF S, Read
  <2>3. ASSUME i <= keep PROVE Read(i)
    <3>1. i - 1 \in -1..Keep /\ i \in 0..Keep /\ i = (i - 1) + 1 /\ i \in -1..Keep /\ i # -1
          /\ i - 1 <= keep
      BY <1>3, <2>1, <2>3
    <3>2. PICK x : /\ Whole(x, i - 1, p) /\ v[i - 1] = Trace!Newest(x, m)
                   /\ w[i - 1] = Trace!Newest(x, n)
      BY <2>1, <3>1 DEF Read
    <3>3. x \in Seq(Trace!TraceEvent)
      BY <3>2 DEF Whole
    <3>4. PICK s : s = Trace!Matching(i, {p})
      OBVIOUS
    <3>5. s \in Seq(Trace!TraceEvent)
      BY <3>1, <3>4, MatchingProperties DEF Trace!Generations
    <3>6. v[i] = Trace!Newest(s, m - Len(v[i - 1])) \o v[i - 1]
      BY <1>1, <3>1, <3>4 DEF Reading
    <3>7. w[i] = Trace!Newest(s, n - Len(w[i - 1])) \o w[i - 1]
      BY <1>2, <3>1, <3>4 DEF Reading
    <3>8. v[i] = Trace!Newest(s \o x, m)
      BY <3>2, <3>3, <3>5, <3>6, NewestOfConcat
    <3>9. w[i] = Trace!Newest(s \o x, n)
      BY <3>2, <3>3, <3>5, <3>7, NewestOfConcat
    <3>10. Whole(s \o x, i, p)
      <4>1. PICK k \in -1..Keep, l \in 0..Keep : k = i - 1 /\ l = i /\ l = k + 1
        BY <3>1
      <4> QED
        BY <3>2, <3>4, <4>1, WholeGrows
    <3> QED
      BY <3>8, <3>9, <3>10 DEF Read
  <2> QED
    BY <2>2, <2>3 DEF S
<1>6. S \in SUBSET Nat
  OBVIOUS
<1> HIDE DEF S, Read
<1>7. S = Nat
  BY <1>4, <1>5, <1>6, InductionOnNat
<1>8. Read(Keep)
  <2>1. PICK i \in Nat : i = keep + 1 /\ i - 1 = keep
    OBVIOUS
  <2>2. i \in S
    BY <1>7
  <2> QED
    BY <1>3, <2>1, <2>2 DEF S
<1> QED
  BY <1>1, <1>2, <1>8 DEF Read

(* As long as no two rotations overlapped and none found a file held, they  *)
(* are the last that the session wrote.                                     *)
LEMMA WholeIsTheEnd ==
  ASSUME TraceTypes, EventsInv, NamesDescend, NoneBetween, NEW p, NEW x, Whole(x, Keep, p)
  PROVE  IsEnd(x, Trace!Of(written, {p})) /\ Trace!Of(written, {p}) \in Seq(Trace!TraceEvent)
<1>1. PICK n \in Nat, m \in Nat : n = files /\ m = MaxFiles /\ n <= m
  BY FilesAreFew
<1>2. written \in Seq(Trace!TraceEvent) /\ Trace!Generations = 0..Keep
  BY DEF TraceTypes, Trace!Generations
<1>3. PICK y : y = Trace!Of(written, {p})
  OBVIOUS
<1>4. IsOf(y, written, p)
  BY <1>2, <1>3, OfProperties
<1>5. /\ FilesRise /\ SessionsRise /\ FilesWritten
      /\ \A l \in 1..Len(written) :
           written[l].number = l /\ \E i \in 1..files : In(written[l], content[i])
  BY DEF EventsInv, AllKept
<1>6. Rises(written)
  BY <1>5 DEF Rises
<1>7. y \in Seq(Trace!TraceEvent) /\ Rises(y)
  BY <1>4, <1>6 DEF IsOf
<1>8. x \in Seq(Trace!TraceEvent) /\ Rises(x)
  BY DEF Whole
<1>9. ASSUME NEW i \in 1..Len(x)
      PROVE  \E g \in 0..Keep : /\ name[g] # Trace!NoFile /\ name[g] \in 1..n
                                /\ In(x[i], content[name[g]]) /\ x[i].session = p
  <2>1. PICK g \in 0..Keep : /\ name[g] # Trace!NoFile /\ In(x[i], content[name[g]])
                             /\ x[i].session = p
    BY DEF Whole
  <2>2. name[g] \in 0..n
    BY <1>1, <1>2 DEF TraceTypes
  <2>3. name[g] \in 1..n
    BY <2>1, <2>2 DEF Trace!NoFile
  <2> QED
    BY <2>1, <2>3
<1>10. ASSUME NEW i \in 1..Len(x) PROVE \E j \in 1..Len(y) : x[i] = y[j]
  <2>1. PICK g \in 0..Keep : /\ name[g] \in 1..n /\ In(x[i], content[name[g]])
                             /\ x[i].session = p
    BY <1>9
  <2>2. PICK f \in 1..MaxFiles : f = name[g]
    BY <1>1, <2>1
  <2>3. PICK a \in 1..Len(content[f]) : content[f][a] = x[i]
    BY <2>1, <2>2 DEF In
  <2>4. /\ content[f][a].number <= Len(written) /\ content[f][a].number \in Nat \ {0}
        /\ written[content[f][a].number] = content[f][a]
    <3>1. content[f] \in Seq(Trace!TraceEvent)
      BY DEF TraceTypes
    <3>2. content[f][a] \in Trace!TraceEvent
      BY <3>1, ElementOfSeq
    <3>3. content[f][a].number \in 1..MaxEvents
      BY <3>2 DEF Trace!TraceEvent
    <3> QED
      BY <1>5, <3>3 DEF FilesWritten
  <2>5. PICK l \in 1..Len(written) : written[l] = x[i]
    <3>1. Len(written) \in Nat
      BY <1>2, LenProperties
    <3>2. content[f][a].number \in 1..Len(written)
      BY <2>4, <3>1
    <3> QED
      BY <2>3, <2>4, <3>2
  <2> QED
    BY <1>4, <2>1, <2>5 DEF IsOf
<1>11. ASSUME NEW i \in 1..Len(x), NEW j \in 1..Len(y), y[j].number > x[i].number
       PROVE  \E l \in 1..Len(x) : x[l] = y[j]
  <2>1. PICK g \in 0..Keep : /\ name[g] # Trace!NoFile /\ name[g] \in 1..n
                             /\ In(x[i], content[name[g]]) /\ x[i].session = p
    BY <1>9
  <2>2. y[j].session = p /\ \E l \in 1..Len(written) : y[j] = written[l]
    BY <1>4 DEF IsOf
  <2>3. PICK f \in 1..n : In(y[j], content[f])
    BY <1>1, <1>5, <2>2
  <2>4. ~(f < name[g])
    <3>1. SUFFICES ASSUME f < name[g] PROVE FALSE
      OBVIOUS
    <3>2. PICK old \in 1..MaxFiles, new \in 1..MaxFiles : old = f /\ new = name[g]
      <4>1. \A l \in 1..n : l \in 1..MaxFiles
        BY <1>1
      <4>2. f \in 1..MaxFiles /\ name[g] \in 1..MaxFiles
        BY <2>1, <4>1
      <4> QED
        BY <4>2
    <3>3. PICK a \in 1..Len(content[old]) : content[old][a] = y[j]
      BY <2>3, <3>2 DEF In
    <3>4. PICK b \in 1..Len(content[new]) : content[new][b] = x[i]
      BY <2>1, <3>2 DEF In
    <3>5. content[old][a].number < content[new][b].number
      <4>1. content[old][a].session = content[new][b].session
        BY <2>1, <2>2, <3>3, <3>4
      <4>2. old < new
        BY <3>1, <3>2
      <4> QED
        BY <1>5, <4>1, <4>2 DEF SessionsRise
    <3>6. y[j].number \in Int /\ x[i].number \in Int
      <4>1. y[j] \in Trace!TraceEvent /\ x[i] \in Trace!TraceEvent
        BY <1>7, <1>8, ElementOfSeq
      <4> QED
        BY <4>1 DEF Trace!TraceEvent
    <3> QED
      BY <1>11, <3>3, <3>4, <3>5, <3>6
  <2>5. PICK h \in 0..Keep : name[h] = f
    <3>1. CASE f = name[g]
      BY <3>1
    <3>2. CASE f # name[g]
      <4>1. f > name[g]
        BY <2>1, <2>4, <3>2
      <4> QED
        BY <1>1, <1>2, <2>1, <4>1 DEF NoneBetween
    <3> QED
      BY <3>1, <3>2
  <2>6. name[h] # Trace!NoFile
    BY <2>5 DEF Trace!NoFile
  <2>7. PICK a \in 1..Len(content[name[h]]) : content[name[h]][a] = y[j]
    BY <2>3, <2>5 DEF In
  <2>8. In(y[j], x)
    BY <2>2, <2>6, <2>7 DEF Whole
  <2> QED
    BY <2>8 DEF In
<1>12. IsEnd(x, y)
  BY <1>7, <1>8, <1>10, <1>11, LatestAreTheEnd
<1> QED
  BY <1>3, <1>7, <1>12

-----------------------------------------------------------------------------
(* Where no event is written, and a file is only opened that is the newest. *)
LEMMA EventsStay ==
  ASSUME TraceTypes, NewFiles', EventsInv, UNCHANGED <<content, written>>,
         files' \in Nat, files <= files',
         \A q \in Processes : fh'[q] \in {fh[q], Trace!NoFile, files'}
  PROVE  EventsInv'
<1>1. FilesRise /\ SessionsRise /\ FilesWritten /\ AllKept /\ OpenIsLatest
  BY DEF EventsInv
<1>2. FilesRise'
  BY <1>1 DEF FilesRise
<1>3. SessionsRise'
  BY <1>1 DEF SessionsRise
<1>4. FilesWritten'
  BY <1>1 DEF FilesWritten
<1>5. AllKept'
  <2>1. \A i \in 1..files : i \in 1..files'
    BY FilesAreFew
  <2> QED
    BY <1>1, <2>1 DEF AllKept
<1>6. OpenIsLatest'
  <2>1. SUFFICES ASSUME NEW q \in Processes, fh'[q] # Trace!NoFile, NEW i \in 1..MaxFiles,
                        i > fh'[q], NEW a \in 1..Len(content[i])
                 PROVE  content[i][a].session # q
    BY DEF OpenIsLatest
  <2>2. CASE fh'[q] = fh[q]
    BY <1>1, <2>1, <2>2 DEF OpenIsLatest
  <2>3. CASE fh'[q] = files'
    <3>1. content[i] = <<>>
      BY <2>1, <2>3 DEF NewFiles
    <3>2. Len(content[i]) = 0
      BY <3>1
    <3> QED
      BY <2>1, <3>2
  <2> QED
    BY <2>1, <2>2, <2>3
<1> QED
  BY <1>2, <1>3, <1>4, <1>5, <1>6 DEF EventsInv

(* Where no file gets another name, and no rotation goes on.                *)
LEMMA NamesStay ==
  ASSUME NamesInv, UNCHANGED <<name, files>>, raced => raced',
         \A q \in Processes : Trace!Rotating(q)' /\ at'[q].gen # Keep =>
           Trace!Rotating(q) /\ at'[q] = at[q]
  PROVE  NamesInv'
<1>1. LiveIsLast /\ NamesDescend /\ (~raced => NoneBetween /\ NextIsFree)
  BY DEF NamesInv
<1>2. LiveIsLast' /\ NamesDescend'
  BY <1>1 DEF LiveIsLast, NamesDescend, Trace!Generations
<1>3. ASSUME ~raced' PROVE NoneBetween'
  BY <1>1, <1>3 DEF NoneBetween, Trace!Generations
<1>4. ASSUME ~raced' PROVE NextIsFree'
  <2>1. SUFFICES ASSUME NEW q \in Processes, Trace!Rotating(q)', at'[q].gen >= 0,
                        at'[q].gen < Keep
                 PROVE  name[at'[q].gen + 1] = Trace!NoFile
    BY DEF NextIsFree
  <2>2. at'[q].gen # Keep
    <3>1. Keep \in Nat
      BY HomeAssumption
    <3> QED
      BY <2>1, <3>1
  <2>3. Trace!Rotating(q) /\ at'[q] = at[q]
    BY <2>1, <2>2
  <2> QED
    BY <1>1, <1>4, <2>1, <2>3 DEF NextIsFree
<1> QED
  BY <1>2, <1>3, <1>4 DEF NamesInv

(* The live file is opened, and made if it is not there.                    *)
LEMMA NamesOpen ==
  ASSUME TraceTypes, NamesInv, NEW p \in Processes, Trace!OpenLive(p), UNCHANGED raced
  PROVE  /\ NamesInv' /\ files' \in Nat /\ files <= files'
         /\ fh' = [fh EXCEPT ![p] = files']
<1>1. LiveIsLast /\ NamesDescend /\ (~raced => NoneBetween /\ NextIsFree)
  BY DEF NamesInv
<1>2. PICK n \in Nat, keep \in Nat : n = files /\ keep = Keep
  <2>1. Keep \in Nat
    BY HomeAssumption
  <2> QED
    BY <2>1, FilesAreFew
<1>3. name \in [0..keep -> 0..n] /\ Trace!Generations = 0..keep /\ 0 \in 0..keep
  BY <1>2 DEF TraceTypes, Trace!Generations
<1>4. /\ at' = [at EXCEPT ![p] = Trace!Open] /\ fh' = [fh EXCEPT ![p] = name'[0]]
      /\ IF name[0] = Trace!NoFile
         THEN files' = n + 1 /\ name' = [name EXCEPT ![0] = n + 1]
         ELSE UNCHANGED <<files, name>>
  BY <1>2 DEF Trace!OpenLive
<1>5. ASSUME NEW q \in Processes, Trace!Rotating(q)' PROVE Trace!Rotating(q) /\ at'[q] = at[q]
  <2>1. at \in [Processes -> Steps]
    BY DEF TraceTypes
  <2>2. q # p
    <3>1. at'[p] = Trace!Open
      BY <1>4, <2>1
    <3>2. at'[q].step = "rotate"
      BY <1>5 DEF Trace!Rotating
    <3> QED
      BY <3>1, <3>2, StepsDiffer
  <2>3. at'[q] = at[q]
    BY <1>4, <2>1, <2>2
  <2> QED
    BY <1>5, <2>3 DEF Trace!Rotating
<1>6. CASE name[0] # Trace!NoFile
  <2>1. UNCHANGED <<files, name>> /\ name[0] = files
    BY <1>1, <1>4, <1>6 DEF LiveIsLast
  <2>2. NamesInv'
    BY <1>5, <2>1, NamesStay
  <2> QED
    BY <1>2, <1>4, <2>1, <2>2
<1>7. CASE name[0] = Trace!NoFile
  <2>1. files' = n + 1 /\ name' = [name EXCEPT ![0] = n + 1]
    BY <1>4, <1>7
  <2>2. name'[0] = n + 1 /\ \A k \in 0..keep : k # 0 => name'[k] = name[k]
    BY <1>3, <2>1
  <2>3. LiveIsLast'
    BY <2>1, <2>2 DEF LiveIsLast
  <2>4. \A k \in 0..keep : name[k] \in 0..n
    BY <1>3
  <2>5. NamesDescend'
    <3>1. SUFFICES ASSUME NEW k \in 0..keep, NEW l \in 0..keep, k < l,
                          name'[k] # Trace!NoFile, name'[l] # Trace!NoFile
                   PROVE  name'[k] > name'[l]
      BY <1>3 DEF NamesDescend, Trace!Generations
    <3>2. l # 0 /\ name'[l] = name[l]
      BY <2>2, <3>1
    <3>3. CASE k = 0
      BY <2>2, <2>4, <3>2, <3>3
    <3>4. CASE k # 0
      BY <1>1, <1>3, <2>2, <3>1, <3>2, <3>4 DEF NamesDescend
    <3> QED
      BY <3>3, <3>4
  <2>6. ASSUME ~raced PROVE NoneBetween'
    <3>1. SUFFICES ASSUME NEW k \in 0..keep, NEW i \in 1..(n + 1),
                          name'[k] # Trace!NoFile, i > name'[k]
                   PROVE  \E l \in 0..keep : name'[l] = i
      BY <1>3, <2>1 DEF NoneBetween, Trace!Generations
    <3>2. CASE i = n + 1
      BY <1>3, <2>2, <3>2
    <3>3. CASE i # n + 1
      <4>1. i \in 1..n /\ k # 0
        BY <2>2, <3>1, <3>3
      <4>2. name[k] # Trace!NoFile /\ i > name[k]
        BY <2>2, <3>1, <4>1
      <4>3. PICK l \in 0..keep : name[l] = i
        BY <1>1, <1>2, <1>3, <2>6, <4>1, <4>2 DEF NoneBetween
      <4>4. l # 0
        BY <1>7, <4>1, <4>3 DEF Trace!NoFile
      <4> QED
        BY <2>2, <4>3, <4>4
    <3> QED
      BY <3>2, <3>3
  <2>7. ASSUME ~raced PROVE NextIsFree'
    <3>1. SUFFICES ASSUME NEW q \in Processes, Trace!Rotating(q)', at'[q].gen >= 0,
                          at'[q].gen < Keep
                   PROVE  name'[at'[q].gen + 1] = Trace!NoFile
      BY DEF NextIsFree
    <3>2. Trace!Rotating(q) /\ at'[q] = at[q]
      BY <1>5, <3>1
    <3>3. at[q].gen \in -1..Keep
      BY <3>2, RotatingAt
    <3>4. at[q].gen + 1 \in 0..keep /\ at[q].gen + 1 # 0
      BY <1>2, <3>1, <3>2, <3>3
    <3>5. name[at[q].gen + 1] = Trace!NoFile
      BY <1>1, <2>7, <3>1, <3>2 DEF NextIsFree
    <3> QED
      BY <2>2, <3>2, <3>4, <3>5
  <2>8. NamesInv'
    BY <2>3, <2>5, <2>6, <2>7 DEF NamesInv
  <2>9. files' \in Nat /\ files <= files'
    BY <1>2, <2>1
  <2>10. name'[0] = files'
    BY <2>1, <2>2
  <2> QED
    BY <1>4, <2>8, <2>9, <2>10
<1> QED
  BY <1>6, <1>7

(* One step of a rotation: nothing is renamed, the oldest is removed, or a  *)
(* generation becomes the next.                                             *)
LEMMA NamesAfter ==
  ASSUME TraceTypes, NEW k \in 0..Keep,
         name' = IF k = Keep THEN Trace!Removed(k) ELSE Trace!Renamed(k)
  PROVE  \/ name' = name
         \/ k = Keep /\ name'[k] = Trace!NoFile
            /\ \A l \in 0..Keep : l # k => name'[l] = name[l]
         \/ k < Keep /\ name'[k] = Trace!NoFile /\ name'[k + 1] = name[k]
            /\ \A l \in 0..Keep : l # k /\ l # k + 1 => name'[l] = name[l]
<1>1. PICK keep \in Nat : keep = Keep
  BY HomeAssumption
<1>2. name \in [0..keep -> 0..files]
  BY <1>1 DEF TraceTypes, Trace!Generations
<1>3. CASE k = Keep
  <2>1. name' = name \/ name' = [name EXCEPT ![k] = Trace!NoFile]
    BY <1>3 DEF Trace!Removed
  <2> QED
    BY <1>1, <1>2, <1>3, <2>1
<1>4. CASE k # Keep
  <2>1. k < Keep /\ k + 1 \in 0..keep /\ k # k + 1
    BY <1>1, <1>4
  <2>2. \/ name' = name
        \/ name' = [name EXCEPT ![k] = Trace!NoFile, ![k + 1] = name[k]]
    BY <1>4 DEF Trace!Renamed
  <2>3. CASE name' = [name EXCEPT ![k] = Trace!NoFile, ![k + 1] = name[k]]
    <3>1. name'[k] = Trace!NoFile /\ name'[k + 1] = name[k]
      BY <1>1, <1>2, <2>1, <2>3
    <3>2. \A l \in 0..keep : l # k /\ l # k + 1 => name'[l] = name[l]
      BY <1>2, <2>3
    <3> QED
      BY <1>1, <2>1, <3>1, <3>2
  <2> QED
    BY <2>2, <2>3
<1> QED
  BY <1>3, <1>4

(* It keeps the generations in order, and while it is alone and finds no    *)
(* file held, no file is left without a name between two that have one.     *)
LEMMA NamesShift ==
  ASSUME TraceInv, NamesInv, NEW p \in Processes, NEW k \in 0..Keep,
         k = at[p].gen, Trace!Rotating(p), UNCHANGED files,
         name' = (IF k = Keep THEN Trace!Removed(k) ELSE Trace!Renamed(k)),
         at' = [at EXCEPT ![p] = Trace!Shift(k - 1)],
         raced' = (raced \/ {k, k + 1} \cap held # {})
  PROVE  NamesInv'
<1>1. LiveIsLast /\ NamesDescend /\ (~raced => NoneBetween /\ NextIsFree)
  BY DEF NamesInv
<1>2. TraceTypes /\ (~raced => Alone)
  BY DEF TraceInv, CapsHold
<1>3. PICK n \in Nat, keep \in Nat : n = files /\ keep = Keep
  <2>1. Keep \in Nat
    BY HomeAssumption
  <2> QED
    BY <1>2, <2>1, FilesAreFew
<1>4. /\ Trace!Generations = 0..keep /\ k \in 0..keep
      /\ \A l \in 0..keep : name[l] \in 0..n
  BY <1>2, <1>3 DEF TraceTypes, Trace!Generations
<1>5. \/ name' = name
      \/ k = keep /\ name'[k] = Trace!NoFile
         /\ \A l \in 0..keep : l # k => name'[l] = name[l]
      \/ k < keep /\ name'[k] = Trace!NoFile /\ name'[k + 1] = name[k]
         /\ \A l \in 0..keep : l # k /\ l # k + 1 => name'[l] = name[l]
  BY <1>2, <1>3, NamesAfter
<1>6. LiveIsLast'
  <2>1. name'[0] \in {name[0], Trace!NoFile}
    <3>1. 0 \in 0..keep /\ k + 1 # 0
      BY <1>4
    <3> QED
      BY <1>5, <3>1
  <2> QED
    BY <1>1, <2>1 DEF LiveIsLast
<1>7. NamesDescend'
  <2>1. SUFFICES ASSUME NEW a \in 0..keep, NEW b \in 0..keep, a < b,
                        name'[a] # Trace!NoFile, name'[b] # Trace!NoFile
                 PROVE  name'[a] > name'[b]
    BY <1>4 DEF NamesDescend, Trace!Generations
  <2>2. \A c, d \in 0..keep : c < d /\ name[c] # Trace!NoFile /\ name[d] # Trace!NoFile
          => name[c] > name[d]
    BY <1>1, <1>4 DEF NamesDescend
  <2>3. CASE name' = name
    BY <2>1, <2>2, <2>3
  <2>4. CASE /\ name'[k] = Trace!NoFile
             /\ \A l \in 0..keep : l # k => name'[l] = name[l]
    BY <2>1, <2>2, <2>4
  <2>5. CASE /\ k < keep /\ name'[k] = Trace!NoFile /\ name'[k + 1] = name[k]
             /\ \A l \in 0..keep : l # k /\ l # k + 1 => name'[l] = name[l]
    <3>1. a # k /\ b # k
      BY <2>1, <2>5
    <3>2. CASE b = k + 1
      <4>1. a < k /\ name'[a] = name[a] /\ name'[b] = name[k]
        BY <1>4, <2>1, <2>5, <3>1, <3>2
      <4> QED
        BY <1>4, <2>1, <2>2, <4>1
    <3>3. CASE a = k + 1
      <4>1. k < b /\ name'[a] = name[k] /\ name'[b] = name[b]
        BY <1>4, <2>1, <2>5, <3>1, <3>3
      <4> QED
        BY <1>4, <2>1, <2>2, <4>1
    <3>4. CASE a # k + 1 /\ b # k + 1
      <4>1. name'[a] = name[a] /\ name'[b] = name[b]
        BY <2>5, <3>1, <3>4
      <4> QED
        BY <2>1, <2>2, <4>1
    <3> QED
      BY <3>2, <3>3, <3>4
  <2> QED
    BY <1>5, <2>3, <2>4, <2>5
<1>8. ASSUME ~raced' PROVE NoneBetween'
  <2>1. ~raced
    BY <1>8
  <2>2. SUFFICES ASSUME NEW a \in 0..keep, NEW i \in 1..n,
                        name'[a] # Trace!NoFile, i > name'[a]
                 PROVE  \E l \in 0..keep : name'[l] = i
    BY <1>3, <1>4 DEF NoneBetween, Trace!Generations
  <2>3. \A b \in 0..keep : name[b] # Trace!NoFile /\ i > name[b] =>
          \E l \in 0..keep : name[l] = i
    BY <1>1, <1>3, <1>4, <2>1 DEF NoneBetween
  <2>4. CASE name' = name
    BY <2>2, <2>3, <2>4
  <2>5. CASE /\ k = keep /\ name'[k] = Trace!NoFile
             /\ \A l \in 0..keep : l # k => name'[l] = name[l]
    <3>1. a # k /\ a < keep /\ name'[a] = name[a]
      BY <2>2, <2>5
    <3>2. PICK l \in 0..keep : name[l] = i
      BY <2>2, <2>3, <3>1
    <3>3. l # keep
      <4>1. SUFFICES ASSUME l = keep PROVE FALSE
        OBVIOUS
      <4>2. name[l] # Trace!NoFile
        BY <3>2 DEF Trace!NoFile
      <4>3. name[a] > name[l]
        BY <1>1, <1>4, <2>2, <3>1, <4>1, <4>2 DEF NamesDescend
      <4> QED
        BY <1>4, <2>2, <3>1, <3>2, <4>3
    <3> QED
      BY <2>5, <3>2, <3>3
  <2>6. CASE /\ k < keep /\ name'[k] = Trace!NoFile /\ name'[k + 1] = name[k]
             /\ \A l \in 0..keep : l # k /\ l # k + 1 => name'[l] = name[l]
    <3>1. k + 1 \in 0..keep
      BY <1>4, <2>6
    <3>2. PICK b \in 0..keep : name'[a] = name[b]
      <4>1. CASE a = k + 1
        BY <1>4, <2>6, <4>1
      <4>2. CASE a # k + 1
        BY <2>2, <2>6, <4>2
      <4> QED
        BY <4>1, <4>2
    <3>3. PICK l \in 0..keep : name[l] = i
      BY <2>2, <2>3, <3>2
    <3>4. name[k + 1] = Trace!NoFile
      <4>1. at[p].gen >= 0 /\ at[p].gen < Keep /\ at[p].gen + 1 = k + 1
        BY <1>3, <1>4, <2>6
      <4>2. NextIsFree
        BY <1>1, <2>1
      <4> QED
        BY <4>1, <4>2 DEF NextIsFree
    <3>5. l # k + 1
      BY <3>3, <3>4 DEF Trace!NoFile
    <3> QED
      BY <2>6, <3>1, <3>3, <3>5
  <2> QED
    BY <1>5, <2>4, <2>5, <2>6
<1>9. ASSUME ~raced' PROVE NextIsFree'
  <2>1. ~raced /\ {k, k + 1} \cap held = {} /\ Alone
    BY <1>2, <1>9
  <2>2. name'[k] = Trace!NoFile
    BY <1>2, <2>1, NamesRotate
  <2>3. SUFFICES ASSUME NEW q \in Processes, Trace!Rotating(q)', at'[q].gen >= 0,
                        at'[q].gen < Keep
                 PROVE  name'[at'[q].gen + 1] = Trace!NoFile
    BY DEF NextIsFree
  <2>4. at \in [Processes -> Steps]
    BY <1>2 DEF TraceTypes
  <2>5. q = p
    <3>1. SUFFICES ASSUME q # p PROVE FALSE
      OBVIOUS
    <3>2. at'[q] = at[q]
      BY <2>4, <3>1
    <3>3. Trace!Rotating(q)
      BY <2>3, <3>2 DEF Trace!Rotating
    <3> QED
      BY <2>1, <3>1, <3>3 DEF Alone
  <2>6. at'[p] = Trace!Shift(k - 1)
    BY <2>4
  <2>7. k - 1 \in -1..Keep
    BY <1>3, <1>4
  <2>8. at'[q].gen = k - 1
    BY <2>5, <2>6, <2>7, StepsDiffer
  <2>9. at'[q].gen + 1 = k
    BY <1>4, <2>8
  <2> QED
    BY <2>2, <2>9
<1> QED
  BY <1>6, <1>7, <1>8, <1>9 DEF NamesInv

(* An event is written to file f: what is new in the files.                 *)
LEMMA FileWritten ==
  ASSUME TraceTypes, NEW f \in 1..MaxFiles, NEW e \in Trace!TraceEvent,
         content' = [content EXCEPT ![f] = Append(content[f], e)]
  PROVE  /\ \A i \in 1..MaxFiles : Len(content[i]) \in Nat
         /\ \A i \in 1..MaxFiles : i # f => content'[i] = content[i]
         /\ Len(content'[f]) = Len(content[f]) + 1
         /\ \A l : l = Len(content[f]) + 1 => content'[f][l] = e
         /\ \A a \in 1..Len(content[f]) : content'[f][a] = content[f][a]
<1>1. \A i \in 1..MaxFiles : content[i] \in Seq(Trace!TraceEvent)
  BY DEF TraceTypes
<1>2. \A i \in 1..MaxFiles : Len(content[i]) \in Nat
  BY <1>1, LenProperties
<1>3. \A i \in 1..MaxFiles : i # f => content'[i] = content[i]
  BY DEF TraceTypes
<1>4. content'[f] = Append(content[f], e)
  BY DEF TraceTypes
<1>5. /\ Len(content'[f]) = Len(content[f]) + 1 /\ content'[f][Len(content[f]) + 1] = e
      /\ \A a \in 1..Len(content[f]) : content'[f][a] = content[f][a]
  BY <1>1, <1>4, AppendProperties
<1>6. \A l : l = Len(content[f]) + 1 => content'[f][l] = e
  BY <1>5
<1> QED
  BY <1>2, <1>3, <1>5, <1>6

(* It is the last of all, and what a session wrote before it is in older    *)
(* files or before it in this one.                                          *)
LEMMA EventsGrow ==
  ASSUME TraceTypes, EventsInv, NEW p \in Processes, NEW f \in 1..files, f = fh[p],
         NEW e \in Trace!TraceEvent, e.session = p, e.number = Len(written) + 1,
         content' = [content EXCEPT ![f] = Append(content[f], e)],
         written' = Append(written, e), UNCHANGED files,
         \A q \in Processes : fh'[q] \in {fh[q], Trace!NoFile}
  PROVE  EventsInv'
<1>1. PICK n \in Nat, m \in Nat : n = files /\ m = MaxFiles /\ n <= m
  BY FilesAreFew
<1>2. FilesRise /\ SessionsRise /\ FilesWritten /\ AllKept /\ OpenIsLatest
  BY DEF EventsInv
<1>3. PICK last \in Nat : last = Len(written)
  BY LenProperties DEF TraceTypes
<1>4. Len(written') = last + 1 /\ written'[last + 1] = e
      /\ \A l \in 1..last : written'[l] = written[l]
  BY <1>3, AppendProperties DEF TraceTypes
<1>5. f \in 1..m
  BY <1>1
<1>6. PICK len \in [1..m -> Nat] : \A i \in 1..m : len[i] = Len(content[i])
  <2>1. PICK len : len = [i \in 1..m |-> Len(content[i])]
    OBVIOUS
  <2>2. \A i \in 1..m : Len(content[i]) \in Nat
    BY <1>1, <1>5, FileWritten
  <2> QED
    BY <2>1, <2>2
<1>7. /\ \A i \in 1..m : i # f => content'[i] = content[i]
      /\ Len(content'[f]) = len[f] + 1 /\ content'[f][len[f] + 1] = e
      /\ \A a \in 1..len[f] : content'[f][a] = content[f][a]
  <2>1. f \in 1..MaxFiles
    BY <1>1
  <2>2. \A i \in 1..MaxFiles : i # f => content'[i] = content[i]
    BY <2>1, FileWritten
  <2>3. Len(content'[f]) = Len(content[f]) + 1
    BY <2>1, FileWritten
  <2>4. \A l : l = Len(content[f]) + 1 => content'[f][l] = e
    BY <2>1, FileWritten
  <2>5. \A a \in 1..Len(content[f]) : content'[f][a] = content[f][a]
    BY <2>1, FileWritten
  <2>6. len[f] = Len(content[f])
    BY <1>5, <1>6
  <2> QED
    BY <1>1, <2>2, <2>3, <2>4, <2>5, <2>6
(* Every event of a file is the new one, or was there.                      *)
<1> DEFINE Old(i, a) == a \in 1..len[i] /\ content'[i][a] = content[i][a]
           New(i, a) == i = f /\ a = len[f] + 1 /\ content'[i][a] = e
<1>8. ASSUME NEW i \in 1..m, NEW a \in 1..Len(content'[i])
      PROVE  Old(i, a) \/ New(i, a)
  <2>1. CASE i = f
    <3>1. a \in 1..(len[f] + 1) /\ len[f] \in Nat
      BY <1>5, <1>6, <1>7, <2>1
    <3>2. CASE a = len[f] + 1
      BY <1>7, <2>1, <3>2
    <3>3. CASE a # len[f] + 1
      <4>1. a \in 1..len[f]
        BY <3>1, <3>3
      <4> QED
        BY <1>7, <2>1, <4>1
    <3> QED
      BY <3>2, <3>3
  <2>2. CASE i # f
    BY <1>6, <1>7, <2>2
  <2> QED
    BY <2>1, <2>2
<1>9. ASSUME NEW i \in 1..m, NEW a \in 1..len[i]
      PROVE  /\ a \in 1..Len(content'[i]) /\ content'[i][a] = content[i][a]
             /\ content[i][a].number \in 1..last /\ written[content[i][a].number] = content[i][a]
  <2>1. a \in 1..Len(content'[i]) /\ content'[i][a] = content[i][a]
    <3>1. CASE i = f
      <4>1. a \in 1..(len[f] + 1)
        BY <1>5, <1>6, <3>1
      <4> QED
        BY <1>7, <3>1, <4>1
    <3>2. CASE i # f
      BY <1>6, <1>7, <3>2
    <3> QED
      BY <3>1, <3>2
  <2>2. content[i][a].number <= last /\ written[content[i][a].number] = content[i][a]
    BY <1>1, <1>2, <1>3, <1>6 DEF FilesWritten
  <2>3. content[i][a].number \in 1..MaxEvents
    <3>1. content[i] \in Seq(Trace!TraceEvent)
      BY <1>1 DEF TraceTypes
    <3>2. content[i][a] \in Trace!TraceEvent
      BY <1>6, <3>1, ElementOfSeq
    <3> QED
      BY <3>2 DEF Trace!TraceEvent
  <2>4. content[i][a].number \in 1..last
    BY <2>2, <2>3
  <2> QED
    BY <2>1, <2>2, <2>4
<1> HIDE DEF Old, New
<1>10. ASSUME NEW i \in 1..m, NEW a, Old(i, a)
       PROVE  /\ a \in 1..len[i] /\ content'[i][a] = content[i][a]
              /\ content'[i][a].number \in 1..last
              /\ written[content[i][a].number] = content[i][a]
  <2>1. a \in 1..len[i] /\ content'[i][a] = content[i][a]
    BY <1>10 DEF Old
  <2> QED
    BY <1>9, <2>1
<1>11. ASSUME NEW i \in 1..m, NEW a, New(i, a)
       PROVE  /\ i = f /\ a = len[f] + 1 /\ content'[i][a] = e
              /\ content'[i][a].number = last + 1 /\ content'[i][a].session = p
  BY <1>3, <1>11 DEF New
<1>12. FilesRise'
  <2>1. SUFFICES ASSUME NEW i \in 1..m, NEW a \in 1..Len(content'[i]),
                        NEW b \in 1..Len(content'[i]), a < b
                 PROVE  content'[i][a].number < content'[i][b].number
    BY <1>1 DEF FilesRise, Rises
  <2>2. CASE Old(i, a) /\ Old(i, b)
    <3>1. a \in 1..Len(content[i]) /\ b \in 1..Len(content[i]) /\ Rises(content[i])
      BY <1>1, <1>2, <1>6, <1>10, <2>2 DEF FilesRise
    <3>2. content[i][a].number < content[i][b].number
      BY <2>1, <3>1 DEF Rises
    <3> QED
      BY <1>10, <2>2, <3>2
  <2>3. CASE Old(i, a) /\ New(i, b)
    <3>1. PICK l \in 1..last : l = content'[i][a].number
      BY <1>10, <2>3
    <3>2. content'[i][b].number = last + 1
      BY <1>11, <2>3
    <3>3. l < last + 1
      OBVIOUS
    <3> QED
      BY <3>1, <3>2, <3>3
  <2>4. CASE New(i, a)
    <3>1. i = f /\ a = len[f] + 1 /\ len[f] \in Nat
      BY <1>5, <1>11, <2>4
    <3>2. b \in 1..(len[f] + 1)
      BY <1>7, <3>1
    <3> QED
      BY <2>1, <3>1, <3>2
  <2> QED
    BY <1>8, <2>2, <2>3, <2>4
<1>13. SessionsRise'
  <2>1. SUFFICES ASSUME NEW i \in 1..m, NEW k \in 1..m, i < k,
                        NEW a \in 1..Len(content'[i]), NEW b \in 1..Len(content'[k]),
                        content'[i][a].session = content'[k][b].session
                 PROVE  content'[i][a].number < content'[k][b].number
    BY <1>1 DEF SessionsRise
  <2>2. CASE Old(i, a) /\ Old(k, b)
    <3>1. a \in 1..Len(content[i]) /\ b \in 1..Len(content[k])
          /\ content'[i][a] = content[i][a] /\ content'[k][b] = content[k][b]
      BY <1>6, <1>10, <2>2
    <3>2. content[i][a].session = content[k][b].session
      BY <2>1, <3>1
    <3>3. content[i][a].number < content[k][b].number
      BY <1>1, <1>2, <2>1, <3>1, <3>2 DEF SessionsRise
    <3> QED
      BY <3>1, <3>3
  <2>3. CASE Old(i, a) /\ New(k, b)
    <3>1. PICK l \in 1..last : l = content'[i][a].number
      BY <1>10, <2>3
    <3>2. content'[k][b].number = last + 1
      BY <1>11, <2>3
    <3>3. l < last + 1
      OBVIOUS
    <3> QED
      BY <3>1, <3>2, <3>3
  <2>4. CASE New(i, a)
    <3>1. i = f /\ content'[k][b].session = p
      BY <1>11, <2>1, <2>4
    <3>2. Old(k, b)
      BY <1>8, <1>11, <2>1, <3>1
    <3>3. b \in 1..Len(content[k]) /\ content[k][b].session = p
      BY <1>6, <1>10, <3>1, <3>2
    <3>4. fh[p] # Trace!NoFile /\ k > fh[p]
      BY <1>1, <2>1, <3>1 DEF Trace!NoFile
    <3> QED
      BY <1>1, <1>2, <3>3, <3>4 DEF OpenIsLatest
  <2> QED
    BY <1>8, <2>2, <2>3, <2>4
<1>14. FilesWritten'
  <2>1. SUFFICES ASSUME NEW i \in 1..m, NEW a \in 1..Len(content'[i])
                 PROVE  /\ content'[i][a].number <= last + 1
                        /\ written'[content'[i][a].number] = content'[i][a]
    <3>1. Len(written') = last + 1 /\ m = MaxFiles
      BY <1>1, <1>4
    <3> QED
      BY <3>1 DEF FilesWritten
  <2>2. CASE Old(i, a)
    <3>1. PICK l \in 1..last : l = content'[i][a].number
      BY <1>10, <2>2
    <3>2. written[l] = content'[i][a] /\ written'[l] = written[l]
      <4>1. content'[i][a] = content[i][a] /\ written[content[i][a].number] = content[i][a]
        BY <1>10, <2>2
      <4>2. written[l] = content'[i][a]
        BY <3>1, <4>1
      <4>3. written'[l] = written[l]
        BY <1>4
      <4> QED
        BY <4>2, <4>3
    <3>3. l <= last + 1
      OBVIOUS
    <3>4. content'[i][a].number <= last + 1
      BY <3>1, <3>3
    <3>5. written'[content'[i][a].number] = content'[i][a]
      BY <3>1, <3>2
    <3> QED
      BY <3>4, <3>5
  <2>3. CASE New(i, a)
    <3>1. content'[i][a] = e /\ content'[i][a].number = last + 1
      BY <1>11, <2>3
    <3>2. content'[i][a].number <= last + 1
      BY <3>1
    <3>3. written'[content'[i][a].number] = content'[i][a]
      BY <1>4, <3>1
    <3> QED
      BY <3>2, <3>3
  <2> QED
    BY <1>8, <2>2, <2>3
<1>15. AllKept'
  <2>1. SUFFICES ASSUME NEW l \in 1..(last + 1)
                 PROVE  /\ written'[l].number = l
                        /\ \E i \in 1..n : In(written'[l], content'[i])
    BY <1>1, <1>4 DEF AllKept
  <2>2. CASE l = last + 1
    <3>1. written'[l] = e /\ e.number = l
      BY <1>3, <1>4, <2>2
    <3>2. len[f] + 1 \in 1..Len(content'[f])
      <4>1. len[f] \in Nat
        BY <1>5
      <4> QED
        BY <1>7, <4>1
    <3>3. In(e, content'[f])
      BY <1>7, <3>2 DEF In
    <3> QED
      BY <1>1, <3>1, <3>3
  <2>3. CASE l # last + 1
    <3>1. l \in 1..last /\ written'[l] = written[l]
      BY <1>4, <2>3
    <3>2. written[l].number = l /\ \E i \in 1..n : In(written[l], content[i])
      BY <1>1, <1>2, <1>3, <3>1 DEF AllKept
    <3>3. PICK i \in 1..n : In(written[l], content[i])
      BY <3>2
    <3>4. i \in 1..m
      BY <1>1
    <3>5. PICK a \in 1..len[i] : content[i][a] = written[l]
      BY <1>6, <3>3, <3>4 DEF In
    <3>6. a \in 1..Len(content'[i]) /\ content'[i][a] = written[l]
      BY <1>9, <3>4, <3>5
    <3>7. In(written[l], content'[i])
      BY <3>6 DEF In
    <3> QED
      BY <3>1, <3>2, <3>7
  <2> QED
    BY <2>2, <2>3
<1>16. OpenIsLatest'
  <2>1. SUFFICES ASSUME NEW q \in Processes, fh'[q] # Trace!NoFile, NEW i \in 1..m,
                        i > fh'[q], NEW a \in 1..Len(content'[i])
                 PROVE  content'[i][a].session # q
    BY <1>1 DEF OpenIsLatest
  <2>2. fh'[q] = fh[q]
    BY <2>1
  <2>3. CASE Old(i, a)
    <3>1. a \in 1..Len(content[i]) /\ content'[i][a] = content[i][a]
      BY <1>6, <1>10, <2>3
    <3> QED
      BY <1>1, <1>2, <2>1, <2>2, <3>1 DEF OpenIsLatest
  <2>4. CASE New(i, a)
    <3>1. i = f /\ content'[i][a].session = p
      BY <1>11, <2>4
    <3>2. q # p
      BY <2>1, <2>2, <3>1
    <3> QED
      BY <3>1, <3>2
  <2> QED
    BY <1>8, <2>3, <2>4
<1> QED
  BY <1>12, <1>13, <1>14, <1>15, <1>16 DEF EventsInv

(* A rotation begins.                                                       *)
LEMMA RotationStarts ==
  ASSUME TraceTypes, NamesInv, NEW p \in Processes, Trace!BeginRotation(p),
         UNCHANGED <<name, files>>
  PROVE  NamesInv' /\ \A q \in Processes : fh'[q] \in {fh[q], Trace!NoFile}
<1>1. /\ at' = [at EXCEPT ![p] = Trace!Shift(Keep)] /\ fh' = [fh EXCEPT ![p] = Trace!NoFile]
      /\ raced' = (raced \/ \E q \in Processes \ {p} : Trace!Rotating(q))
  BY DEF Trace!BeginRotation
<1>2. at \in [Processes -> Steps] /\ fh \in [Processes -> 0..files]
  BY DEF TraceTypes
<1>3. at'[p].gen = Keep
  <2>1. Keep \in -1..Keep
    <3>1. Keep \in Nat
      BY HomeAssumption
    <3> QED
      BY <3>1
  <2> QED
    BY <1>1, <1>2, <2>1, StepsDiffer
<1>4. ASSUME NEW q \in Processes, Trace!Rotating(q)', at'[q].gen # Keep
      PROVE  Trace!Rotating(q) /\ at'[q] = at[q]
  <2>1. at'[q] = at[q]
    BY <1>1, <1>2, <1>3, <1>4
  <2> QED
    BY <1>4, <2>1 DEF Trace!Rotating
<1>5. raced => raced'
  BY <1>1
<1>6. NamesInv'
  BY <1>4, <1>5, NamesStay
<1>7. \A q \in Processes : fh'[q] \in {fh[q], Trace!NoFile}
  BY <1>1, <1>2
<1> QED
  BY <1>6, <1>7

(* What the recorders keep, all together.                                   *)
ReadInv == TraceInv /\ EventsInv /\ NamesInv

(* A file is opened, or a rotation begins before one is.                    *)
LEMMA StartsAndReopens ==
  ASSUME ReadInv, TraceInv', NEW p \in Processes, Trace!Start(p) \/ Trace!Reopen(p)
  PROVE  EventsInv' /\ NamesInv'
<1>1. TraceTypes /\ EventsInv /\ NamesInv /\ NewFiles'
  BY DEF ReadInv, TraceInv
<1>2. UNCHANGED <<content, written>>
  BY DEF Trace!Start, Trace!Reopen
<1>3. CASE Trace!OpenLive(p) /\ UNCHANGED raced
  <2>1. /\ NamesInv' /\ files' \in Nat /\ files <= files'
        /\ fh' = [fh EXCEPT ![p] = files']
    BY <1>1, <1>3, NamesOpen
  <2>2. \A q \in Processes : fh'[q] \in {fh[q], Trace!NoFile, files'}
    <3>1. fh \in [Processes -> 0..files]
      BY <1>1 DEF TraceTypes
    <3> QED
      BY <2>1, <3>1
  <2> QED
    BY <1>1, <1>2, <2>1, <2>2, EventsStay
<1>4. CASE Trace!BeginRotation(p) /\ UNCHANGED <<name, files>>
  <2>1. NamesInv' /\ \A q \in Processes : fh'[q] \in {fh[q], Trace!NoFile}
    BY <1>1, <1>4, RotationStarts
  <2>2. files' \in Nat /\ files <= files'
    BY <1>1, <1>4, FilesAreFew
  <2>3. \A q \in Processes : fh'[q] \in {fh[q], Trace!NoFile, files'}
    BY <2>1
  <2> QED
    BY <1>1, <1>2, <2>1, <2>2, <2>3, EventsStay
<1> QED
  BY <1>3, <1>4 DEF Trace!Start, Trace!Reopen

(* An event is written.                                                     *)
LEMMA EventsAreKept ==
  ASSUME ReadInv, NEW p \in Processes, Trace!Event(p)
  PROVE  EventsInv' /\ NamesInv'
<1>1. TraceTypes /\ OpenFiles /\ EventsInv /\ NamesInv
  BY DEF ReadInv, TraceInv
<1>2. PICK n \in Nat : n = files
  BY <1>1, FilesAreFew
<1>3. PICK f \in 1..n : f = fh[p]
  <2>1. at[p] = Trace!Open
    BY DEF Trace!Event
  <2>2. fh[p] # Trace!NoFile /\ fh[p] \in 0..n
    BY <1>1, <1>2, <2>1 DEF OpenFiles, TraceTypes
  <2> QED
    BY <2>2 DEF Trace!NoFile
<1>4. PICK len \in Nat, cap \in Nat : len = Len(written) /\ cap = MaxEvents
  <2>1. written \in Seq(Trace!TraceEvent)
    BY <1>1 DEF TraceTypes
  <2>2. MaxEvents \in Nat
    BY HomeAssumption
  <2> QED
    BY <2>1, <2>2, LenProperties
<1>5. PICK e : e = [session |-> p, number |-> len + 1]
  OBVIOUS
<1>6. e \in Trace!TraceEvent /\ e.session = p /\ e.number = Len(written) + 1
  <2>1. len < cap
    BY <1>4 DEF Trace!Event
  <2>2. len + 1 \in 1..MaxEvents
    BY <1>4, <2>1
  <2> QED
    BY <1>4, <1>5, <2>2 DEF Trace!TraceEvent
<1>7. /\ content' = [content EXCEPT ![f] = Append(content[f], e)]
      /\ written' = Append(written, e) /\ UNCHANGED <<name, files>>
  BY <1>3, <1>4, <1>5 DEF Trace!Event
<1>8. CASE Trace!BeginRotation(p)
  <2>1. NamesInv' /\ \A q \in Processes : fh'[q] \in {fh[q], Trace!NoFile}
    BY <1>1, <1>7, <1>8, RotationStarts
  <2>2. EventsInv'
    BY <1>1, <1>2, <1>3, <1>6, <1>7, <2>1, EventsGrow
  <2> QED
    BY <2>1, <2>2
<1>9. CASE UNCHANGED <<at, fh, raced>>
  <2>1. \A q \in Processes : fh'[q] \in {fh[q], Trace!NoFile}
    BY <1>9
  <2>2. EventsInv'
    BY <1>1, <1>2, <1>3, <1>6, <1>7, <2>1, EventsGrow
  <2>3. \A q \in Processes : Trace!Rotating(q)' => Trace!Rotating(q) /\ at'[q] = at[q]
    BY <1>9 DEF Trace!Rotating
  <2>4. NamesInv'
    BY <1>1, <1>7, <1>9, <2>3, NamesStay
  <2> QED
    BY <2>2, <2>4
<1> QED
  BY <1>8, <1>9 DEF Trace!Event

(* A rotation goes on.                                                      *)
LEMMA RotationsShift ==
  ASSUME ReadInv, TraceInv', NEW p \in Processes, Trace!RotateStep(p)
  PROVE  EventsInv' /\ NamesInv'
<1>1. TraceInv /\ TraceTypes /\ EventsInv /\ NamesInv /\ NewFiles'
  BY DEF ReadInv, TraceInv
<1>2. PICK k \in 0..Keep :
        /\ k = at[p].gen /\ Trace!Rotating(p)
        /\ name' = (IF k = Keep THEN Trace!Removed(k) ELSE Trace!Renamed(k))
        /\ at' = [at EXCEPT ![p] = Trace!Shift(k - 1)]
        /\ raced' = (raced \/ {k, k + 1} \cap held # {})
        /\ UNCHANGED <<content, files, fh, written>>
  <2>1. Trace!Rotating(p) /\ at[p].gen >= 0
    BY DEF Trace!RotateStep
  <2>2. at[p].gen \in -1..Keep
    BY <1>1, <2>1, RotatingAt
  <2>3. at[p].gen \in 0..Keep
    BY <2>1, <2>2
  <2> QED
    BY <2>1, <2>3 DEF Trace!RotateStep
<1>3. NamesInv'
  BY <1>1, <1>2, NamesShift
<1>4. files' \in Nat /\ files <= files'
  BY <1>1, <1>2, FilesAreFew
<1>5. \A q \in Processes : fh'[q] \in {fh[q], Trace!NoFile, files'}
  BY <1>2
<1>6. EventsInv'
  BY <1>1, <1>2, <1>4, <1>5, EventsStay
<1> QED
  BY <1>3, <1>6

(* A process stops; a file is held, and let go.                             *)
LEMMA StopsAndHoldsToo ==
  ASSUME ReadInv, TraceInv',
         \/ \E p \in Processes : Trace!Stop(p)
         \/ \E k \in Trace!Generations : Trace!Hold(k) \/ Trace!Release(k)
  PROVE  EventsInv' /\ NamesInv'
<1>1. TraceTypes /\ EventsInv /\ NamesInv /\ NewFiles'
  BY DEF ReadInv, TraceInv
<1>2. UNCHANGED <<name, content, files, written, raced>>
  BY DEF Trace!Stop, Trace!Hold, Trace!Release
<1>3. files' \in Nat /\ files <= files'
  BY <1>1, <1>2, FilesAreFew
<1>4. CASE \E p \in Processes : Trace!Stop(p)
  <2>1. PICK p \in Processes : /\ at' = [at EXCEPT ![p] = Trace!Down]
                               /\ fh' = [fh EXCEPT ![p] = Trace!NoFile]
    BY <1>4 DEF Trace!Stop
  <2>2. at \in [Processes -> Steps] /\ fh \in [Processes -> 0..files]
    BY <1>1 DEF TraceTypes
  <2>3. ASSUME NEW q \in Processes, Trace!Rotating(q)' PROVE Trace!Rotating(q) /\ at'[q] = at[q]
    <3>1. at'[q].step = "rotate"
      BY <2>3 DEF Trace!Rotating
    <3>2. q # p
      BY <2>1, <2>2, <3>1, StepsDiffer
    <3>3. at'[q] = at[q]
      BY <2>1, <2>2, <3>2
    <3> QED
      BY <3>1, <3>3 DEF Trace!Rotating
  <2>4. NamesInv'
    BY <1>1, <1>2, <2>3, NamesStay
  <2>5. \A q \in Processes : fh'[q] \in {fh[q], Trace!NoFile, files'}
    BY <2>1, <2>2
  <2>6. EventsInv'
    BY <1>1, <1>2, <1>3, <2>5, EventsStay
  <2> QED
    BY <2>4, <2>6
<1>5. CASE \E k \in Trace!Generations : Trace!Hold(k) \/ Trace!Release(k)
  <2>1. UNCHANGED <<at, fh>>
    BY <1>5 DEF Trace!Hold, Trace!Release
  <2>2. \A q \in Processes : Trace!Rotating(q)' => Trace!Rotating(q) /\ at'[q] = at[q]
    BY <2>1 DEF Trace!Rotating
  <2>3. NamesInv'
    BY <1>1, <1>2, <2>2, NamesStay
  <2>4. EventsInv'
    BY <1>1, <1>2, <1>3, <2>1, EventsStay
  <2> QED
    BY <2>3, <2>4
<1> QED
  BY <1>4, <1>5

(* Every step of the recorders keeps it, and they begin in it.              *)
LEMMA ReadStep ==
  ASSUME ReadInv, Trace!Next
  PROVE  ReadInv'
<1>1. TraceInv'
  BY TraceStep DEF ReadInv
<1>2. CASE \E p \in Processes : Trace!Start(p) \/ Trace!Reopen(p)
  BY <1>1, <1>2, StartsAndReopens DEF ReadInv
<1>3. CASE \E p \in Processes : Trace!Event(p)
  BY <1>1, <1>3, EventsAreKept DEF ReadInv
<1>4. CASE \E p \in Processes : Trace!RotateStep(p)
  BY <1>1, <1>4, RotationsShift DEF ReadInv
<1>5. CASE \E p \in Processes : Trace!Stop(p)
  BY <1>1, <1>5, StopsAndHoldsToo DEF ReadInv
<1>6. CASE \E k \in Trace!Generations : Trace!Hold(k) \/ Trace!Release(k)
  BY <1>1, <1>6, StopsAndHoldsToo DEF ReadInv
<1> QED
  BY <1>2, <1>3, <1>4, <1>5, <1>6 DEF Trace!Next

(* Where the recorders rest, nothing changes.                               *)
LEMMA ReadRestsStep ==
  ASSUME ReadInv, UNCHANGED recVars
  PROVE  ReadInv'
<1>1. /\ name' = name /\ content' = content /\ files' = files /\ at' = at /\ fh' = fh
      /\ written' = written /\ raced' = raced
  BY DEF recVars
<1>2. TraceInv' /\ TraceTypes /\ EventsInv /\ NamesInv
  BY TraceRestsStep DEF ReadInv, TraceInv
<1>3. EventsInv'
  <2>1. NewFiles' /\ files' \in Nat /\ files <= files'
    BY <1>1, <1>2, FilesAreFew DEF TraceInv
  <2>2. \A q \in Processes : fh'[q] \in {fh[q], Trace!NoFile, files'}
    BY <1>1
  <2> QED
    BY <1>1, <1>2, <2>1, <2>2, EventsStay
<1>4. NamesInv'
  <2>1. \A q \in Processes : Trace!Rotating(q)' => Trace!Rotating(q) /\ at'[q] = at[q]
    BY <1>1 DEF Trace!Rotating
  <2> QED
    BY <1>1, <1>2, <2>1, NamesStay
<1> QED
  BY <1>2, <1>3, <1>4 DEF ReadInv

(* No event, and no file.                                                   *)
LEMMA ReadBegins ==
  ASSUME Trace!Init PROVE ReadInv
<1>1. TraceInv
  BY TraceBegins
<1>2. /\ \A i \in 1..MaxFiles : content[i] = <<>>
      /\ written = <<>> /\ files = 0 /\ \A p \in Processes : fh[p] = Trace!NoFile
      /\ \A k \in Trace!Generations : name[k] = Trace!NoFile
  BY DEF Trace!Init
<1>3. \A i \in 1..Len(<<>>) : FALSE
  OBVIOUS
<1>4. FilesRise
  BY <1>2, <1>3 DEF FilesRise, Rises
<1>5. SessionsRise
  BY <1>2, <1>3 DEF SessionsRise
<1>6. FilesWritten
  BY <1>2, <1>3 DEF FilesWritten
<1>7. AllKept
  BY <1>2, <1>3 DEF AllKept
<1>8. OpenIsLatest
  BY <1>2 DEF OpenIsLatest
<1>9. LiveIsLast
  <2>1. 0 \in Trace!Generations
    <3>1. Keep \in Nat
      BY HomeAssumption
    <3> QED
      BY <3>1 DEF Trace!Generations
  <2> QED
    BY <1>2, <2>1 DEF LiveIsLast
<1>10. NamesDescend
  BY <1>2 DEF NamesDescend
<1>11. NoneBetween
  BY <1>2 DEF NoneBetween
<1>12. NextIsFree
  <2>1. \A p \in Processes : ~Trace!Rotating(p)
    BY StepsDiffer DEF Trace!Init, Trace!Rotating
  <2> QED
    BY <2>1 DEF NextIsFree
<1> QED
  BY <1>1, <1>4, <1>5, <1>6, <1>7, <1>8, <1>9, <1>10, <1>11, <1>12
     DEF ReadInv, EventsInv, NamesInv

(* What is read back, then, is the end of what was written.                 *)
LEMMA ReadInvHolds ==
  ASSUME ReadInv PROVE Trace!SessionReadsItsTail
<1>1. TraceTypes /\ EventsInv /\ NamesDescend /\ (~raced => NoneBetween)
  BY DEF ReadInv, TraceInv, NamesInv
<1>2. FilesRise /\ SessionsRise
  BY <1>1 DEF EventsInv
<1>3. PICK cap \in Nat : cap = MaxEvents
  BY HomeAssumption
<1>4. SUFFICES ASSUME NEW p \in Processes, NEW n \in 0..cap,
                      NEW all, all = Trace!ReadEvents({p}, MaxEvents)
               PROVE  /\ Trace!ReadEvents({p}, n) = Trace!Newest(all, n)
                      /\ \A i, j \in DOMAIN all : i < j => all[i].number < all[j].number
                      /\ ~raced => Trace!IsSuffix(all, Trace!Of(written, {p}))
  BY <1>3 DEF Trace!SessionReadsItsTail
<1>5. n \in Nat /\ n <= cap
  OBVIOUS
<1>6. PICK x : /\ Whole(x, Keep, p) /\ all = Trace!Newest(x, cap)
               /\ Trace!ReadEvents({p}, n) = Trace!Newest(x, n)
  BY <1>1, <1>2, <1>3, <1>4, <1>5, ReadsTheNewest
<1>7. x \in Seq(Trace!TraceEvent) /\ Rises(x)
  BY <1>6 DEF Whole
<1>8. all \in Seq(Trace!TraceEvent) /\ IsEnd(all, x)
  BY <1>6, <1>7, NewestProperties
<1>9. Trace!ReadEvents({p}, n) = Trace!Newest(all, n)
  BY <1>5, <1>6, <1>7, NewestOfNewest
<1>10. ASSUME NEW i \in DOMAIN all, NEW j \in DOMAIN all, i < j
       PROVE  all[i].number < all[j].number
  <2>1. PICK a \in Nat, b \in Nat : a = Len(all) /\ b = Len(x) /\ a <= b
    BY <1>7, <1>8, LenProperties DEF IsEnd
  <2>2. i \in 1..a /\ j \in 1..a
    BY <1>8, <2>1, LenProperties
  <2>3. PICK c \in Nat, d \in Nat : c = a - i /\ d = a - j /\ c < a /\ d < a /\ d < c
    BY <1>10, <2>2
  <2>4. all[a - c] = x[b - c] /\ all[a - d] = x[b - d]
    BY <1>8, <2>1, <2>3 DEF IsEnd
  <2>5. a - c = i /\ a - d = j /\ b - c \in 1..b /\ b - d \in 1..b /\ b - c < b - d
    BY <2>1, <2>2, <2>3
  <2>6. x[b - c].number < x[b - d].number
    BY <1>7, <2>1, <2>5 DEF Rises
  <2> QED
    BY <2>4, <2>5, <2>6
<1>11. ASSUME ~raced PROVE Trace!IsSuffix(all, Trace!Of(written, {p}))
  <2>1. IsEnd(x, Trace!Of(written, {p})) /\ Trace!Of(written, {p}) \in Seq(Trace!TraceEvent)
    BY <1>1, <1>6, <1>11, WholeIsTheEnd
  <2>2. IsEnd(all, Trace!Of(written, {p}))
    BY <1>7, <1>8, <2>1, EndsTransitive
  <2> QED
    BY <1>8, <2>1, <2>2, EndsIsSuffix
<1> QED
  BY <1>9, <1>10, <1>11

-----------------------------------------------------------------------------
(* Whatever is asked for, "trace show" of a session shows its last events   *)
(* in order, and as long as no two rotations overlapped and none found a    *)
(* file held, none is missing between two of them; and the files are capped *)
(* (recorder.py).                                                           *)
THEOREM TraceIsReadBack == Spec => []TraceReadsBack
<1> DEFINE Inv == focus = "trace" => ReadInv
<1>1. Init => Inv
  BY ReadBegins DEF Init
<1>2. Inv /\ [Next]_allVars => Inv'
  <2> SUFFICES ASSUME Inv, [Next]_allVars, focus' = "trace" PROVE ReadInv'
    OBVIOUS
  <2>1. focus = "trace" /\ (Trace!Next \/ UNCHANGED recVars)
    BY DEF Next, TraceSteps, HistorySteps, ConfigSteps, StoreSteps, allVars
  <2> QED
    BY <2>1, ReadStep, ReadRestsStep
<1>3. Inv => TraceReadsBack
  BY ReadInvHolds, TraceInvHolds DEF ReadInv, TraceReadsBack
<1> HIDE DEF Inv
<1> QED
  BY <1>1, <1>2, <1>3, PTL DEF Spec, allVars

-----------------------------------------------------------------------------
(* The component that has the focus keeps its invariant.                    *)
HomeInv ==
  /\ focus \in {"trace", "history", "config", "store"}
  /\ focus = "trace" => TraceInv
  /\ focus = "history" => HistoryInv
  /\ focus = "config" => ConfigInv
  /\ focus = "store" => StoreInv

(* Each of the four that share the home directory stays in its types.       *)
THEOREM HomeTypeCorrect == Spec => []TypeOK
<1>1. Init => HomeInv
  BY TraceBegins, HistoryBegins, ConfigInvInit, StoreInvInit DEF Init, HomeInv
<1>2. HomeInv /\ [Next]_allVars => HomeInv'
  <2> SUFFICES ASSUME HomeInv, [Next]_allVars PROVE HomeInv'
    OBVIOUS
  <2>1. focus' = focus
    BY DEF Next, TraceSteps, HistorySteps, ConfigSteps, StoreSteps, allVars
  <2>2. ASSUME focus = "trace" PROVE TraceInv'
    <3>1. Trace!Next \/ UNCHANGED recVars
      BY <2>2 DEF Next, TraceSteps, HistorySteps, ConfigSteps, StoreSteps, allVars
    <3> QED
      BY <2>2, <3>1, TraceStep, TraceRestsStep DEF HomeInv
  <2>3. ASSUME focus = "history" PROVE HistoryInv'
    BY <2>1, <2>3, HistoryRestsStep DEF HomeInv
  <2>4. ASSUME focus = "config" PROVE ConfigInv'
    <3>1. Config!Next \/ UNCHANGED cfgVars
      BY <2>4 DEF Next, TraceSteps, HistorySteps, ConfigSteps, StoreSteps, allVars
    <3> QED
      BY <2>4, <3>1, ConfigStep, ConfigRestsStep DEF HomeInv
  <2>5. ASSUME focus = "store" PROVE StoreInv'
    <3>1. Memory!Next \/ UNCHANGED storeVars
      BY <2>5 DEF Next, TraceSteps, HistorySteps, ConfigSteps, StoreSteps, allVars
    <3> QED
      BY <2>5, <3>1, StoreStep, StoreRestsStep DEF HomeInv
  <2> QED
    BY <2>1, <2>2, <2>3, <2>4, <2>5 DEF HomeInv
<1>3. HomeInv => TypeOK
  BY TraceInvHolds, HistoryInvHolds, ConfigInvHolds, StoreInvHolds DEF HomeInv, TypeOK
<1> QED
  BY <1>1, <1>2, <1>3, PTL DEF Spec, allVars

=============================================================================

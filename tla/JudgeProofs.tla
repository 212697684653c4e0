----------------------------- MODULE JudgeProofs -----------------------------
(***************************************************************************)
(* The judge keeps its promises for any number of submissions, faults and  *)
(* holds.  First facts about Timeline: the chain of defenders is well      *)
(* defined, and a finalized timeline is final.                             *)
(*                                                                         *)
(* The last part is about one duel (MultiStage): when the two miners       *)
(* change places every stage comes to the opposite verdict, whatever the   *)
(* model answers and whichever of its calls fail.                          *)
(***************************************************************************)
EXTENDS Judge, MultiStage, WellFoundedInduction, FiniteSetTheorems, SequenceTheorems, TLAPS

\* Nat is well ordered: the form of induction used below.
LEMMA Least ==
  ASSUME NEW T \in SUBSET Nat, T # {}
  PROVE \E x \in T : \A y \in T : x <= y
<1> DEFINE R == {p \in Nat \X Nat : p[1] < p[2]}
<1>1. IsWellFoundedOn(R, Nat)
  BY NatLessThanWellFounded DEF OpToRel
<1>2. PICK x \in T : \A y \in T : ~ (<<y, x>> \in R)
  <2> HIDE DEF R
  <2> QED BY <1>1, WFMin
<1>3. \A y \in T : ~(y < x)
  BY <1>2
<1> QED BY <1>2, <1>3

\* Timeline.derive's loop over the hotkeys (timeline.py:96-154) defines the
\* defender after each of them.
LEMMA DefenderDef ==
  ASSUME NEW e
  PROVE Defender(e) = [i \in Players |->
          IF i = 0 THEN Leader
          ELSE IF Beats(e, Defender(e)[i - 1], i) THEN i ELSE Defender(e)[i - 1]]
<1> DEFINE Holds(g, n) == g = [i \in 0 .. n |-> IF i = 0 THEN Leader
                                 ELSE IF Beats(e, g[i - 1], i) THEN i ELSE g[i - 1]]
<1> DEFINE Bad == {n \in Nat : ~ \E g : Holds(g, n)}
<1>1. SUFFICES \E g : Holds(g, N)
  BY NAssumption DEF Defender, Players
<1>2. SUFFICES ASSUME Bad # {} PROVE FALSE
  BY NAssumption
<1>3. PICK m \in Bad : \A n \in Bad : m <= n
  BY <1>2, Least
<1>4. m # 0
  <2> DEFINE z == [i \in 0 .. 0 |-> Leader]
  <2>1. Holds(z, 0)
    BY DEF Leader
  <2> QED BY <2>1
<1>5. PICK g : Holds(g, m - 1)
  <2>1. m - 1 \in Nat /\ m - 1 \notin Bad
    <3> HIDE DEF Bad
    <3>1. m \in Nat
      BY DEF Bad
    <3> QED BY <3>1, <1>3, <1>4
  <2> QED BY <2>1
<1> DEFINE last == IF Beats(e, g[m - 1], m) THEN m ELSE g[m - 1]
<1> DEFINE h == [i \in 0 .. m |-> IF i = m THEN last ELSE g[i]]
<1>6. Holds(h, m)
  <2>1. m \in Nat /\ m - 1 \in Nat
    BY <1>4
  <2>2. \A i \in 0 .. m : i # 0 => h[i - 1] = g[i - 1]
    BY <2>1
  <2>3. \A i \in 0 .. m - 1 : g[i] = IF i = 0 THEN Leader
                                     ELSE IF Beats(e, g[i - 1], i) THEN i ELSE g[i - 1]
    <3> HIDE DEF h, last
    <3> QED BY <1>5
  <2>4. ASSUME NEW i \in 0 .. m
        PROVE h[i] = IF i = 0 THEN Leader
                     ELSE IF Beats(e, h[i - 1], i) THEN i ELSE h[i - 1]
    <3>1. CASE i = m
      BY <3>1, <2>1, <2>2, <1>4
    <3>2. CASE i # m
      <4>1. h[i] = g[i] /\ i \in 0 .. m - 1
        BY <3>2, <2>1
      <4>2. i # 0 => h[i - 1] = g[i - 1]
        BY <2>2
      <4> HIDE DEF h, last
      <4> QED BY <4>1, <4>2, <2>3
    <3> QED BY <3>1, <3>2
  <2>5. h = [i \in 0 .. m |-> h[i]]
    OBVIOUS
  <2> HIDE DEF h
  <2> QED BY <2>4, <2>5
<1> QED BY <1>6

LEMMA DefenderStep ==
  ASSUME NEW e, NEW i \in Hotkeys
  PROVE /\ Defender(e)[0] = Leader
        /\ Defender(e)[i] = IF Beats(e, Defender(e)[i - 1], i) THEN i ELSE Defender(e)[i - 1]
<1> DEFINE d == Defender(e)
<1>1. d = [j \in Players |-> IF j = 0 THEN Leader
                             ELSE IF Beats(e, d[j - 1], j) THEN j ELSE d[j - 1]]
  BY DefenderDef
<1> HIDE DEF d
<1>2. 0 \in Players /\ i \in Players /\ i # 0
  BY NAssumption DEF Players, Hotkeys
<1>3. d[0] = Leader
  BY <1>1, <1>2
<1>4. d[i] = IF Beats(e, d[i - 1], i) THEN i ELSE d[i - 1]
  BY <1>1, <1>2
<1> QED BY <1>3, <1>4 DEF d

\* A defender is the leader or an earlier hotkey.
LEMMA DefenderType ==
  ASSUME NEW e
  PROVE \A i \in Players : Defender(e)[i] \in 0 .. i
<1> DEFINE Bad == {i \in Players : Defender(e)[i] \notin 0 .. i}
<1>1. SUFFICES ASSUME Bad # {} PROVE FALSE
  OBVIOUS
<1>2. Bad \in SUBSET Nat
  BY NAssumption DEF Players
<1>3. PICK i \in Bad : \A j \in Bad : i <= j
  BY <1>1, <1>2, Least
<1>4. i \in Players /\ i \in Nat
  BY <1>2
<1>5. i # 0
  BY DefenderDef, <1>4 DEF Leader
<1>6. i \in Hotkeys /\ i - 1 \in Players
  BY <1>4, <1>5, NAssumption DEF Hotkeys, Players
<1>7. i - 1 \notin Bad
  <2> HIDE DEF Bad
  <2> QED BY <1>3, <1>4
<1>8. Defender(e)[i - 1] \in 0 .. i - 1
  BY <1>6, <1>7
<1>9. Defender(e)[i] = i \/ Defender(e)[i] = Defender(e)[i - 1]
  BY <1>6, DefenderStep
<1> QED BY <1>4, <1>8, <1>9

\* The cell that decides an entry is a match with an earlier player.
LEMMA DuelIsPair ==
  ASSUME NEW e, NEW i \in Hotkeys
  PROVE <<Defender(e)[i - 1], i>> \in Pairs /\ <<Leader, i>> \in Pairs
<1>1. i - 1 \in Players /\ i \in Nat /\ i > 0
  BY NAssumption DEF Hotkeys, Players
<1>2. Defender(e)[i - 1] \in 0 .. i - 1
  BY <1>1, DefenderType
<1> QED BY <1>1, <1>2, NAssumption DEF Pairs, Players, Hotkeys, Leader

\* A hotkey that holds the throne has won a match for it.
LEMMA HolderWon ==
  ASSUME NEW e, NEW n \in Players, Defender(e)[n] # Leader
  PROVE \E d : <<d, Defender(e)[n]>> \in Pairs /\ e.matrix[<<d, Defender(e)[n]>>] = "reached"
<1> DEFINE Fair(i) == \E d : /\ <<d, Defender(e)[i]>> \in Pairs
                             /\ e.matrix[<<d, Defender(e)[i]>>] = "reached"
<1> DEFINE Bad == {i \in Players : Defender(e)[i] # Leader /\ ~Fair(i)}
<1>1. SUFFICES ASSUME Bad # {} PROVE FALSE
  OBVIOUS
<1>2. Bad \in SUBSET Nat
  BY NAssumption DEF Players
<1>3. PICK i \in Bad : \A j \in Bad : i <= j
  BY <1>1, <1>2, Least
<1>4. i \in Players /\ i \in Nat /\ Defender(e)[i] # Leader /\ ~Fair(i)
  BY <1>2
<1>5. i # 0
  BY DefenderDef, <1>4 DEF Leader
<1>6. i \in Hotkeys /\ i - 1 \in Players
  BY <1>4, <1>5, NAssumption DEF Hotkeys, Players
<1>7. i - 1 \notin Bad
  <2> HIDE DEF Bad
  <2> QED BY <1>3, <1>4
<1>8. CASE Beats(e, Defender(e)[i - 1], i)
  <2>1. Defender(e)[i] = i
    BY <1>6, <1>8, DefenderStep
  <2>2. Fair(i)
    BY <1>6, <1>8, <2>1, DuelIsPair DEF Beats
  <2> QED BY <1>4, <2>2
<1>9. CASE ~Beats(e, Defender(e)[i - 1], i)
  <2>1. Defender(e)[i] = Defender(e)[i - 1]
    BY <1>6, <1>9, DefenderStep
  <2> QED BY <1>4, <1>6, <1>7, <2>1
<1> QED BY <1>8, <1>9

\* What a step of growing evidence keeps of one hotkey of a conclusive
\* timeline, when both timelines have the same defender before it.
LEMMA EntryStands ==
  ASSUME NEW e, NEW f, NEW i \in Hotkeys,
         IsEvidence(e), IsEvidence(f), Extends(e, f),
         Settled(e), IsFinalized(e),
         Defender(e)[i - 1] = Defender(f)[i - 1]
  PROVE /\ Won(f, i) <=> Won(e, i)
        /\ ~Pending(f, i)
        /\ Won(e, i) => Passed(e, i) /\ Passed(f, i)
        /\ Defender(e)[i] = Defender(f)[i]
<1> DEFINE d == Defender(e)[i - 1]
<1>1. <<d, i>> \in Pairs /\ <<Leader, i>> \in Pairs
  BY DuelIsPair
<1> HIDE DEF d
<1>2. /\ \A p \in Pairs : e.matrix[p] # "none" => f.matrix[p] = e.matrix[p]
      /\ \A j \in Hotkeys : e.validation[j] # "none" => f.validation[j] = e.validation[j]
      /\ \A j \in Hotkeys : e.audit[j] # "none" => f.audit[j] = e.audit[j]
  BY DEF Extends, Grows, IsEvidence
<1>3. /\ e.matrix[<<d, i>>] \in Margins /\ e.matrix[<<Leader, i>>] \in Margins
      /\ e.validation[i] \in Verdicts /\ e.audit[i] \in Verdicts
  BY <1>1 DEF IsEvidence
<1>4. DuelMargin(e, i) = e.matrix[<<d, i>>] /\ DuelMargin(f, i) = f.matrix[<<d, i>>]
  BY DEF DuelMargin, d
<1>5. Won(e, i) => Passed(e, i)
  BY DEF IsFinalized, Verified, Hotkeys
<1>6. Rejected(e, i) => Rejected(f, i)
  BY <1>2 DEF Rejected
<1>7. Qualified(f, i) => Qualified(e, i) \/ Rejected(f, i)
  BY <1>1, <1>2, <1>6 DEF Settled, Qualified
<1>8. Won(e, i) => Won(f, i) /\ Passed(f, i)
  BY <1>1, <1>2, <1>4, <1>5 DEF Won, Candidate, Qualified, Rejected, Passed
<1>9. ~Pending(e, i)
  BY DEF IsFinalized
<1>10. Candidate(f, i) => Candidate(e, i)
  BY <1>6, <1>7 DEF Candidate
<1>11. ~Pending(f, i) /\ (Won(f, i) => Won(e, i))
  BY <1>1, <1>2, <1>3, <1>4, <1>9, <1>10 DEF Pending, Won, Margins
<1>12. \A g \in {e, f} : Defender(g)[i] = IF Won(g, i) THEN i ELSE d
  BY DefenderStep DEF Won, Beats, DuelMargin, d
<1> QED BY <1>5, <1>8, <1>11, <1>12

\* A finalized timeline in which nobody is left out is final: whatever
\* matches and verdicts come later, it stays finalized with the same winner.
\* This is what lets the judge stop at the first one (round_runner.py:173-175).
THEOREM FinalIsFinal ==
  ASSUME NEW e, NEW f, IsEvidence(e), IsEvidence(f), Extends(e, f),
         Settled(e), IsFinalized(e)
  PROVE Settled(f) /\ IsFinalized(f) /\ Winner(f) = Winner(e)
<1>1. \A i \in Players : Defender(e)[i] = Defender(f)[i]
  <2> DEFINE Bad == {i \in Players : Defender(e)[i] # Defender(f)[i]}
  <2>1. SUFFICES ASSUME Bad # {} PROVE FALSE
    OBVIOUS
  <2>2. Bad \in SUBSET Nat
    BY NAssumption DEF Players
  <2>3. PICK i \in Bad : \A j \in Bad : i <= j
    BY <2>1, <2>2, Least
  <2>4. i \in Players /\ i \in Nat
    BY <2>2
  <2>5. i # 0
    <3>1. Defender(e)[0] = Leader /\ Defender(f)[0] = Leader
      BY DefenderDef, NAssumption DEF Players
    <3> QED BY <3>1
  <2>6. i \in Hotkeys /\ i - 1 \in Players
    BY <2>4, <2>5, NAssumption DEF Hotkeys, Players
  <2>7. i - 1 \notin Bad
    <3> HIDE DEF Bad
    <3> QED BY <2>3, <2>4
  <2> QED BY <2>6, <2>7, EntryStands
<1>2. \A i \in Hotkeys : i - 1 \in Players
  BY NAssumption DEF Hotkeys, Players
<1>3. \A i \in Hotkeys : ~Pending(f, i) /\ (Won(f, i) => Passed(f, i))
  BY <1>1, <1>2, EntryStands
<1>4. \A i \in Hotkeys : \A j \in 1 .. i : j \in Hotkeys
  BY NAssumption DEF Hotkeys
<1>5. IsFinalized(f)
  BY <1>3, <1>4 DEF IsFinalized, Verified
<1>6. Settled(f)
  <2>1. SUFFICES ASSUME NEW i \in Hotkeys
                 PROVE f.matrix[<<Leader, i>>] # "none" \/ Rejected(f, i)
    BY DEF Settled
  <2>2. <<Leader, i>> \in Pairs
    BY DuelIsPair
  <2>3. e.matrix[<<Leader, i>>] # "none" => f.matrix[<<Leader, i>>] = e.matrix[<<Leader, i>>]
    BY <2>2 DEF Extends, Grows, IsEvidence
  <2>4. Rejected(e, i) => Rejected(f, i)
    BY DEF Rejected, Extends, Grows, IsEvidence
  <2> QED BY <2>3, <2>4 DEF Settled
<1>7. Winner(f) = Winner(e)
  BY <1>1, NAssumption DEF Winner, Players
<1> QED BY <1>5, <1>6, <1>7

-----------------------------------------------------------------------------
(* The judge's invariant.                                                  *)

Active == pc # "idle"

\* No partial margin survives anywhere.
Whole == /\ repo.matrix \in [Pairs -> Margins] /\ repo.reports \in [Pairs -> Margins]
         /\ mem.matrix \in [Pairs -> Margins] /\ mem.reports \in [Pairs -> Margins]
         /\ margin \in Margins

\* A file that is not queued is on the branch as the runner knows it.
Queue == IF Active
         THEN /\ "matrix" \notin pending => mem.matrix = repo.matrix
              /\ "reports" \notin pending => mem.reports = repo.reports
              /\ "requests" \notin pending => mem.requests = repo.requests
              /\ "winner" \notin pending => mem.winner = repo.winner
              /\ "winner" \in pending => pc \in {"crowned", "entered"}
              /\ "state" \in pending => pc = "entered"
         ELSE pending = {}

\* The runner knows more matches than the branch and no more verdicts.
Ahead == /\ Active => /\ Grows(repo.matrix, mem.matrix)
                      /\ repo.requests \subseteq mem.requests
         /\ Grows(mem.validation, repo.validation)
         /\ Grows(mem.audit, repo.audit)

\* A match is played only once.
Playing == /\ pc \in {"match", "reported", "record"} => duel \in Pairs /\ mem.matrix[duel] = "none"
           /\ pc \in {"match", "reported", "record"} /\ k > 0 => k \in Hotkeys /\ duel = <<Leader, k>>
           /\ pc \in {"reported", "record"} => margin # "none"
           /\ pc \in {"reported", "record"} /\ margin = "reached" => duel[2] \in Delivered
           /\ pc = "reported" => mem.reports[duel] = margin
           /\ pc = "record" => ~({duel[1], duel[2]} \subseteq Delivered)

\* Every submission before k has met the leader or is rejected.
SettledUpTo(n) ==
  \A i \in Hotkeys : i < n => mem.matrix[<<Leader, i>>] # "none" \/ Rejected(mem, i)

Qualifies == /\ Active /\ k > 0 => stopping \/ SettledUpTo(k)
             /\ Active /\ k = 0 => pc = "stop" \/ SettledUpTo(N + 1)
             /\ k > 0 => pc \in {"reload", "read", "qualify", "match", "reported", "record"}
             /\ pc = "qualify" => k > 0

\* What is about to be committed as the winner.
Crowned == pc \in {"crowned", "entered"} => IsFinalized(mem) /\ mem.winner = Winner(mem)

Earned == /\ \A i \in repo.requests : repo.matrix[<<Leader, i>>] = "reached"
          /\ Active => \A i \in mem.requests : mem.matrix[<<Leader, i>>] = "reached"

Agree(r) == \A p \in Pairs : /\ r.matrix[p] # "none" /\ r.reports[p] # "none"
                                => r.matrix[p] = r.reports[p]
                             /\ r.reports[p] # "none" => {p[1], p[2]} \subseteq Delivered
                             /\ r.matrix[p] = "reached" => p[2] \in Delivered

\* The branch's winner follows from the branch's evidence.
Promised == /\ repo.winner # Undecided =>
                 Settled(repo) /\ IsFinalized(repo) /\ repo.winner = Winner(repo)
            /\ repo.stage = "finalizing" => repo.winner # Undecided

IInv == /\ TypeOK /\ Whole /\ Queue /\ Ahead /\ Playing /\ Qualifies
        /\ Crowned /\ Earned /\ Agree(repo) /\ Agree(mem) /\ Promised

-----------------------------------------------------------------------------
(* Facts about evidence.                                                   *)

LEMMA WinnerType ==
  ASSUME NEW e
  PROVE Winner(e) \in 0 .. N /\ Winner(e) # Undecided
<1>1. N \in Players
  BY NAssumption DEF Players
<1>2. Winner(e) \in 0 .. N
  BY <1>1, DefenderType DEF Winner
<1> QED BY <1>2, NAssumption DEF Undecided

LEMMA BlankType == Blank \in Memory
BY NAssumption DEF Blank, Memory, NoMatches, NoVerdicts, Outcomes, Margins, Verdicts, Undecided

LEMMA EvidenceTypes ==
  ASSUME TypeOK, Whole
  PROVE IsEvidence(repo) /\ IsEvidence(mem)
BY DEF TypeOK, Whole, IsEvidence, Repo, Memory

LEMMA LeaderPair ==
  ASSUME NEW i \in Hotkeys
  PROVE <<Leader, i>> \in Pairs
BY DuelIsPair

LEMMA SettledMeans ==
  SettledUpTo(N + 1) <=> Settled(mem)
BY NAssumption DEF SettledUpTo, Settled, Hotkeys

\* Two conclusive records of one round name the same winner when each knows
\* something the other does not: both extend to their union.
LEMMA SameWinner ==
  ASSUME IsEvidence(repo), IsEvidence(mem),
         Grows(repo.matrix, mem.matrix),
         Grows(mem.validation, repo.validation), Grows(mem.audit, repo.audit),
         Settled(mem), IsFinalized(mem),
         NEW r, r.matrix = mem.matrix, r.validation = repo.validation, r.audit = repo.audit
  PROVE /\ Settled(r) /\ IsFinalized(r) /\ Winner(r) = Winner(mem)
        /\ Settled(repo) /\ IsFinalized(repo) => Winner(repo) = Winner(mem)
<1>1. IsEvidence(r)
  BY DEF IsEvidence
<1>2. Extends(mem, r) /\ Extends(repo, r)
  BY DEF Extends, Grows
<1>3. Settled(r) /\ IsFinalized(r) /\ Winner(r) = Winner(mem)
  BY <1>1, <1>2, FinalIsFinal
<1>4. Settled(repo) /\ IsFinalized(repo) => Winner(r) = Winner(repo)
  BY <1>1, <1>2, FinalIsFinal
<1> QED BY <1>3, <1>4

-----------------------------------------------------------------------------
(* What a commit of the judge puts on the branch.                          *)

LEMMA OverlayFields ==
  ASSUME IInv, Active
  PROVE /\ Overlay.matrix = mem.matrix /\ Overlay.reports = mem.reports
        /\ Overlay.requests = mem.requests /\ Overlay.winner = mem.winner
        /\ Overlay.validation = repo.validation /\ Overlay.audit = repo.audit
        /\ Overlay.baseline = repo.baseline
        /\ Overlay.stage = IF "state" \in pending THEN NextStage ELSE repo.stage
        /\ Overlay \in Repo
<1>1. repo \in Repo /\ mem \in Memory
  BY DEF IInv, TypeOK
<1>2. NextStage \in Stages
  BY DEF NextStage, Stages
<1>3. /\ "matrix" \notin pending => mem.matrix = repo.matrix
      /\ "reports" \notin pending => mem.reports = repo.reports
      /\ "requests" \notin pending => mem.requests = repo.requests
      /\ "winner" \notin pending => mem.winner = repo.winner
  BY DEF IInv, Queue
<1> QED BY <1>1, <1>2, <1>3 DEF Overlay, Repo, Memory

LEMMA OverlayPromise ==
  ASSUME IInv, Active
  PROVE /\ Overlay.winner # Undecided =>
             Settled(Overlay) /\ IsFinalized(Overlay) /\ Overlay.winner = Winner(Overlay)
        /\ repo.winner # Undecided => Overlay.winner = repo.winner
        /\ Overlay.stage = "finalizing" => Overlay.winner # Undecided
        /\ Extends(repo, Overlay)
<1> DEFINE r == Overlay
<1>1. /\ r.matrix = mem.matrix /\ r.winner = mem.winner
      /\ r.validation = repo.validation /\ r.audit = repo.audit
      /\ r.stage = IF "state" \in pending THEN NextStage ELSE repo.stage
  BY OverlayFields
<1> HIDE DEF r
<1>2. IsEvidence(repo) /\ IsEvidence(mem)
  BY EvidenceTypes DEF IInv
<1>3. IsEvidence(r)
  BY <1>1, <1>2 DEF IsEvidence
<1>4. /\ Grows(repo.matrix, mem.matrix)
      /\ Grows(mem.validation, repo.validation) /\ Grows(mem.audit, repo.audit)
  BY DEF IInv, Ahead
<1>5. Extends(repo, r)
  BY <1>1, <1>4 DEF Extends, Grows
<1>6. CASE pc \in {"crowned", "entered"}
  <2>1. IsFinalized(mem) /\ mem.winner = Winner(mem)
    BY <1>6 DEF IInv, Crowned
  <2>2. Settled(mem)
    <3>1. k = 0
      BY <1>6 DEF IInv, Qualifies, TypeOK
    <3> QED BY <3>1, <1>6, SettledMeans DEF IInv, Qualifies
  <2>3. /\ Settled(r) /\ IsFinalized(r) /\ Winner(r) = Winner(mem)
        /\ Settled(repo) /\ IsFinalized(repo) => Winner(repo) = Winner(mem)
    BY <1>1, <1>2, <1>4, <2>1, <2>2, SameWinner
  <2>4. repo.winner # Undecided => Winner(repo) = Winner(mem) /\ repo.winner = Winner(repo)
    BY <2>3 DEF IInv, Promised
  <2>5. mem.winner # Undecided
    BY <2>1, WinnerType
  <2> QED BY <1>1, <1>5, <2>1, <2>3, <2>4, <2>5 DEF r
<1>7. CASE pc \notin {"crowned", "entered"}
  <2>1. r.winner = repo.winner /\ r.stage = repo.stage
    BY <1>1, <1>7 DEF IInv, Queue
  <2>2. repo.winner # Undecided => Settled(r) /\ IsFinalized(r) /\ Winner(r) = Winner(repo)
    BY <1>2, <1>3, <1>5, FinalIsFinal DEF IInv, Promised
  <2>3. repo.winner # Undecided => repo.winner = Winner(repo)
    BY DEF IInv, Promised
  <2>4. repo.stage = "finalizing" => repo.winner # Undecided
    BY DEF IInv, Promised
  <2> QED BY <1>5, <2>1, <2>2, <2>3, <2>4 DEF r
<1> QED BY <1>6, <1>7

\* The parts of IInv that speak of the branch alone.
BranchInv == repo \in Repo /\ Promised /\ Agree(repo)
             /\ repo.matrix \in [Pairs -> Margins] /\ repo.reports \in [Pairs -> Margins]
             /\ \A i \in repo.requests : repo.matrix[<<Leader, i>>] = "reached"

LEMMA CommitKeepsBranch ==
  ASSUME IInv, Active, repo' \in {repo, Overlay}
  PROVE BranchInv'
<1>1. CASE repo' = repo
  BY <1>1 DEF IInv, BranchInv, Promised, Agree, Whole, Earned, TypeOK
<1>2. CASE repo' = Overlay
  <2>1. repo' \in Repo
    BY <1>2, OverlayFields
  <2>2. repo'.matrix = mem.matrix /\ repo'.reports = mem.reports /\ repo'.requests = mem.requests
    BY <1>2, OverlayFields
  <2>3. Promised'
    BY <1>2, OverlayPromise DEF Promised
  <2>4. Agree(repo)'
    BY <2>2 DEF IInv, Agree
  <2>5. /\ repo'.matrix \in [Pairs -> Margins] /\ repo'.reports \in [Pairs -> Margins]
        /\ \A i \in repo'.requests : repo'.matrix[<<Leader, i>>] = "reached"
    BY <2>2 DEF IInv, Whole, Earned
  <2> QED BY <2>1, <2>3, <2>4, <2>5 DEF BranchInv
<1> QED BY <1>1, <1>2

\* A runner that is gone leaves nothing the branch must agree with.
LEMMA ForgetKeeps ==
  ASSUME IInv, Forget, BranchInv',
         stopping' \in BOOLEAN, faults' \in 0 .. MaxFaults, holds' \in 0 .. MaxHolds
  PROVE IInv'
<1>1. mem' = Blank /\ pending' = {} /\ stale' = FALSE /\ pc' = "idle" /\ k' = 0
      /\ duel' = NoDuel /\ margin' = "none"
  BY DEF Forget
<1>2. TypeOK'
  <2>1. mem' \in Memory /\ repo' \in Repo
    BY <1>1, BlankType DEF BranchInv
  <2>2. k' \in 0 .. N + 1
    BY <1>1, NAssumption
  <2> QED BY <1>1, <2>1, <2>2 DEF TypeOK, Points, Outcomes, Margins
<1>3. Whole'
  BY <1>1 DEF Whole, BranchInv, Blank, NoMatches, Margins
<1>4. Queue' /\ Playing' /\ Qualifies' /\ Crowned'
  BY <1>1 DEF Queue, Playing, Qualifies, Crowned, Active
<1>5. Ahead'
  BY <1>1 DEF Ahead, Active, Grows, Blank, NoVerdicts
<1>6. Earned' /\ Agree(mem)'
  BY <1>1 DEF Earned, Active, Agree, Blank, NoMatches, BranchInv
<1> QED BY <1>2, <1>3, <1>4, <1>5, <1>6 DEF IInv, BranchInv

-----------------------------------------------------------------------------
(* The steps.                                                              *)

LEMMA BranchKept ==
  ASSUME IInv, repo' = repo
  PROVE BranchInv'
BY DEF IInv, BranchInv, Promised, Agree, Whole, Earned, TypeOK

\* A step that moves the runner without touching its data.
LEMMA MoveKeeps ==
  ASSUME IInv, repo' = repo, mem' = mem, Active' = Active, margin' \in Margins
  PROVE Whole' /\ Ahead' /\ Earned' /\ Agree(repo)' /\ Agree(mem)' /\ Promised'
<1>1. Whole' /\ Ahead'
  BY DEF IInv, Whole, Ahead
<1>2. Earned' /\ Agree(repo)' /\ Agree(mem)' /\ Promised'
  BY DEF IInv, Earned, Agree, Promised
<1> QED BY <1>1, <1>2

LEMMA CommitStep ==
  ASSUME IInv, Commit
  PROVE IInv'
<1>1. /\ Active /\ repo' \in {repo, Overlay}
      /\ stopping' = stopping /\ holds' = holds /\ faults' \in 0 .. MaxFaults
      /\ \/ Forget
         \/ /\ mem' = mem /\ k' = k /\ duel' = duel /\ margin' = margin /\ stale' \in BOOLEAN
            /\ \/ pending' = pending
               \/ pending' = {} /\ repo' = Overlay
            /\ \/ pc' = pc
               \/ pc = "reload" /\ pc' = "read"
               \/ pc = "wait" /\ pc' = "waiting"
  <2>1. Active
    BY DEF IInv, Queue, Active, Commit, CommitLands, CommitConflicts, CommitFails,
           CommitReplyLost, NothingToFlush, Flushed, AfterFlush
  <2>2. pending = {} => Overlay = repo
    BY DEF Overlay, IInv, TypeOK, Repo
  <2> DEFINE Goes(queue, base) ==
         \/ Forget
         \/ /\ mem' = mem /\ k' = k /\ duel' = duel /\ margin' = margin
            /\ pending' = queue /\ stale' = base
            /\ \/ pc' = pc
               \/ pc = "reload" /\ pc' = "read"
               \/ pc = "wait" /\ pc' = "waiting"
  <2>3. \A queue, base : Flushed(queue, base) => Goes(queue, base)
    BY DEF Flushed, AfterFlush
  <2>4. \A queue, base : Attempted(queue, base) => Goes(queue, base)
    BY <2>3 DEF Attempted, Written
  <2>5. stale \in BOOLEAN /\ faults \in 0 .. MaxFaults
    BY DEF IInv, TypeOK
  <2>6. CASE CommitLands
    <3>1. /\ Goes({}, FALSE) /\ repo' = Overlay
          /\ stopping' = stopping /\ holds' = holds /\ faults' = faults
      BY <2>4, <2>6 DEF CommitLands, control
    <3> QED BY <2>1, <2>5, <3>1
  <2>7. CASE CommitConflicts
    <3>1. /\ Goes(pending, FALSE) /\ repo' = repo
          /\ stopping' = stopping /\ holds' = holds /\ faults' = faults
      BY <2>4, <2>7 DEF CommitConflicts, control
    <3> QED BY <2>1, <2>5, <3>1
  <2>8. CASE CommitFails
    <3>1. /\ Goes(pending, stale) /\ repo' = repo
          /\ stopping' = stopping /\ holds' = holds /\ faults' \in 0 .. MaxFaults
      BY <2>4, <2>5, <2>8, BoundsAssumption DEF CommitFails
    <3> QED BY <2>1, <2>5, <3>1
  <2>9. CASE CommitReplyLost
    <3>1. PICK base \in BOOLEAN : Goes(pending, base)
      BY <2>4, <2>9 DEF CommitReplyLost
    <3>2. /\ repo' = Overlay
          /\ stopping' = stopping /\ holds' = holds /\ faults' \in 0 .. MaxFaults
      BY <2>5, <2>9, BoundsAssumption DEF CommitReplyLost
    <3> QED BY <2>1, <2>5, <3>1, <3>2
  <2>10. CASE NothingToFlush
    <3>1. /\ Goes({}, stale) /\ repo' = repo /\ pending = {}
          /\ stopping' = stopping /\ holds' = holds /\ faults' = faults
      BY <2>3, <2>10 DEF NothingToFlush, control
    <3> QED BY <2>1, <2>2, <2>5, <3>1
  <2> QED BY <2>6, <2>7, <2>8, <2>9, <2>10 DEF Commit
<1>2. BranchInv'
  BY <1>1, CommitKeepsBranch
<1>3. CASE Forget
  BY <1>1, <1>2, <1>3, ForgetKeeps DEF IInv, TypeOK
<1>4. CASE ~Forget
  <2>1. /\ mem' = mem /\ k' = k /\ duel' = duel /\ margin' = margin /\ stale' \in BOOLEAN
        /\ \/ pending' = pending
           \/ pending' = {} /\ repo' = Overlay
        /\ \/ pc' = pc
           \/ pc = "reload" /\ pc' = "read"
           \/ pc = "wait" /\ pc' = "waiting"
    BY <1>1, <1>4
  <2>2. Active'
    BY <1>1, <2>1 DEF Active
  <2>3. TypeOK'
    BY <1>1, <1>2, <2>1 DEF IInv, TypeOK, BranchInv, Points
  <2>4. Whole'
    BY <1>2, <2>1 DEF IInv, Whole, BranchInv
  <2>5. /\ repo' = Overlay => /\ repo'.matrix = mem.matrix /\ repo'.reports = mem.reports
                             /\ repo'.requests = mem.requests /\ repo'.winner = mem.winner
        /\ repo'.validation = repo.validation /\ repo'.audit = repo.audit
    BY <1>1, OverlayFields
  <2>6. Queue'
    BY <1>1, <2>1, <2>2, <2>5 DEF IInv, Queue
  <2>7. Ahead'
    BY <1>1, <2>1, <2>2, <2>5 DEF IInv, Ahead, Grows
  <2>8. Playing' /\ Qualifies' /\ Crowned'
    BY <1>1, <2>1, <2>2 DEF IInv, Playing, Qualifies, Crowned, SettledUpTo
  <2>9. Earned' /\ Agree(mem)'
    BY <1>1, <1>2, <2>1, <2>2 DEF IInv, Earned, Agree, BranchInv
  <2> QED BY <1>2, <2>3, <2>4, <2>6, <2>7, <2>8, <2>9 DEF IInv, BranchInv
<1> QED BY <1>3, <1>4

LEMMA BeginStep ==
  ASSUME IInv, Begin
  PROVE IInv'
<1>1. /\ pc = "idle" /\ repo' = repo /\ pending' = {} /\ stale' = FALSE
      /\ duel' = NoDuel /\ margin' = "none"
      /\ stopping' = stopping /\ faults' = faults /\ holds' = holds
      /\ \/ N > 0 /\ pc' = "reload" /\ k' = 1
         \/ N = 0 /\ pc' = "derive" /\ k' = 0
  BY NAssumption DEF Begin, Load, control
<1>2. mem' = [Blank EXCEPT !.matrix = repo.matrix, !.reports = repo.reports,
                           !.requests = repo.requests, !.winner = repo.winner]
  BY DEF Begin, Load
<1>3. /\ mem'.matrix = repo.matrix /\ mem'.reports = repo.reports
      /\ mem'.requests = repo.requests /\ mem'.winner = repo.winner
      /\ mem'.validation = NoVerdicts /\ mem'.audit = NoVerdicts
      /\ mem' \in Memory
  <2>1. repo \in Repo
    BY DEF IInv, TypeOK
  <2>2. Blank \in Memory /\ Blank.validation = NoVerdicts /\ Blank.audit = NoVerdicts
    BY BlankType DEF Blank
  <2> QED BY <1>2, <2>1, <2>2 DEF Repo, Memory
<1>4. BranchInv'
  BY <1>1, BranchKept
<1>5. TypeOK'
  <2>1. k' \in 0 .. N + 1
    BY <1>1, NAssumption
  <2> QED BY <1>1, <1>3, <1>4, <2>1 DEF IInv, TypeOK, BranchInv, Points, Outcomes, Margins
<1>6. Whole'
  BY <1>1, <1>3, <1>4 DEF Whole, BranchInv, Margins
<1>7. Queue' /\ Playing' /\ Crowned'
  BY <1>1, <1>3 DEF Queue, Playing, Crowned, Active
<1>8. Ahead'
  BY <1>1, <1>3 DEF Ahead, Grows, NoVerdicts
<1>9. Qualifies'
  BY <1>1, NAssumption DEF Qualifies, SettledUpTo, Hotkeys
<1>10. Earned' /\ Agree(mem)'
  BY <1>1, <1>3 DEF IInv, Earned, Agree
<1> QED BY <1>4, <1>5, <1>6, <1>7, <1>8, <1>9, <1>10 DEF IInv, BranchInv

\* Reading verdicts only adds to what the runner knows.
LEMMA ReadStep ==
  ASSUME IInv, ReadVerdicts
  PROVE IInv'
<1>1. /\ pc = "read" /\ pc' = IF k = 0 THEN "derive" ELSE "qualify"
      /\ repo' = repo /\ pending' = pending /\ stale' = FALSE /\ k' = k /\ duel' = duel
      /\ margin' = margin /\ stopping' = stopping /\ faults' = faults /\ holds' = holds
  BY DEF ReadVerdicts, control
<1>2. /\ mem' \in Memory
      /\ mem'.matrix = mem.matrix /\ mem'.reports = mem.reports
      /\ mem'.requests = mem.requests /\ mem'.winner = mem.winner
      /\ mem'.validation = repo.validation /\ mem'.audit = repo.audit
  <2>1. repo \in Repo /\ mem \in Memory
    BY DEF IInv, TypeOK
  <2> QED BY <2>1 DEF ReadVerdicts, Repo, Memory
<1>3. Active /\ Active'
  BY <1>1 DEF Active
<1>4. BranchInv'
  BY <1>1, BranchKept
<1>5. TypeOK' /\ Whole'
  BY <1>1, <1>2, <1>4 DEF IInv, TypeOK, Whole, BranchInv, Points
<1>6. Queue' /\ Playing' /\ Crowned'
  BY <1>1, <1>2, <1>3 DEF IInv, Queue, Playing, Crowned
<1>7. Ahead'
  BY <1>1, <1>2, <1>3 DEF IInv, Ahead, Grows
<1>8. \A n \in 0 .. N + 1 : SettledUpTo(n) => SettledUpTo(n)'
  <2>1. \A i \in Hotkeys : Rejected(mem, i) => Rejected(mem, i)'
    BY <1>2 DEF IInv, Ahead, Grows, Rejected, TypeOK, Memory
  <2> QED BY <1>2, <2>1 DEF SettledUpTo
<1>9. Qualifies'
  <2>1. k \in 0 .. N + 1 /\ N + 1 \in 0 .. N + 1
    BY NAssumption DEF IInv, TypeOK
  <2> QED BY <1>1, <1>3, <1>8, <2>1 DEF IInv, Qualifies
<1>10. Earned' /\ Agree(mem)'
  BY <1>1, <1>2, <1>3 DEF IInv, Earned, Agree
<1> QED BY <1>4, <1>5, <1>6, <1>7, <1>9, <1>10 DEF IInv, BranchInv

\* Steps that move the runner, and those outside it that it does not see.
LEMMA MoveStep ==
  ASSUME IInv,
         \/ Qualification \/ LoopHead \/ WaitEnds \/ AwaitVerdicts \/ TransitionToNextStage
         \/ TimelineMatch \/ ExploratoryDuel \/ MatchUndelivered
         \/ RequestShutdown \/ Restart
  PROVE IInv'
<1> USE DEF Points, Active
<1> DEFINE Rest == TypeOK' /\ Queue' /\ Playing' /\ Qualifies' /\ Crowned'
<1>1. SUFFICES repo' = repo /\ mem' = mem /\ Active' = Active /\ margin' \in Margins /\ Rest
  <2> HIDE DEF Active
  <2> QED BY MoveKeeps DEF IInv
<1>2. N + 1 \in Nat /\ Hotkeys = 1 .. N /\ margin \in Margins /\ k \in 0 .. N + 1
  BY NAssumption DEF Hotkeys, IInv, Whole, TypeOK
<1>3. CASE QualifyNext
  <2>1. /\ pc = "qualify" /\ k \in Hotkeys /\ ~stopping
        /\ repo' = repo /\ mem' = mem /\ pending' = pending /\ stale' = stale /\ margin' = margin
        /\ stopping' = stopping /\ faults' = faults /\ holds' = holds
    BY <1>3 DEF QualifyNext, control
  <2>2. CASE Skips(k)
    <3>1. k' = k + 1 /\ pc' = pc /\ duel' = duel
      BY <1>3, <2>2 DEF QualifyNext
    <3>2. SettledUpTo(k)
      BY <2>1, <1>2 DEF IInv, Qualifies
    <3>3. SettledUpTo(k + 1)
      BY <2>1, <2>2, <3>2, <1>2 DEF SettledUpTo, Skips
    <3>4. TypeOK' /\ Queue' /\ Playing' /\ Crowned'
      <4>1. k' \in 0 .. N + 1
        BY <2>1, <3>1, NAssumption DEF Hotkeys
      <4> QED BY <2>1, <3>1, <4>1 DEF IInv, TypeOK, Queue, Playing, Crowned
    <3>5. Qualifies'
      <4>1. SettledUpTo(k)'
        BY <2>1, <3>1, <3>3 DEF SettledUpTo, Rejected
      <4> QED BY <2>1, <3>1, <4>1, <1>2 DEF IInv, Qualifies
    <3> QED BY <2>1, <3>1, <3>4, <3>5, <1>2
  <2>3. CASE ~Skips(k)
    <3>1. k' = k /\ pc' = "match" /\ duel' = <<Leader, k>>
      BY <1>3, <2>3 DEF QualifyNext
    <3>2. duel' \in Pairs /\ mem.matrix[duel'] = "none"
      BY <2>1, <2>3, <3>1, LeaderPair DEF Skips
    <3>3. TypeOK' /\ Queue' /\ Playing' /\ Crowned'
      BY <2>1, <3>1, <3>2, <1>2 DEF IInv, TypeOK, Queue, Playing, Crowned
    <3>4. Qualifies'
      BY <2>1, <3>1, <1>2 DEF IInv, Qualifies, SettledUpTo
    <3> QED BY <2>1, <3>1, <3>3, <3>4, <1>2
  <2> QED BY <2>2, <2>3
<1>4. CASE QualificationEnds
  <2>1. /\ pc = "qualify" /\ (k = N + 1 \/ stopping) /\ k' = 0
        /\ pc' = IF stopping THEN "stop" ELSE "derive"
        /\ repo' = repo /\ mem' = mem /\ pending' = pending /\ stale' = stale /\ margin' = margin
        /\ duel' = duel /\ stopping' = stopping /\ faults' = faults /\ holds' = holds
    BY <1>4 DEF QualificationEnds, EndAt, control
  <2>2. TypeOK' /\ Queue' /\ Playing' /\ Crowned'
    BY <2>1, <1>2 DEF IInv, TypeOK, Queue, Playing, Crowned
  <2>3. Qualifies'
    BY <2>1, <1>2 DEF IInv, Qualifies, SettledUpTo
  <2> QED BY <2>1, <2>2, <2>3, <1>2
<1>5. CASE LoopHead \/ WaitEnds \/ AwaitVerdicts
  <2>1. /\ pc \in {"loop", "waiting", "derive"} /\ pc' \in {"stop", "reload", "loop", "wait"}
        /\ k' = k
        /\ repo' = repo /\ mem' = mem /\ pending' = pending /\ stale' = stale /\ margin' = margin
        /\ duel' = duel /\ stopping' = stopping /\ faults' = faults /\ holds' = holds
    BY <1>5 DEF LoopHead, LoopOnTo, WaitEnds, AwaitVerdicts, Deciding, control
  <2>2. TypeOK' /\ Queue' /\ Playing' /\ Crowned'
    BY <2>1, <1>2 DEF IInv, TypeOK, Queue, Playing, Crowned
  <2>3. Qualifies'
    BY <2>1, <1>2 DEF IInv, Qualifies, SettledUpTo
  <2> QED BY <2>1, <2>2, <2>3, <1>2
<1>6. CASE TransitionToNextStage
  <2>1. /\ pc = "crowned" /\ pc' = "entered" /\ k' = k /\ pending' = pending \cup {"state"}
        /\ repo' = repo /\ mem' = mem /\ stale' = stale /\ margin' = margin
        /\ duel' = duel /\ stopping' = stopping /\ faults' = faults /\ holds' = holds
    BY <1>6 DEF TransitionToNextStage, control
  <2>2. TypeOK' /\ Queue' /\ Playing' /\ Crowned'
    BY <2>1, <1>2 DEF IInv, TypeOK, Queue, Playing, Crowned, Files
  <2>3. Qualifies'
    BY <2>1, <1>2 DEF IInv, Qualifies, SettledUpTo
  <2> QED BY <2>1, <2>2, <2>3, <1>2
<1>7. CASE TimelineMatch \/ ExploratoryDuel
  <2>1. PICK p \in Pairs : /\ mem.matrix[p] = "none" /\ StartMatch(p) /\ pc = "derive"
    <3>1. CASE TimelineMatch
      BY <3>1 DEF TimelineMatch, IsNextMatch, Pending, DuelMargin, Deciding
    <3>2. CASE ExploratoryDuel
      BY <3>2 DEF ExploratoryDuel, IsExploratoryDuel, Unplayed, Deciding
    <3> QED BY <1>7, <3>1, <3>2
  <2>2. /\ pc' = "match" /\ duel' = p /\ k' = k
        /\ repo' = repo /\ mem' = mem /\ pending' = pending /\ stale' = stale /\ margin' = margin
        /\ stopping' = stopping /\ faults' = faults /\ holds' = holds
    BY <2>1 DEF StartMatch, control
  <2>3. TypeOK' /\ Queue' /\ Playing' /\ Crowned'
    <3>1. k = 0
      BY <2>1, <1>2 DEF IInv, Qualifies
    <3> QED BY <2>1, <2>2, <3>1, <1>2 DEF IInv, TypeOK, Queue, Playing, Crowned
  <2>4. Qualifies'
    BY <2>1, <2>2, <1>2 DEF IInv, Qualifies, SettledUpTo
  <2> QED BY <2>1, <2>2, <2>3, <2>4, <1>2
<1>8. CASE MatchUndelivered
  <2>1. /\ pc = "match" /\ pc' = "record" /\ margin' = Walkover(duel)
        /\ ~({duel[1], duel[2]} \subseteq Delivered) /\ duel' = duel /\ k' = k
        /\ repo' = repo /\ mem' = mem /\ pending' = pending /\ stale' = stale
        /\ stopping' = stopping /\ faults' = faults /\ holds' = holds
    BY <1>8 DEF MatchUndelivered, control
  <2>2. margin' \in Margins /\ margin' # "none" /\ (margin' = "reached" => duel[2] \in Delivered)
    BY <2>1 DEF Walkover, Margins
  <2>3. TypeOK' /\ Queue' /\ Playing' /\ Crowned'
    BY <2>1, <2>2, <1>2 DEF IInv, TypeOK, Queue, Playing, Crowned, Outcomes
  <2>4. Qualifies'
    BY <2>1, <1>2 DEF IInv, Qualifies, SettledUpTo
  <2> QED BY <2>1, <2>2, <2>3, <2>4, <1>2
<1>9. CASE RequestShutdown \/ Restart
  <2>1. /\ pc' = pc /\ duel' = duel /\ k' = k /\ margin' = margin
        /\ repo' = repo /\ mem' = mem /\ pending' = pending /\ stale' = stale
        /\ stopping' \in BOOLEAN /\ (Active => stopping')
        /\ faults' \in 0 .. MaxFaults /\ holds' = holds
    <3>1. CASE RequestShutdown
      BY <3>1, BoundsAssumption DEF RequestShutdown, local, IInv, TypeOK
    <3>2. CASE Restart
      BY <3>2, BoundsAssumption DEF Restart, local, IInv, TypeOK
    <3> QED BY <1>9, <3>1, <3>2
  <2>2. TypeOK' /\ Queue' /\ Playing' /\ Crowned'
    BY <2>1, <1>2 DEF IInv, TypeOK, Queue, Playing, Crowned
  <2>3. Qualifies'
    BY <2>1, <1>2 DEF IInv, Qualifies, SettledUpTo
  <2> QED BY <2>1, <2>2, <2>3, <1>2
<1> QED BY <1>3, <1>4, <1>5, <1>6, <1>7, <1>8, <1>9 DEF Qualification

\* MatchOver in numbers: a match ends in the main loop or moves to the next
\* hotkey, which is settled unless the match was thrown away.
LEMMA MatchOverMoves ==
  ASSUME IInv, pc \in {"match", "record", "reported"}, MatchOver
  PROVE /\ duel' = NoDuel /\ margin' = "none" /\ pc' \in {"loop", "reload"}
        /\ k' \in 0 .. N + 1
        /\ k = 0 => pc' = "loop" /\ k' = 0
        /\ k > 0 => pc' = "reload" /\ k' = k + 1
<1>1. k \in 0 .. N + 1
  BY DEF IInv, TypeOK
<1>2. k <= N
  <2>1. k = N + 1 => FALSE
    BY NAssumption DEF IInv, Playing, Hotkeys
  <2> QED BY <1>1, <2>1, NAssumption
<1> QED BY <1>1, <1>2, NAssumption DEF MatchOver

\* A match that was thrown away.
LEMMA DiscardKeeps ==
  ASSUME IInv, pc \in {"match", "record", "reported"}, MatchOver, stopping,
         repo' = repo, mem' = mem, pending' = pending, stale' = stale,
         stopping' = stopping, faults' = faults, holds' = holds
  PROVE IInv'
<1>1. /\ duel' = NoDuel /\ margin' = "none" /\ pc' \in {"loop", "reload"}
      /\ k' \in 0 .. N + 1
      /\ k = 0 => pc' = "loop" /\ k' = 0
      /\ k > 0 => pc' = "reload" /\ k' = k + 1
  BY MatchOverMoves
<1>2. Active /\ Active'
  BY <1>1 DEF Active
<1>3. TypeOK' /\ Queue' /\ Playing' /\ Crowned'
  BY <1>1, <1>2 DEF IInv, TypeOK, Queue, Playing, Crowned, Points, Margins, Outcomes
<1>4. k \in 0 .. N + 1
  BY DEF IInv, TypeOK
<1>5. k = 0 => SettledUpTo(N + 1)
  BY <1>2 DEF IInv, Qualifies
<1>6. SettledUpTo(N + 1) => SettledUpTo(N + 1)'
  BY DEF SettledUpTo, Rejected
<1>7. Qualifies'
  BY <1>1, <1>2, <1>4, <1>5, <1>6, NAssumption DEF Qualifies
<1>8. margin' \in Margins
  BY <1>1 DEF Margins
<1> QED BY <1>2, <1>3, <1>7, <1>8, MoveKeeps DEF IInv

LEMMA PlayedStep ==
  ASSUME IInv, NEW m \in {"below", "reached"}, MatchPlayed(m)
  PROVE IInv'
<1>1. pc = "match" /\ stale' = stale /\ repo' = repo /\ {duel[1], duel[2]} \subseteq Delivered
      /\ stopping' = stopping /\ faults' = faults /\ holds' = holds
  BY DEF MatchPlayed, EndMatch, control
<1>2. CASE stopping
  BY <1>1, <1>2, DiscardKeeps DEF MatchPlayed, EndMatch
<1>3. CASE ~stopping
  <2>1. /\ margin' = m /\ mem' = [mem EXCEPT !.reports[duel] = m]
        /\ pending' = pending \cup {"reports"} /\ pc' = "reported"
        /\ k' = k /\ duel' = duel
    BY <1>3 DEF MatchPlayed, EndMatch
  <2>2. mem \in Memory /\ duel \in Pairs
    BY <1>1 DEF IInv, TypeOK, Playing
  <2>3. m \in Margins /\ m # "none"
    BY DEF Margins
  <2>4. /\ mem' \in Memory
        /\ mem'.matrix = mem.matrix /\ mem'.requests = mem.requests /\ mem'.winner = mem.winner
        /\ mem'.validation = mem.validation /\ mem'.audit = mem.audit
        /\ mem'.reports = [mem.reports EXCEPT ![duel] = m]
    BY <2>1, <2>2, <2>3 DEF Memory, Outcomes
  <2>5. Active /\ Active'
    BY <1>1, <2>1 DEF Active
  <2>6. BranchInv'
    BY <1>1, BranchKept
  <2>7. TypeOK'
    BY <1>1, <2>1, <2>3, <2>4, <2>6 DEF IInv, TypeOK, BranchInv, Points, Outcomes, Files
  <2>8. Whole'
    BY <1>1, <2>1, <2>2, <2>3, <2>4 DEF IInv, Whole
  <2>9. Queue'
    BY <1>1, <2>1, <2>4, <2>5 DEF IInv, Queue
  <2>10. Ahead'
    BY <1>1, <2>4, <2>5 DEF IInv, Ahead
  <2>11. Playing' /\ Crowned'
    <3>1. mem'.reports[duel] = m
      BY <2>2, <2>4 DEF Memory
    <3> QED BY <1>1, <2>1, <2>3, <2>4, <3>1 DEF IInv, Playing, Crowned
  <2>12. Qualifies'
    BY <1>1, <2>1, <2>4, <2>5 DEF IInv, Qualifies, SettledUpTo, Rejected
  <2>13. Earned'
    BY <1>1, <2>4, <2>5 DEF IInv, Earned
  <2>14. Agree(mem)'
    <3>1. mem.matrix[duel] = "none"
      BY <1>1 DEF IInv, Playing
    <3> QED BY <1>1, <2>2, <2>4, <3>1 DEF IInv, Agree, Memory
  <2> QED BY <2>6, <2>7, <2>8, <2>9, <2>10, <2>11, <2>12, <2>13, <2>14 DEF IInv, BranchInv
<1> QED BY <1>2, <1>3

LEMMA RecordStep ==
  ASSUME IInv, RecordMatch
  PROVE IInv'
<1>1. pc \in {"record", "reported"} /\ stale' = stale /\ repo' = repo /\ MatchOver
      /\ stopping' = stopping /\ faults' = faults /\ holds' = holds
  BY DEF RecordMatch, control
<1>2. CASE stopping
  BY <1>1, <1>2, DiscardKeeps DEF RecordMatch
<1>3. CASE ~stopping
  <2>1. mem' = [mem EXCEPT !.matrix[duel] = margin] /\ pending' = pending \cup {"matrix"}
    BY <1>3 DEF RecordMatch
  <2>2. /\ mem \in Memory /\ duel \in Pairs /\ margin \in Margins /\ margin # "none"
        /\ mem.matrix[duel] = "none"
    BY <1>1 DEF IInv, TypeOK, Playing, Whole
  <2>3. /\ mem' \in Memory
        /\ mem'.reports = mem.reports /\ mem'.requests = mem.requests /\ mem'.winner = mem.winner
        /\ mem'.validation = mem.validation /\ mem'.audit = mem.audit
        /\ mem'.matrix = [mem.matrix EXCEPT ![duel] = margin]
    BY <2>1, <2>2 DEF Memory, Outcomes
  <2>4. /\ duel' = NoDuel /\ margin' = "none" /\ pc' \in {"loop", "reload"}
        /\ k' \in 0 .. N + 1
        /\ k = 0 => pc' = "loop" /\ k' = 0
        /\ k > 0 => pc' = "reload" /\ k' = k + 1
    BY <1>1, MatchOverMoves
  <2>5. Active /\ Active'
    BY <1>1, <2>4 DEF Active
  <2>6. BranchInv'
    BY <1>1, BranchKept
  <2>7. TypeOK'
    BY <1>1, <2>1, <2>3, <2>4, <2>6 DEF IInv, TypeOK, BranchInv, Points, Outcomes, Margins, Files
  <2>8. Whole'
    BY <1>1, <2>2, <2>3, <2>4 DEF IInv, Whole, Margins
  <2>9. Queue' /\ Playing' /\ Crowned'
    BY <1>1, <2>1, <2>3, <2>4, <2>5 DEF IInv, Queue, Playing, Crowned
  <2>10. \A p \in Pairs : mem.matrix[p] # "none" => mem'.matrix[p] = mem.matrix[p] /\ p # duel
    BY <2>2, <2>3 DEF Memory
  <2>11. mem'.matrix[duel] = margin
    BY <2>2, <2>3 DEF Memory
  <2>12. Ahead'
    <3>1. DOMAIN repo.matrix = Pairs
      BY DEF IInv, Whole
    <3> QED BY <1>1, <2>3, <2>5, <2>10, <3>1 DEF IInv, Ahead, Grows
  <2>13. \A n : SettledUpTo(n) =>
           \A i \in Hotkeys : i < n => mem'.matrix[<<Leader, i>>] # "none" \/ Rejected(mem', i)
    BY <2>3, <2>10, LeaderPair DEF SettledUpTo, Rejected
  <2>14. Qualifies'
    <3>1. k \in 0 .. N + 1
      BY DEF IInv, TypeOK
    <3>2. CASE k = 0
      <4>1. SettledUpTo(N + 1)
        BY <1>1, <2>5, <3>2 DEF IInv, Qualifies
      <4>2. SettledUpTo(N + 1)'
        BY <2>13, <4>1 DEF SettledUpTo
      <4> QED BY <2>4, <3>2, <4>2 DEF Qualifies
    <3>3. CASE k > 0
      <4>1. k \in Hotkeys /\ duel = <<Leader, k>> /\ SettledUpTo(k)
        BY <1>1, <1>3, <2>5, <3>3 DEF IInv, Qualifies, Playing
      <4>2. \A i \in Hotkeys : i < k + 1 => mem'.matrix[<<Leader, i>>] # "none" \/ Rejected(mem', i)
        BY <2>2, <2>11, <2>13, <4>1, NAssumption DEF Hotkeys
      <4>3. SettledUpTo(k)'
        BY <2>4, <3>3, <4>2 DEF SettledUpTo
      <4> QED BY <2>4, <3>1, <3>3, <4>3 DEF Qualifies
    <3> QED BY <3>1, <3>2, <3>3
  <2>15. Earned'
    <3>1. \A i \in mem.requests : i \in Hotkeys /\ mem.matrix[<<Leader, i>>] = "reached"
      BY <2>2, <2>5 DEF IInv, Earned, Memory
    <3>2. \A i \in mem'.requests : mem'.matrix[<<Leader, i>>] = "reached"
      BY <2>3, <2>10, <3>1, LeaderPair
    <3> QED BY <1>1, <3>2 DEF IInv, Earned
  <2>16. Agree(mem)'
    <3>1. mem.reports[duel] # "none" => mem.reports[duel] = margin
      BY <1>1, <2>2 DEF IInv, Playing, Agree
    <3>2. \A p \in Pairs : p # duel => mem'.matrix[p] = mem.matrix[p]
      BY <2>2, <2>3 DEF Memory
    <3>3. margin = "reached" => duel[2] \in Delivered
      BY <1>1 DEF IInv, Playing
    <3> QED BY <2>3, <2>11, <3>1, <3>2, <3>3 DEF IInv, Agree
  <2> QED BY <2>6, <2>7, <2>8, <2>9, <2>12, <2>14, <2>15, <2>16 DEF IInv, BranchInv
<1> QED BY <1>2, <1>3

LEMMA RequestStep ==
  ASSUME IInv, RequestValidation
  PROVE IInv'
<1>1. /\ pc = "derive" /\ pending' = pending \cup {"requests"}
      /\ repo' = repo /\ stale' = stale /\ pc' = pc /\ k' = k /\ duel' = duel /\ margin' = margin
      /\ stopping' = stopping /\ faults' = faults /\ holds' = holds
  BY DEF RequestValidation, control
<1>2. PICK i \in Hotkeys : /\ Won(mem, i)
                           /\ mem' = [mem EXCEPT !.requests = mem.requests \cup {i}]
  BY DEF RequestValidation, Unrequested
<1>3. mem \in Memory
  BY DEF IInv, TypeOK
<1>4. /\ mem' \in Memory
      /\ mem'.matrix = mem.matrix /\ mem'.reports = mem.reports /\ mem'.winner = mem.winner
      /\ mem'.validation = mem.validation /\ mem'.audit = mem.audit
      /\ mem'.requests = mem.requests \cup {i}
  BY <1>2, <1>3 DEF Memory
<1>5. Active /\ Active'
  BY <1>1 DEF Active
<1>6. BranchInv'
  BY <1>1, BranchKept
<1>7. TypeOK' /\ Whole'
  BY <1>1, <1>4, <1>6 DEF IInv, TypeOK, Whole, BranchInv, Files
<1>8. Queue' /\ Playing' /\ Crowned'
  BY <1>1, <1>4, <1>5 DEF IInv, Queue, Playing, Crowned
<1>9. Ahead' /\ Agree(mem)'
  BY <1>1, <1>4, <1>5 DEF IInv, Ahead, Agree
<1>10. Qualifies'
  BY <1>1, <1>4, <1>5 DEF IInv, Qualifies, SettledUpTo, Rejected
<1>11. Earned'
  <2>1. mem.matrix[<<Leader, i>>] = "reached"
    BY <1>2 DEF Won, Candidate, Qualified
  <2> QED BY <1>1, <1>4, <1>5, <2>1 DEF IInv, Earned
<1> QED BY <1>6, <1>7, <1>8, <1>9, <1>10, <1>11 DEF IInv, BranchInv

LEMMA FinalizeStep ==
  ASSUME IInv, Finalize
  PROVE IInv'
<1>1. /\ pc = "derive" /\ IsFinalized(mem) /\ pending' = pending \cup {"winner"} /\ pc' = "crowned"
      /\ repo' = repo /\ stale' = stale /\ k' = k /\ duel' = duel /\ margin' = margin
      /\ stopping' = stopping /\ faults' = faults /\ holds' = holds
      /\ mem' = [mem EXCEPT !.winner = Winner(mem)]
  BY DEF Finalize, Deciding, control
<1>2. mem \in Memory
  BY DEF IInv, TypeOK
<1>3. /\ mem' \in Memory
      /\ mem'.matrix = mem.matrix /\ mem'.reports = mem.reports /\ mem'.requests = mem.requests
      /\ mem'.validation = mem.validation /\ mem'.audit = mem.audit
      /\ mem'.winner = Winner(mem)
  <2>1. Winner(mem) \in 0 .. N + 1
    BY WinnerType, NAssumption
  <2> QED BY <1>1, <1>2, <2>1 DEF Memory
<1>4. Active /\ Active'
  BY <1>1 DEF Active
<1>5. BranchInv'
  BY <1>1, BranchKept
<1>6. TypeOK' /\ Whole'
  BY <1>1, <1>3, <1>5 DEF IInv, TypeOK, Whole, BranchInv, Files, Points
<1>7. Queue' /\ Playing'
  BY <1>1, <1>3, <1>4 DEF IInv, Queue, Playing
<1>8. Ahead' /\ Agree(mem)' /\ Earned'
  BY <1>1, <1>3, <1>4 DEF IInv, Ahead, Agree, Earned
<1>9. Qualifies'
  BY <1>1, <1>3, <1>4 DEF IInv, Qualifies, SettledUpTo, Rejected
<1>10. Crowned'
  <2>1. /\ IsEvidence(mem) /\ IsEvidence(mem') /\ Extends(mem, mem')
    BY <1>3, EvidenceTypes DEF IInv, IsEvidence, Extends, Grows
  <2>2. Settled(mem)
    BY <1>1, <1>4, SettledMeans DEF IInv, Qualifies, TypeOK
  <2>3. IsFinalized(mem') /\ Winner(mem') = Winner(mem)
    BY <1>1, <2>1, <2>2, FinalIsFinal
  <2>4. IsFinalized(mem)' <=> IsFinalized(mem')
    OBVIOUS
  <2> QED BY <1>3, <2>3 DEF Crowned
<1> QED BY <1>5, <1>6, <1>7, <1>8, <1>9, <1>10 DEF IInv, BranchInv

LEMMA AbortStep ==
  ASSUME IInv, Abort
  PROVE IInv'
<1>1. BranchInv'
  BY BranchKept DEF Abort
<1> QED BY <1>1, ForgetKeeps, BoundsAssumption DEF Abort, IInv, TypeOK

\* Others' commits touch the baseline, the verdicts and the stage.
LEMMA ForeignStep ==
  ASSUME IInv, PublishBaseline \/ Validator \/ Auditor \/ Hold \/ Release
  PROVE IInv'
<1>1. /\ mem' = mem /\ pending' = pending /\ pc' = pc /\ k' = k /\ duel' = duel /\ margin' = margin
      /\ stopping' = stopping /\ faults' = faults /\ stale' \in BOOLEAN
  BY DEF PublishBaseline, Validator, Auditor, PublishValidation, PublishAudit, Hold, Release, Foreign
<1>2. /\ repo' \in Repo
      /\ repo'.matrix = repo.matrix /\ repo'.reports = repo.reports
      /\ repo'.requests = repo.requests /\ repo'.winner = repo.winner
      /\ Grows(repo.validation, repo'.validation) /\ Grows(repo.audit, repo'.audit)
      /\ repo'.stage = "finalizing" => repo.winner # Undecided
      /\ holds' \in 0 .. MaxHolds
  <2>1. repo \in Repo /\ holds \in 0 .. MaxHolds
        /\ (repo.stage = "finalizing" => repo.winner # Undecided)
    BY DEF IInv, TypeOK, Promised
  <2>2. CASE PublishBaseline
    BY <2>1, <2>2 DEF PublishBaseline, Repo, Grows
  <2>3. CASE Validator
    <3>1. PICK i \in Hotkeys, v \in {"passed", "failed"} : PublishValidation(i, v)
      BY <2>3 DEF Validator
    <3> QED BY <2>1, <3>1 DEF PublishValidation, Repo, Grows, Verdicts
  <2>4. CASE Auditor
    <3>1. PICK i \in Hotkeys, v \in {"passed", "failed"} : PublishAudit(i, v)
      BY <2>4 DEF Auditor
    <3> QED BY <2>1, <3>1 DEF PublishAudit, Repo, Grows, Verdicts
  <2>5. CASE Hold
    BY <2>1, <2>5, BoundsAssumption DEF Hold, Repo, Stages, Grows
  <2>6. CASE Release
    BY <2>1, <2>6 DEF Release, Repo, Stages, Grows
  <2> QED BY <2>2, <2>3, <2>4, <2>5, <2>6
<1>3. TypeOK' /\ Whole'
  BY <1>1, <1>2 DEF IInv, TypeOK, Whole
<1>4. Queue' /\ Playing' /\ Qualifies' /\ Crowned'
  BY <1>1, <1>2 DEF IInv, Queue, Playing, Qualifies, Crowned, SettledUpTo, Active
<1>5. Ahead'
  <2>1. /\ DOMAIN mem.validation = Hotkeys /\ DOMAIN mem.audit = Hotkeys
        /\ DOMAIN repo.validation = Hotkeys /\ DOMAIN repo.audit = Hotkeys
    BY DEF IInv, TypeOK, Memory, Repo
  <2> QED BY <1>1, <1>2, <2>1 DEF IInv, Ahead, Grows, Active
<1>6. Earned' /\ Agree(repo)' /\ Agree(mem)'
  BY <1>1, <1>2 DEF IInv, Earned, Agree, Active
<1>7. Promised'
  <2>1. IsEvidence(repo) /\ IsEvidence(repo')
    BY <1>2, EvidenceTypes DEF IInv, IsEvidence, Repo
  <2>2. Extends(repo, repo')
    BY <1>2 DEF Extends, Grows
  <2>3. repo.winner # Undecided => Settled(repo') /\ IsFinalized(repo') /\ Winner(repo') = Winner(repo)
    BY <2>1, <2>2, FinalIsFinal DEF IInv, Promised
  <2> QED BY <1>2, <2>3 DEF IInv, Promised
<1> QED BY <1>3, <1>4, <1>5, <1>6, <1>7 DEF IInv

-----------------------------------------------------------------------------
(* The invariant and what follows from it.                                 *)

LEMMA InitInv == Init => IInv
<1> SUFFICES ASSUME Init PROVE IInv
  OBVIOUS
<1>1. /\ repo = [stage |-> "duels", baseline |-> FALSE,
                 matrix |-> NoMatches, reports |-> NoMatches, requests |-> {},
                 winner |-> Undecided, validation |-> NoVerdicts, audit |-> NoVerdicts]
      /\ mem = Blank /\ pending = {} /\ stale = FALSE
      /\ pc = "idle" /\ k = 0 /\ duel = NoDuel /\ margin = "none"
      /\ stopping = FALSE /\ faults = 0 /\ holds = 0
  BY DEF Init
<1>2. repo \in Repo
  BY <1>1, NAssumption DEF Repo, Stages, NoMatches, NoVerdicts, Outcomes, Margins, Verdicts, Undecided
<1>3. TypeOK
  <2>1. mem \in Memory /\ 0 \in 0 .. N + 1 /\ 0 \in 0 .. MaxFaults /\ 0 \in 0 .. MaxHolds
    BY <1>1, BlankType, NAssumption, BoundsAssumption
  <2> QED BY <1>1, <1>2, <2>1 DEF TypeOK, Points, Outcomes, Margins
<1>4. Whole
  BY <1>1 DEF Whole, Blank, NoMatches, Margins
<1>5. Queue /\ Playing /\ Qualifies /\ Crowned
  BY <1>1 DEF Queue, Playing, Qualifies, Crowned, Active
<1>6. Ahead /\ Earned /\ Agree(repo) /\ Agree(mem)
  BY <1>1 DEF Ahead, Earned, Agree, Active, Grows, Blank, NoMatches, NoVerdicts
<1>7. Promised
  BY <1>1 DEF Promised
<1> QED BY <1>3, <1>4, <1>5, <1>6, <1>7 DEF IInv

LEMMA NextInv == IInv /\ [Next]_vars => IInv'
<1> SUFFICES ASSUME IInv, [Next]_vars PROVE IInv'
  OBVIOUS
<1>1. CASE UNCHANGED vars
  BY <1>1 DEF vars, IInv, TypeOK, Whole, Queue, Ahead, Playing, Qualifies, Crowned, Earned, Agree,
              Promised, SettledUpTo, Active, Rejected, Settled, IsFinalized, Verified, Won, Pending,
              Passed, Candidate, Qualified, DuelMargin
<1>2. CASE Begin
  BY <1>2, BeginStep
<1>3. CASE Commit
  BY <1>3, CommitStep
<1>4. CASE Qualification
  BY <1>4, MoveStep
<1>5. CASE Match
  BY <1>5, MoveStep, PlayedStep, RecordStep DEF Match
<1>6. CASE Turn
  BY <1>6, MoveStep, ReadStep, RequestStep, FinalizeStep DEF Turn
<1>7. CASE Abort
  BY <1>7, AbortStep
<1>8. CASE RequestShutdown \/ Restart
  BY <1>8, MoveStep
<1>9. CASE PublishBaseline \/ Validator \/ Auditor \/ Hold \/ Release
  BY <1>9, ForeignStep
<1> QED BY <1>1, <1>2, <1>3, <1>4, <1>5, <1>6, <1>7, <1>8, <1>9 DEF Next, Runner

LEMMA Inductive == Spec => []IInv
BY InitInv, NextInv, PTL DEF Spec

\* The runner's and the branch's state keep their types.
THEOREM JudgeTypes == Spec => []TypeOK
<1>1. IInv => TypeOK
  BY DEF IInv
<1> QED BY <1>1, Inductive, PTL

\* An interrupted match leaves no margin in a report or the matrix
\* (round_runner.py:320-322).
THEOREM PartialIsDiscarded == Spec => []NoPartialMargin
<1>1. IInv => NoPartialMargin
  BY DEF IInv, Whole, NoPartialMargin, Margins
<1> QED BY <1>1, Inductive, PTL

\* A match's report and its row of the matrix never contradict each other,
\* whatever the order of commits, restarts and shutdowns
\* (round_runner.py:250-263, 320-329).
THEOREM ReportsFollowMatrix == Spec => []ReportsAgree
<1>1. IInv => ReportsAgree
  BY DEF IInv, Agree, ReportsAgree
<1> QED BY <1>1, Inductive, PTL

\* When the stage is FINALIZING, winner.json is on the branch and is the
\* winner of the committed evidence (round_runner.py:337-369).
THEOREM FinalizingIsDecided == Spec => []FinalizingHasWinner
<1>1. IInv => FinalizingHasWinner
  BY DEF IInv, Promised, FinalizingHasWinner
<1> QED BY <1>1, Inductive, PTL

\* Nobody wins a round without a usable generation (round_runner.py:284-292).
THEOREM WinnerDelivered == Spec => []EmptyNeverWins
<1>1. IInv => EmptyNeverWins
  <2> SUFFICES ASSUME IInv, repo.winner \in Hotkeys PROVE repo.winner \in Delivered
    BY DEF EmptyNeverWins
  <2>1. repo.winner = Winner(repo)
    BY NAssumption DEF IInv, Promised, Undecided, Hotkeys
  <2>2. \E d : <<d, repo.winner>> \in Pairs /\ repo.matrix[<<d, repo.winner>>] = "reached"
    <3>1. N \in Players /\ Defender(repo)[N] = repo.winner /\ repo.winner # Leader
      BY <2>1, NAssumption DEF Winner, Hotkeys, Players, Leader
    <3> QED BY <3>1, HolderWon
  <2> QED BY <2>2 DEF IInv, Agree
<1> QED BY <1>1, Inductive, PTL

\* What a step may do to the branch: keep it, take the runner's files, or
\* add what another committer publishes.
LEMMA BranchStep ==
  ASSUME IInv, [Next]_vars
  PROVE \/ repo' = repo
        \/ Active /\ repo' = Overlay
        \/ /\ repo'.matrix = repo.matrix /\ repo'.requests = repo.requests
           /\ repo'.winner = repo.winner
           /\ Grows(repo.validation, repo'.validation) /\ Grows(repo.audit, repo'.audit)
<1>1. CASE UNCHANGED vars
  BY <1>1 DEF vars
<1>2. CASE Begin \/ Qualification \/ Match \/ Turn \/ Abort \/ RequestShutdown \/ Restart
  <2>1. CASE Begin \/ Qualification \/ Match
    BY <2>1 DEF Begin, Load, Qualification, QualifyNext, QualificationEnds, EndAt,
                Match, MatchUndelivered, MatchPlayed, EndMatch, RecordMatch
  <2>2. CASE Turn
    BY <2>2 DEF Turn, LoopHead, LoopOnTo, ReadVerdicts, RequestValidation, TimelineMatch, ExploratoryDuel,
                StartMatch, AwaitVerdicts, WaitEnds, Finalize, TransitionToNextStage
  <2>3. CASE Abort \/ RequestShutdown \/ Restart
    BY <2>3 DEF Abort, RequestShutdown, Restart
  <2> QED BY <1>2, <2>1, <2>2, <2>3
<1>3. CASE Commit
  <2>1. pending # {} => Active
    BY DEF IInv, Queue
  <2> QED BY <1>3, <2>1 DEF Commit, CommitLands, CommitConflicts, CommitFails, CommitReplyLost,
                            NothingToFlush
<1>4. CASE PublishBaseline \/ Validator \/ Auditor \/ Hold \/ Release
  <2>1. repo \in Repo
    BY DEF IInv, TypeOK
  <2>2. CASE PublishBaseline \/ Hold \/ Release
    BY <2>1, <2>2 DEF PublishBaseline, Hold, Release, Repo, Grows
  <2>3. CASE Validator
    BY <2>1, <2>3 DEF Validator, PublishValidation, Repo, Grows
  <2>4. CASE Auditor
    BY <2>1, <2>4 DEF Auditor, PublishAudit, Repo, Grows
  <2> QED BY <1>4, <2>2, <2>3, <2>4
<1> QED BY <1>1, <1>2, <1>3, <1>4 DEF Next, Runner

\* Requests are only added, and only with the win that earns them
\* (round_runner.py:237-248, validation_requests.py:25-36).
THEOREM RequestsAreEarned == Spec => RequestsEarned
<1>1. IInv /\ IInv' /\ [Next]_vars =>
        /\ repo.requests \subseteq repo'.requests
        /\ \A i \in repo'.requests : repo'.matrix[<<Leader, i>>] = "reached"
  <2> SUFFICES ASSUME IInv, IInv', [Next]_vars
               PROVE /\ repo.requests \subseteq repo'.requests
                     /\ \A i \in repo'.requests : repo'.matrix[<<Leader, i>>] = "reached"
    OBVIOUS
  <2>1. Active => Overlay.requests = mem.requests /\ repo.requests \subseteq mem.requests
    BY OverlayFields DEF IInv, Ahead
  <2>2. repo.requests \subseteq repo'.requests
    BY <2>1, BranchStep
  <2> QED BY <2>2 DEF IInv, Earned
<1> QED BY <1>1, Inductive, PTL DEF RequestsEarned, Spec

\* The tournament as Tournament sees it.
Seen == [matrix |-> repo.matrix, validation |-> repo.validation, audit |-> repo.audit]

\* Tournament's operators are Timeline's.
LEMMA PromiseOperators ==
  /\ Promise!Evidence = Evidence /\ Promise!NoEvidence = NoEvidence
  /\ Promise!Undecided = Undecided
  /\ \A e, f : Promise!Extends(e, f) <=> Extends(e, f)
  /\ \A e : Promise!Winner(e) = Winner(e)
  /\ \A e : Promise!Conclusive(e) <=> Settled(e) /\ IsFinalized(e)
<1> USE DEF Promise!Pairs, Pairs, Promise!Players, Players, Promise!Hotkeys, Hotkeys,
            Promise!Margins, Margins, Promise!Verdicts, Verdicts, Promise!Leader, Leader
<1>1. Promise!Evidence = Evidence /\ Promise!NoEvidence = NoEvidence /\ Promise!Undecided = Undecided
  BY DEF Promise!Evidence, Evidence, Promise!NoEvidence, NoEvidence, Promise!Undecided, Undecided
<1>2. \A e, f : Promise!Extends(e, f) <=> Extends(e, f)
  BY DEF Promise!Extends, Extends, Promise!Grows, Grows
<1>3. \A e, i : Promise!Candidate(e, i) <=> Candidate(e, i)
  BY DEF Promise!Candidate, Candidate, Promise!Qualified, Qualified, Promise!Rejected, Rejected
<1>4. \A e, d, i : Promise!Beats(e, d, i) <=> Beats(e, d, i)
  BY DEF Promise!Beats, Beats, Promise!Candidate, Candidate, Promise!Qualified, Qualified,
         Promise!Rejected, Rejected
<1>5. \A e : Promise!Defender(e) = Defender(e)
  BY DEF Promise!Defender, Defender, Promise!Beats, Beats, Promise!Candidate, Candidate,
         Promise!Qualified, Qualified, Promise!Rejected, Rejected
<1>6. \A e : Promise!Winner(e) = Winner(e)
  BY <1>5 DEF Promise!Winner, Winner
<1>7. \A e, i : /\ Promise!Pending(e, i) <=> Pending(e, i)
                /\ Promise!Won(e, i) <=> Won(e, i)
                /\ Promise!Passed(e, i) <=> Passed(e, i)
  BY <1>3, <1>5 DEF Promise!Pending, Pending, Promise!Won, Won, Promise!DuelMargin, DuelMargin,
                    Promise!Passed, Passed
<1>8. \A e : Promise!Conclusive(e) <=> Settled(e) /\ IsFinalized(e)
  BY <1>7 DEF Promise!Conclusive, Promise!Settled, Settled, Promise!Rejected, Rejected,
              Promise!IsFinalized, IsFinalized, Promise!Verified, Verified
<1> QED BY <1>1, <1>2, <1>6, <1>8

\* The three fields of the branch decide as the branch itself does.
LEMMA SeenIsRepo ==
  ASSUME IInv
  PROVE /\ Seen \in Evidence /\ IsEvidence(Seen) /\ IsEvidence(repo)
        /\ repo.winner # Undecided =>
             Settled(Seen) /\ IsFinalized(Seen) /\ repo.winner = Winner(Seen)
<1>1. IsEvidence(repo)
  BY EvidenceTypes DEF IInv
<1>2. Seen \in Evidence /\ IsEvidence(Seen)
  BY <1>1 DEF Seen, Evidence, IsEvidence
<1>3. Extends(repo, Seen)
  BY DEF Seen, Extends, Grows
<1> QED BY <1>1, <1>2, <1>3, FinalIsFinal DEF IInv, Promised

\* The round in the repository is a Tournament: margins and verdicts stand,
\* and the winner is declared once, from conclusive committed evidence
\* (round_runner.py:140-194, 337-369).
THEOREM ImplementsTournament == Spec => IsTournament
<1>1. Init => Promise!Init
  <2> SUFFICES ASSUME Init PROVE Promise!Init
    OBVIOUS
  <2>1. Seen = NoEvidence /\ repo.winner = Undecided
    BY DEF Init, Seen, NoEvidence, NoMatches, NoVerdicts
  <2> QED BY <2>1, PromiseOperators DEF Promise!Init, Seen
<1>2. IInv /\ IInv' /\ [Next]_vars => [Promise!Next]_Promise!vars
  <2> SUFFICES ASSUME IInv, IInv', [Next]_vars PROVE [Promise!Next]_Promise!vars
    OBVIOUS
  <2>1. Seen \in Evidence /\ Seen' \in Evidence
    <3>1. IsEvidence(repo')
      BY DEF IInv, Whole, TypeOK, Repo, IsEvidence
    <3>2. Seen' \in Evidence
      BY <3>1 DEF Seen, Evidence, IsEvidence
    <3> QED BY <3>2, SeenIsRepo
  <2>2. Extends(Seen, Seen')
    <3>1. repo' = repo => Extends(Seen, Seen')
      BY DEF Seen, Extends, Grows
    <3>2. Active /\ repo' = Overlay => Extends(repo, repo')
      BY OverlayPromise
    <3>3. Extends(repo, repo') => Extends(Seen, Seen')
      BY DEF Seen, Extends
    <3>4. /\ repo'.matrix = repo.matrix
          /\ Grows(repo.validation, repo'.validation) /\ Grows(repo.audit, repo'.audit)
          => Extends(Seen, Seen')
      BY DEF Seen, Extends, Grows
    <3> QED BY <3>1, <3>2, <3>3, <3>4, BranchStep
  <2>3. repo.winner # Undecided => repo'.winner = repo.winner
    BY BranchStep, OverlayPromise
  <2>4. repo'.winner # Undecided =>
          Settled(Seen') /\ IsFinalized(Seen') /\ repo'.winner = Winner(Seen')
    <3>1. IsEvidence(repo') /\ IsEvidence(Seen')
      BY DEF IInv, Whole, TypeOK, Repo, IsEvidence, Seen
    <3>2. Extends(repo', Seen')
      BY DEF Seen, Extends, Grows
    <3> QED BY <3>1, <3>2, FinalIsFinal DEF IInv, Promised
  <2>5. CASE repo'.winner = repo.winner
    BY <2>1, <2>2, <2>5, PromiseOperators DEF Promise!Next, Seen
  <2>6. CASE repo'.winner # repo.winner
    BY <2>1, <2>2, <2>3, <2>4, <2>6, PromiseOperators DEF Promise!Next, Seen
  <2> QED BY <2>5, <2>6
<1> QED BY <1>1, <1>2, Inductive, PTL DEF IsTournament, Promise!Spec, Spec

\* The declared winner stands against all later evidence: no match or verdict
\* that reaches the branch after finalization contradicts winner.json, so the
\* judge may stop at the first finalized timeline (round_runner.py:173-175).
THEOREM WinnerIsFinal == Spec => []Promise!WinnerStands
<1>1. IInv => Promise!WinnerStands
  BY SeenIsRepo, PromiseOperators DEF Promise!WinnerStands, Seen
<1> QED BY <1>1, Inductive, PTL

-----------------------------------------------------------------------------
(* A duel (modules DuelVerdict and MultiStage): its verdict does not depend  *)
(* on which of the two miners was entered first.                             *)

\* What SumFunction adds to the sum of the rest.
SumStep(f, g, T) ==
  IF T = {} THEN 0 ELSE f[CHOOSE x \in T : TRUE] + g[T \ {CHOOSE x \in T : TRUE}]

LEMMA PartOf ==
  ASSUME NEW S, IsFiniteSet(S), NEW T \in SUBSET S
  PROVE  /\ IsFiniteSet(T) /\ Cardinality(T) \in Nat
         /\ T # {} => /\ (CHOOSE x \in T : TRUE) \in S
                      /\ T \ {CHOOSE x \in T : TRUE} \in SUBSET S
                      /\ Cardinality(T \ {CHOOSE x \in T : TRUE}) = Cardinality(T) - 1
<1>1. IsFiniteSet(T) /\ Cardinality(T) \in Nat
  BY FS_Subset, FS_CardinalityType
<1>2. ASSUME T # {}
      PROVE  /\ (CHOOSE x \in T : TRUE) \in S
             /\ T \ {CHOOSE x \in T : TRUE} \in SUBSET S
             /\ Cardinality(T \ {CHOOSE x \in T : TRUE}) = Cardinality(T) - 1
  <2> DEFINE z == CHOOSE x \in T : TRUE
  <2>1. z \in T
    BY <1>2
  <2> HIDE DEF z
  <2>2. Cardinality(T \ {z}) = Cardinality(T) - 1
    BY <1>1, <2>1, FS_RemoveElement
  <2> QED BY <2>1, <2>2 DEF z
<1> QED BY <1>1, <1>2

\* The partial sums exist.
LEMMA SumsExist ==
  ASSUME NEW S, IsFiniteSet(S), NEW f \in [S -> Int]
  PROVE  \E g : g = [T \in SUBSET S |-> SumStep(f, g, T)]
<1> DEFINE Small(n) == {T \in SUBSET S : Cardinality(T) <= n}
           Sums(g, n) == g = [T \in Small(n) |-> SumStep(f, g, T)]
           Bad == {n \in Nat : ~ \E g : Sums(g, n)}
<1>1. Small(Cardinality(S)) = SUBSET S
  BY FS_Subset
<1>2. Cardinality(S) \in Nat
  BY FS_CardinalityType
<1>0. SUFFICES \E g : Sums(g, Cardinality(S))
  <2> HIDE DEF Small
  <2> QED BY <1>1
<1>3. SUFFICES ASSUME Bad # {} PROVE FALSE
  <2> HIDE DEF Sums
  <2> QED BY <1>2
<1>4. PICK m \in Bad : \A n \in Bad : m <= n
  <2>1. Bad \in SUBSET Nat
    OBVIOUS
  <2> HIDE DEF Bad
  <2> QED BY <1>3, <2>1, Least
<1>5. m \in Nat
  OBVIOUS
<1>6. m # 0
  <2> DEFINE z == [T \in Small(0) |-> 0]
  <2>1. \A T \in Small(0) : T = {}
    <3> SUFFICES ASSUME NEW T \in Small(0) PROVE T = {}
      OBVIOUS
    <3>1. T \in SUBSET S /\ Cardinality(T) <= 0
      OBVIOUS
    <3>2. IsFiniteSet(T) /\ Cardinality(T) \in Nat
      BY <3>1, PartOf
    <3>3. Cardinality(T) = 0
      BY <3>1, <3>2
    <3> QED BY <3>2, <3>3, FS_EmptySet
  <2>2. Sums(z, 0)
    <3> HIDE DEF Small
    <3> QED BY <2>1 DEF SumStep
  <2> QED BY <2>2
<1>7. PICK g : Sums(g, m - 1)
  <2>1. m - 1 \in Nat /\ ~(m <= m - 1)
    BY <1>5, <1>6
  <2>2. m - 1 \notin Bad
    <3> HIDE DEF Bad
    <3> QED BY <1>4, <2>1
  <2> QED BY <2>1, <2>2
<1> DEFINE h == [T \in Small(m) |-> SumStep(f, g, T)]
<1>8. ASSUME NEW T \in Small(m), T # {}
      PROVE  h[T \ {CHOOSE x \in T : TRUE}] = g[T \ {CHOOSE x \in T : TRUE}]
  <2> DEFINE U == T \ {CHOOSE x \in T : TRUE}
  <2>0. T \in SUBSET S /\ Cardinality(T) <= m
    OBVIOUS
  <2>1. U \in SUBSET S /\ Cardinality(U) = Cardinality(T) - 1 /\ Cardinality(T) \in Nat
    BY <1>8, <2>0, PartOf
  <2> HIDE DEF U
  <2>2. U \in Small(m - 1) /\ U \in Small(m)
    BY <1>5, <2>1
  <2> HIDE DEF Small
  <2>3. h[U] = SumStep(f, g, U)
    BY <2>2
  <2>4. g[U] = SumStep(f, g, U)
    BY <1>7, <2>2
  <2> QED BY <2>3, <2>4 DEF U
<1>9. Sums(h, m)
  <2>1. \A T \in Small(m) : SumStep(f, h, T) = SumStep(f, g, T)
    <3> HIDE DEF Small, h
    <3> SUFFICES ASSUME NEW T \in Small(m) PROVE SumStep(f, h, T) = SumStep(f, g, T)
      OBVIOUS
    <3>1. CASE T = {}
      BY <3>1 DEF SumStep
    <3>2. CASE T # {}
      <4>1. h[T \ {CHOOSE x \in T : TRUE}] = g[T \ {CHOOSE x \in T : TRUE}]
        BY <3>2, <1>8
      <4> QED BY <3>2, <4>1 DEF SumStep
    <3> QED BY <3>1, <3>2
  <2> QED BY <2>1
<1> QED BY <1>9

LEMMA SumIsInt ==
  ASSUME NEW S, IsFiniteSet(S), NEW f \in [S -> Int]
  PROVE  SumFunction(f) \in Int
<1> DEFINE g == CHOOSE g : g = [T \in SUBSET S |-> SumStep(f, g, T)]
<1>1. SumFunction(f) = g[S]
  BY DEF SumFunction, SumFunctionOnSet, FoldFunctionOnSet, MapThenFoldSet, SumStep
<1>2. g = [T \in SUBSET S |-> SumStep(f, g, T)]
  BY SumsExist
<1> HIDE DEF g
<1> DEFINE Odd == {T \in SUBSET S : g[T] \notin Int}
           Bad == {Cardinality(T) : T \in Odd}
<1>3. SUFFICES ASSUME S \in Odd PROVE FALSE
  BY <1>1
<1>4. PICK m \in Bad : \A n \in Bad : m <= n
  <2>1. \A T \in SUBSET S : Cardinality(T) \in Nat
    BY PartOf
  <2>2. Bad \in SUBSET Nat /\ Bad # {}
    <3> HIDE DEF g
    <3> QED BY <1>3, <2>1
  <2> HIDE DEF Bad
  <2> QED BY <2>2, Least
<1>5. PICK T \in Odd : m = Cardinality(T)
  OBVIOUS
<1>6. T # {}
  BY <1>2, <1>5 DEF SumStep
<1> DEFINE z == CHOOSE x \in T : TRUE
           U == T \ {z}
<1>7. z \in S /\ U \in SUBSET S /\ Cardinality(U) = Cardinality(T) - 1 /\ Cardinality(T) \in Nat
  BY <1>6, PartOf
<1>8. g[T] = f[z] + g[U]
  BY <1>2, <1>6 DEF SumStep
<1> HIDE DEF z, U
<1>9. U \notin Odd
  <2> SUFFICES ASSUME U \in Odd PROVE FALSE
    OBVIOUS
  <2>1. Cardinality(U) \in Bad
    OBVIOUS
  <2>2. Cardinality(T) <= Cardinality(U)
    BY <1>4, <1>5, <2>1
  <2> QED BY <1>7, <2>2
<1>10. f[z] \in Int /\ g[U] \in Int
  BY <1>7, <1>9
<1> QED BY <1>5, <1>8, <1>10

-----------------------------------------------------------------------------
(* Every stage's rule, when A and B change places.                          *)

PenaltyAnswer == [first : Int, second : Int, failed : BOOLEAN]
Sides == {"none", "A", "B", "draw"}

LEMMA DiffFlips ==
  ASSUME NEW a \in PenaltyAnswer, NEW b \in PenaltyAnswer
  PROVE  /\ Diff(a, b) \in Int /\ Diff(b, a) = -Diff(a, b)
         /\ PenaltyA(a, b) \in Int /\ PenaltyB(a, b) \in Int
         /\ PenaltyA(b, a) = PenaltyB(a, b) /\ PenaltyB(b, a) = PenaltyA(a, b)
         /\ Opposed(b, a) <=> Opposed(a, b)
BY DEF PenaltyAnswer, Diff, PenaltyA, PenaltyB, Opposed

LEMMA BetterFlips ==
  ASSUME NEW d \in Int
  PROVE  Better(d) \in {"A", "B", "draw"} /\ Better(-d) = Flip(Better(d))
BY DEF Better, Flip

LEMMA SplitFlips ==
  ASSUME NEW S, IsFiniteSet(S), NEW f \in [S -> PenaltyAnswer], NEW g \in [S -> PenaltyAnswer],
         NEW T \in SUBSET S
  PROVE  Split(T, g, f) <=> Split(T, f, g)
<1> DEFINE low == {x \in T : Diff(f[x], g[x]) < 0}
           high == {x \in T : Diff(f[x], g[x]) > 0}
<1>1. {x \in T : Diff(g[x], f[x]) < 0} = high /\ {x \in T : Diff(g[x], f[x]) > 0} = low
  <2>1. \A x \in T : Diff(f[x], g[x]) \in Int /\ Diff(g[x], f[x]) = -Diff(f[x], g[x])
    BY DiffFlips
  <2>2. \A x \in T : /\ Diff(g[x], f[x]) < 0 <=> Diff(f[x], g[x]) > 0
                     /\ Diff(g[x], f[x]) > 0 <=> Diff(f[x], g[x]) < 0
    BY <2>1
  <2> QED BY <2>2
<1>2. Cardinality(low) \in Nat /\ Cardinality(high) \in Nat
  <2>1. low \in SUBSET S /\ high \in SUBSET S
    OBVIOUS
  <2> HIDE DEF low, high
  <2> QED BY <2>1, PartOf
<1> HIDE DEF low, high
<1>3. Cardinality(high) + Cardinality(low) = Cardinality(low) + Cardinality(high)
  BY <1>2
<1>4. {Cardinality(high) - Cardinality(low), Cardinality(low) - Cardinality(high)}
        = {Cardinality(low) - Cardinality(high), Cardinality(high) - Cardinality(low)}
  OBVIOUS
<1>5. Split(T, g, f) <=>
        /\ Cardinality(high) + Cardinality(low) >= 3
        /\ 20 * Max({Cardinality(high) - Cardinality(low), Cardinality(low) - Cardinality(high)})
             < 13 * (Cardinality(high) + Cardinality(low))
  BY <1>1 DEF Split
<1>6. Split(T, f, g) <=>
        /\ Cardinality(low) + Cardinality(high) >= 3
        /\ 20 * Max({Cardinality(low) - Cardinality(high), Cardinality(high) - Cardinality(low)})
             < 13 * (Cardinality(low) + Cardinality(high))
  BY DEF Split, low, high
<1> QED BY <1>3, <1>4, <1>5, <1>6

\* What the first stage compares.
SumA(S, f, g) == SumFunction([x \in S |-> PenaltyA(f[x], g[x])])
SumB(S, f, g) == SumFunction([x \in S |-> PenaltyB(f[x], g[x])])

LEMMA AnglesFlip ==
  ASSUME NEW S, IsFiniteSet(S), NEW f \in [S -> PenaltyAnswer], NEW g \in [S -> PenaltyAnswer],
         NEW T \in SUBSET S
  PROVE  /\ SumA(T, f, g) \in Int /\ SumB(T, f, g) \in Int
         /\ SumA(T, g, f) = SumB(T, f, g) /\ SumB(T, g, f) = SumA(T, f, g)
<1>1. \A x \in T : /\ PenaltyA(f[x], g[x]) \in Int /\ PenaltyB(f[x], g[x]) \in Int
                   /\ PenaltyA(g[x], f[x]) = PenaltyB(f[x], g[x])
                   /\ PenaltyB(g[x], f[x]) = PenaltyA(f[x], g[x])
  BY DiffFlips
<1>2. /\ [x \in T |-> PenaltyA(f[x], g[x])] \in [T -> Int]
      /\ [x \in T |-> PenaltyB(f[x], g[x])] \in [T -> Int]
      /\ [x \in T |-> PenaltyA(g[x], f[x])] = [x \in T |-> PenaltyB(f[x], g[x])]
      /\ [x \in T |-> PenaltyB(g[x], f[x])] = [x \in T |-> PenaltyA(f[x], g[x])]
  BY <1>1
<1>3. IsFiniteSet(T)
  BY PartOf
<1> QED BY <1>2, <1>3, SumIsInt DEF SumA, SumB

LEMMA ConsistentFlips ==
  ASSUME NEW S, NEW f \in [S -> PenaltyAnswer], NEW g \in [S -> PenaltyAnswer]
  PROVE  Consistent(S, g, f) = Consistent(S, f, g) /\ Consistent(S, f, g) \in SUBSET S
<1>1. \A x \in S : Opposed(g[x], f[x]) <=> Opposed(f[x], g[x])
  BY DiffFlips
<1> QED BY <1>1 DEF Consistent

\* The rule of the first stage on its sums a and b.
Rule(n, a, b, split) ==
  LET gap == Max({a - b, b - a})
  IN IF n = 0 \/ (a + b >= 32 * n /\ gap <= 3 * n) \/ 5 * gap <= 7 * n \/ split
     THEN "draw" ELSE Better(a - b)

LEMMA PromptMatchRule ==
  ASSUME NEW S, NEW f, NEW g
  PROVE  PromptMatch(S, f, g) =
           Rule(Cardinality(Consistent(S, f, g)), SumA(Consistent(S, f, g), f, g),
                SumB(Consistent(S, f, g), f, g), Split(Consistent(S, f, g), f, g))
BY DEF PromptMatch, Rule, SumA, SumB

LEMMA RuleFlips ==
  ASSUME NEW n, NEW a \in Int, NEW b \in Int, NEW s
  PROVE  Rule(n, b, a, s) = Flip(Rule(n, a, b, s)) /\ Rule(n, a, b, s) \in {"A", "B", "draw"}
<1>1. {b - a, a - b} = {a - b, b - a} /\ b + a = a + b /\ a - b \in Int /\ b - a = -(a - b)
  OBVIOUS
<1>2. Better(a - b) \in {"A", "B", "draw"} /\ Better(b - a) = Flip(Better(a - b))
  BY <1>1, BetterFlips
<1>3. Flip("draw") = "draw"
  BY DEF Flip
<1> QED BY <1>1, <1>2, <1>3 DEF Rule

LEMMA PromptMatchFlips ==
  ASSUME NEW S, IsFiniteSet(S), NEW f \in [S -> PenaltyAnswer], NEW g \in [S -> PenaltyAnswer]
  PROVE  PromptMatch(S, g, f) = Flip(PromptMatch(S, f, g)) /\ PromptMatch(S, f, g) \in {"A", "B", "draw"}
<1> DEFINE T == Consistent(S, f, g)
<1>1. T \in SUBSET S /\ Consistent(S, g, f) = T
  BY ConsistentFlips
<1> HIDE DEF T
<1>2. /\ SumA(T, f, g) \in Int /\ SumB(T, f, g) \in Int
      /\ SumA(T, g, f) = SumB(T, f, g) /\ SumB(T, g, f) = SumA(T, f, g)
  BY <1>1, AnglesFlip
<1>3. Split(T, g, f) = Split(T, f, g)
  <2>1. Split(T, g, f) <=> Split(T, f, g)
    BY <1>1, SplitFlips
  <2>2. Split(T, g, f) \in BOOLEAN /\ Split(T, f, g) \in BOOLEAN
    BY DEF Split
  <2> QED BY <2>1, <2>2
<1>4. PromptMatch(S, f, g) = Rule(Cardinality(T), SumA(T, f, g), SumB(T, f, g), Split(T, f, g))
  BY PromptMatchRule DEF T
<1>5. PromptMatch(S, g, f) = Rule(Cardinality(T), SumB(T, f, g), SumA(T, f, g), Split(T, f, g))
  BY <1>1, <1>2, <1>3, PromptMatchRule
<1> QED BY <1>2, <1>4, <1>5, RuleFlips

\* Angles whose two answers, where both are there, are the same.
LEMMA PromptMatchBlind ==
  ASSUME NEW S, IsFiniteSet(S), NEW f \in [S -> PenaltyAnswer], NEW g \in [S -> PenaltyAnswer],
         \A x \in S : f[x] = g[x] \/ f[x].failed \/ g[x].failed
  PROVE  PromptMatch(S, f, g) = "draw"
<1> DEFINE T == Consistent(S, f, g)
           a == SumA(T, f, g)
           r == Rule(Cardinality(T), a, a, Split(T, f, g))
<1>1. T \in SUBSET S /\ \A x \in T : f[x] = g[x]
  BY DEF Consistent
<1> HIDE DEF T
<1>2. a \in Int
  BY <1>1, AnglesFlip
<1>3. SumB(T, f, g) = a
  <2>1. \A x \in T : PenaltyA(f[x], g[x]) = PenaltyB(f[x], g[x])
    <3> SUFFICES ASSUME NEW x \in T PROVE PenaltyA(f[x], g[x]) = PenaltyB(f[x], g[x])
      OBVIOUS
    <3>1. f[x] \in PenaltyAnswer /\ g[x] = f[x]
      BY <1>1
    <3> QED BY <3>1, DiffFlips
  <2>2. [x \in T |-> PenaltyA(f[x], g[x])] = [x \in T |-> PenaltyB(f[x], g[x])]
    BY <2>1
  <2> QED BY <2>2 DEF SumA, SumB
<1>4. PromptMatch(S, f, g) = r
  BY <1>3, PromptMatchRule DEF T
<1> HIDE DEF a
<1>5. r = Flip(r) /\ r \in {"A", "B", "draw"}
  BY <1>2, RuleFlips
<1> QED BY <1>4, <1>5 DEF Flip

\* One side that alone has a strong vote.
Choice(sides) == IF Cardinality(sides) = 1 THEN CHOOSE s \in sides : TRUE ELSE "draw"
ByVotes(a, b) == IF a /\ ~b THEN "A" ELSE IF b /\ ~a THEN "B" ELSE "draw"

LEMMA ChoiceOfVotes ==
  ASSUME NEW S \in SUBSET {"A", "B"}
  PROVE  Choice(S) = ByVotes("A" \in S, "B" \in S)
<1>1. Cardinality({}) = 0 /\ Cardinality({"A"}) = 1 /\ Cardinality({"B"}) = 1
  BY FS_EmptySet, FS_Singleton
<1>2. Cardinality({"A", "B"}) = 2
  <2>1. {"A", "B"} = {"A"} \cup {"B"} /\ "B" \notin {"A"} /\ IsFiniteSet({"A"})
    BY FS_Singleton
  <2>2. Cardinality({"A"} \cup {"B"}) = Cardinality({"A"}) + 1
    BY <2>1, FS_AddElement
  <2> QED BY <1>1, <2>1, <2>2
<1>3. S = {} \/ S = {"A"} \/ S = {"B"} \/ S = {"A", "B"}
  OBVIOUS
<1>4. CASE S = {}
  BY <1>1, <1>4 DEF Choice, ByVotes
<1>5. CASE S = {"A"}
  BY <1>1, <1>5 DEF Choice, ByVotes
<1>6. CASE S = {"B"}
  BY <1>1, <1>6 DEF Choice, ByVotes
<1>7. CASE S = {"A", "B"}
  BY <1>2, <1>7 DEF Choice, ByVotes
<1> QED BY <1>3, <1>4, <1>5, <1>6, <1>7

LEMMA SubJudgesFlip ==
  ASSUME NEW x \in Int, NEW y \in Int, NEW z \in Int
  PROVE  /\ SubJudges(-x, -y, -z) = Flip(SubJudges(x, y, z))
         /\ SubJudges(x, y, z) \in {"A", "B", "draw"}
<1>1. /\ Better(x) \in {"A", "B", "draw"} /\ Better(-x) = Flip(Better(x))
      /\ Better(y) \in {"A", "B", "draw"} /\ Better(-y) = Flip(Better(y))
      /\ Better(-z) \in {"A", "B", "draw"} /\ Better(-(-z)) = Flip(Better(-z))
  BY BetterFlips
<1>2. /\ x \in -3 .. 3 <=> -x \in -3 .. 3
      /\ z \in -5 .. 5 <=> -z \in -5 .. 5
  OBVIOUS
\* The strong votes change sides.
<1>3. /\ "A" \in StrongVotes(-x, -z) <=> "B" \in StrongVotes(x, z)
      /\ "B" \in StrongVotes(-x, -z) <=> "A" \in StrongVotes(x, z)
  BY <1>1, <1>2 DEF StrongVotes, Flip
<1>4. StrongVotes(-x, -z) \subseteq {"A", "B"} /\ StrongVotes(x, z) \subseteq {"A", "B"}
  BY DEF StrongVotes
<1>5. /\ Strong(x, z) = Choice(StrongVotes(x, z))
      /\ Strong(-x, -z) = Choice(StrongVotes(-x, -z))
  BY DEF Strong, Choice
<1> HIDE DEF StrongVotes
<1>6. Strong(-x, -z) = Flip(Strong(x, z)) /\ Strong(x, z) \in {"A", "B", "draw"}
  <2>1. /\ Choice(StrongVotes(x, z)) = ByVotes("A" \in StrongVotes(x, z), "B" \in StrongVotes(x, z))
        /\ Choice(StrongVotes(-x, -z)) = ByVotes("A" \in StrongVotes(-x, -z), "B" \in StrongVotes(-x, -z))
    BY <1>4, ChoiceOfVotes
  <2> QED BY <1>3, <1>5, <2>1 DEF ByVotes, Flip
<1>7. /\ PenaltyVote(-x) = Flip(PenaltyVote(x)) /\ PenaltyVote(-y) = Flip(PenaltyVote(y))
      /\ ChecklistVote(-z) = Flip(ChecklistVote(z))
      /\ {PenaltyVote(x), PenaltyVote(y), ChecklistVote(z)} \subseteq {"none", "A", "B", "draw"}
  BY <1>1 DEF PenaltyVote, ChecklistVote, Flip
<1>8. /\ Consensus(PenaltyVote(-x), PenaltyVote(-y), ChecklistVote(-z))
           = Flip(Consensus(PenaltyVote(x), PenaltyVote(y), ChecklistVote(z)))
      /\ Consensus(PenaltyVote(x), PenaltyVote(y), ChecklistVote(z)) \in {"A", "B", "draw"}
  BY <1>7 DEF Consensus, Flip
<1>9. Flip(Strong(x, z)) = "draw" <=> Strong(x, z) = "draw"
  BY <1>6 DEF Flip
<1> QED BY <1>6, <1>8, <1>9 DEF SubJudges

LEMMA GrayFlips ==
  ASSUME NEW a \in PenaltyAnswer, NEW b \in PenaltyAnswer
  PROVE  GrayRescue(b, a) = Flip(GrayRescue(a, b)) /\ GrayRescue(a, b) \in {"A", "B", "draw"}
<1>1. /\ Diff(a, b) \in Int /\ Diff(b, a) = -Diff(a, b) /\ (Opposed(b, a) <=> Opposed(a, b))
      /\ Better(Diff(a, b)) \in {"A", "B", "draw"}
      /\ Better(-Diff(a, b)) = Flip(Better(Diff(a, b)))
  BY DiffFlips, BetterFlips
<1>2. Diff(a, b) \in -3 .. 3 <=> -Diff(a, b) \in -3 .. 3
  BY <1>1
<1>3. Flip("draw") = "draw"
  BY DEF Flip
<1> QED BY <1>1, <1>2, <1>3 DEF GrayRescue

LEMMA StepDownFlips ==
  ASSUME NEW c \in Sides, NEW a \in BOOLEAN, NEW b \in BOOLEAN
  PROVE  StepDown(Flip(c), b, a) = Flip(StepDown(c, a, b)) /\ StepDown(c, a, b) \in Sides
BY DEF StepDown, Flip, Sides

-----------------------------------------------------------------------------
(* The calls of a stage and their answers.                                  *)

CheckResult == [yes : Nat, partial : Nat, main : BOOLEAN, failed : BOOLEAN]
CallTags == {"ab", "ba", "a", "b", "list"}

LEMMA CallsApart ==
  /\ \A c \in S1Calls : c \notin S4Calls /\ c # List /\ c \notin Verify
  /\ \A c \in S3Calls : c \notin S4Calls /\ c # List /\ c \notin Verify
  /\ \A c \in S4Calls : c # List /\ c \notin Verify
  /\ \A w \in {"best", "artifact"} : \A o \in Orders :
       <<w, o>> \notin S4Calls /\ <<w, o>> # List /\ <<w, o>> \notin Verify
  /\ \A c \in Verify : c # List /\ c \notin S4Calls
BY MultiStageAssumption DEF S1Calls, S3Calls, S4Calls, Pair, Orders, List, Verify

LEMMA CallsArePairs ==
  ASSUME NEW c \in Calls
  PROVE  \E w : \E o \in CallTags : c = <<w, o>>
BY DEF Calls, S1Calls, S2Calls, S3Calls, S4Calls, Pair, Orders, List, Verify, CallTags

LEMMA PossibleAnswers ==
  /\ \A c \in S1Calls \cup S3Calls : Possible(c) \subseteq PenaltyAnswer
  /\ \A w \in {"best", "artifact"} : \A o \in Orders : Possible(<<w, o>>) \subseteq PenaltyAnswer
  /\ \A c \in Verify : Possible(c) \subseteq CheckResult
<1>1. PenaltyAnswers \subseteq PenaltyAnswer
  <2>1. ASSUME NEW p \in Penalties PROVE p \in PenaltyAnswer
    <3>1. p \in [first : Int, second : Int, failed : {FALSE}]
      BY MultiStageAssumption
    <3> QED BY <3>1 DEF PenaltyAnswer
  <2>2. NeutralPenalty \in PenaltyAnswer
    BY DEF PenaltyAnswer, NeutralPenalty
  <2> QED BY <2>1, <2>2 DEF PenaltyAnswers
<1>2. Checks \cup {CheckFailed} \subseteq CheckResult
  <2>1. ASSUME NEW p \in Checks PROVE p \in CheckResult
    <3>1. p \in [yes : Nat, partial : Nat, main : BOOLEAN, failed : {FALSE}]
      BY MultiStageAssumption
    <3> QED BY <3>1 DEF CheckResult
  <2>2. CheckFailed \in CheckResult
    BY DEF CheckResult, CheckFailed
  <2> QED BY <2>1, <2>2
<1>3. \A c \in S1Calls \cup S3Calls : Possible(c) = PenaltyAnswers
  BY CallsApart DEF Possible
<1>4. \A w \in {"best", "artifact"} : \A o \in Orders : Possible(<<w, o>>) = PenaltyAnswers
  BY CallsApart DEF Possible
<1>5. \A c \in Verify : Possible(c) = Checks \cup {CheckFailed}
  BY CallsApart DEF Possible
<1> QED BY <1>1, <1>2, <1>3, <1>4, <1>5

LEMMA MirroredPairs ==
  \A w : /\ Mirrored(<<w, "ab">>) = <<w, "ba">> /\ Mirrored(<<w, "ba">>) = <<w, "ab">>
         /\ Mirrored(<<w, "a">>) = <<w, "b">> /\ Mirrored(<<w, "b">>) = <<w, "a">>
         /\ Mirrored(<<w, "list">>) = <<w, "list">>
BY DEF Mirrored

\* The answers that change places.
LEMMA MirrorAnswers ==
  ASSUME NEW STATE ans, DOMAIN ans \subseteq Calls, NEW w, NEW o \in CallTags
  PROVE  /\ <<w, o>> \in DOMAIN Mirror(ans) <=> Mirrored(<<w, o>>) \in DOMAIN ans
         /\ Mirrored(<<w, o>>) \in DOMAIN ans => Mirror(ans)[<<w, o>>] = ans[Mirrored(<<w, o>>)]
<1>1. Mirrored(Mirrored(<<w, o>>)) = <<w, o>>
  BY MirroredPairs DEF CallTags
<1>2. \A d \in DOMAIN ans : Mirrored(Mirrored(d)) = d
  <2> SUFFICES ASSUME NEW d \in DOMAIN ans PROVE Mirrored(Mirrored(d)) = d
    OBVIOUS
  <2>1. PICK v : \E p \in CallTags : d = <<v, p>>
    BY CallsArePairs
  <2> QED BY <2>1, MirroredPairs DEF CallTags
<1> HIDE DEF Mirrored
<1>3. <<w, o>> \in {Mirrored(d) : d \in DOMAIN ans} <=> Mirrored(<<w, o>>) \in DOMAIN ans
  BY <1>1, <1>2
<1> QED BY <1>3 DEF Mirror

DuelStages ==
  /\ stage \in {"start", "explain", "done"} => asked = {}
  /\ stage = "s1" => asked = S1Calls
  /\ stage = "s2" => Pair("artifact") \subseteq asked /\ asked \subseteq S2Calls
  /\ stage = "s3" => asked = S3Calls
  /\ stage = "s4" => asked = S4Calls

DuelInv == DuelTypeOK /\ DuelStages

\* A difference of two answers, and that of the same answers in the other order.
LEMMA DiffOfMirror ==
  ASSUME DuelInv, NEW w \in {"best", "artifact", "gray"}, Pair(w) \subseteq DOMAIN answer
  PROVE  /\ DiffOf(w, answer) \in Int /\ DiffOf(w, Mirror(answer)) = -DiffOf(w, answer)
         /\ answer[<<w, "ab">>] \in PenaltyAnswer /\ answer[<<w, "ba">>] \in PenaltyAnswer
         /\ Mirror(answer)[<<w, "ab">>] = answer[<<w, "ba">>]
         /\ Mirror(answer)[<<w, "ba">>] = answer[<<w, "ab">>]
<1>1. <<w, "ab">> \in DOMAIN answer /\ <<w, "ba">> \in DOMAIN answer
  BY DEF Pair, Orders
<1>2. answer[<<w, "ab">>] \in PenaltyAnswer /\ answer[<<w, "ba">>] \in PenaltyAnswer
  <2>1. answer[<<w, "ab">>] \in Possible(<<w, "ab">>) /\ answer[<<w, "ba">>] \in Possible(<<w, "ba">>)
    BY <1>1 DEF DuelInv, DuelTypeOK
  <2>2. Possible(<<w, "ab">>) \subseteq PenaltyAnswer /\ Possible(<<w, "ba">>) \subseteq PenaltyAnswer
    BY PossibleAnswers DEF S3Calls, Pair, Orders
  <2> QED BY <2>1, <2>2
<1>3. /\ Mirror(answer)[<<w, "ab">>] = answer[<<w, "ba">>]
      /\ Mirror(answer)[<<w, "ba">>] = answer[<<w, "ab">>]
  <2>1. DOMAIN answer \subseteq Calls /\ "ab" \in CallTags /\ "ba" \in CallTags
    BY DEF DuelInv, DuelTypeOK, CallTags
  <2>2. Mirrored(<<w, "ab">>) = <<w, "ba">> /\ Mirrored(<<w, "ba">>) = <<w, "ab">>
    BY MirroredPairs
  <2> QED BY <1>1, <2>1, <2>2, MirrorAnswers
<1> QED BY <1>2, <1>3, DiffFlips DEF DiffOf

-----------------------------------------------------------------------------
(* The verdict of a stage, when the two miners change places.               *)

LEMMA Stage1Flips ==
  ASSUME DuelInv, stage = "s1", Complete, NEW STATE ch
  PROVE  /\ Verdict(stage, Mirror(answer), Flip(ch)) = Flip(Verdict(stage, answer, ch))
         /\ Verdict(stage, answer, ch) \in {"A", "B", "draw"}
<1> DEFINE f == [x \in Angles |-> answer[<<x, "ab">>]]
           g == [x \in Angles |-> answer[<<x, "ba">>]]
<1>1. \A x \in Angles : \A o \in Orders :
        <<x, o>> \in DOMAIN answer /\ answer[<<x, o>>] \in PenaltyAnswer
  <2> SUFFICES ASSUME NEW x \in Angles, NEW o \in Orders
               PROVE  <<x, o>> \in DOMAIN answer /\ answer[<<x, o>>] \in PenaltyAnswer
    OBVIOUS
  <2>1. <<x, o>> \in S1Calls /\ asked = S1Calls
    BY DEF DuelInv, DuelStages, S1Calls
  <2>2. <<x, o>> \in DOMAIN answer
    BY <2>1, CallsApart DEF Complete
  <2> QED BY <2>1, <2>2, PossibleAnswers DEF DuelInv, DuelTypeOK
<1>2. f \in [Angles -> PenaltyAnswer] /\ g \in [Angles -> PenaltyAnswer]
  BY <1>1 DEF Orders
<1>3. \A x \in Angles : /\ Mirror(answer)[<<x, "ab">>] = answer[<<x, "ba">>]
                        /\ Mirror(answer)[<<x, "ba">>] = answer[<<x, "ab">>]
  <2>1. DOMAIN answer \subseteq Calls /\ "ab" \in CallTags /\ "ba" \in CallTags
    BY DEF DuelInv, DuelTypeOK, CallTags
  <2>2. ASSUME NEW x \in Angles
        PROVE  /\ Mirror(answer)[<<x, "ab">>] = answer[<<x, "ba">>]
               /\ Mirror(answer)[<<x, "ba">>] = answer[<<x, "ab">>]
    <3>1. <<x, "ab">> \in DOMAIN answer /\ <<x, "ba">> \in DOMAIN answer
      BY <1>1 DEF Orders
    <3>2. Mirrored(<<x, "ab">>) = <<x, "ba">> /\ Mirrored(<<x, "ba">>) = <<x, "ab">>
      BY MirroredPairs
    <3> QED BY <2>1, <3>1, <3>2, MirrorAnswers
  <2> QED BY <2>2
<1>4. /\ [x \in Angles |-> Mirror(answer)[<<x, "ab">>]] = g
      /\ [x \in Angles |-> Mirror(answer)[<<x, "ba">>]] = f
  BY <1>3
<1>5. /\ Verdict("s1", answer, ch) = PromptMatch(Angles, f, g)
      /\ Verdict("s1", Mirror(answer), Flip(ch)) =
           PromptMatch(Angles, [x \in Angles |-> Mirror(answer)[<<x, "ab">>]],
                               [x \in Angles |-> Mirror(answer)[<<x, "ba">>]])
  BY DEF Verdict
<1> HIDE DEF f, g
<1>6. PromptMatch(Angles, g, f) = Flip(PromptMatch(Angles, f, g))
      /\ PromptMatch(Angles, f, g) \in {"A", "B", "draw"}
  BY <1>2, PromptMatchFlips, MultiStageAssumption
<1> QED BY <1>4, <1>5, <1>6

LEMMA MinusZero == \A n \in Int : n <= 0 /\ n >= 0 => -n = n
OBVIOUS

\* The scores that are compared, when both verifications succeeded.
LEMMA GapOfMirror ==
  ASSUME DuelInv
  PROVE  Gap(answer) \in Int /\ Gap(Mirror(answer)) = -Gap(answer)
<1> DEFINE a == <<"check", "a">>
           b == <<"check", "b">>
<1>1. DOMAIN answer \subseteq Calls /\ "a" \in CallTags /\ "b" \in CallTags
  BY DEF DuelInv, DuelTypeOK, CallTags
<1>2. Mirrored(a) = b /\ Mirrored(b) = a /\ Verify = {a, b}
  BY MirroredPairs DEF Verify
<1>3. /\ a \in DOMAIN Mirror(answer) <=> b \in DOMAIN answer
      /\ b \in DOMAIN Mirror(answer) <=> a \in DOMAIN answer
      /\ b \in DOMAIN answer => Mirror(answer)[a] = answer[b]
      /\ a \in DOMAIN answer => Mirror(answer)[b] = answer[a]
  BY <1>1, <1>2, MirrorAnswers
<1>4. \A c \in Verify \cap DOMAIN answer : answer[c] \in CheckResult
  BY PossibleAnswers DEF DuelInv, DuelTypeOK
<1> HIDE DEF a, b
<1>5. CASE Verify \subseteq DOMAIN answer
  <2>1. /\ answer[a] \in CheckResult /\ answer[b] \in CheckResult
        /\ Verify \subseteq DOMAIN Mirror(answer)
        /\ Mirror(answer)[a] = answer[b] /\ Mirror(answer)[b] = answer[a]
    BY <1>2, <1>3, <1>4, <1>5
  <2>2. Score(answer[a]) \in Int /\ Score(answer[b]) \in Int
    BY <2>1 DEF Score, CheckResult
  <2>3. /\ Gap(answer) = IF ~answer[a].failed /\ ~answer[b].failed
                         THEN Score(answer[a]) - Score(answer[b]) ELSE 0
        /\ Gap(Mirror(answer)) = IF ~answer[b].failed /\ ~answer[a].failed
                                 THEN Score(answer[b]) - Score(answer[a]) ELSE 0
    BY <1>2, <1>5, <2>1 DEF Gap, a, b
  <2> QED BY <2>2, <2>3
<1>6. CASE ~(Verify \subseteq DOMAIN answer)
  <2>1. ~(Verify \subseteq DOMAIN Mirror(answer))
    BY <1>2, <1>3, <1>6
  <2>2. Gap(answer) = 0 /\ Gap(Mirror(answer)) = 0
    BY <1>6, <2>1 DEF Gap
  <2>3. Gap(answer) \in Int /\ Gap(answer) <= 0 /\ Gap(answer) >= 0
    BY <2>2
  <2>4. -Gap(answer) = Gap(answer)
    BY <2>3, MinusZero
  <2> QED BY <2>2, <2>3, <2>4, Zenon
<1> QED BY <1>5, <1>6

LEMMA BestDiffOfMirror ==
  ASSUME DuelInv
  PROVE  BestDiff(answer) \in Int /\ BestDiff(Mirror(answer)) = -BestDiff(answer)
<1>1. Pair("best") \subseteq DOMAIN answer <=> Pair("best") \subseteq DOMAIN Mirror(answer)
  <2>1. DOMAIN answer \subseteq Calls /\ "ab" \in CallTags /\ "ba" \in CallTags
    BY DEF DuelInv, DuelTypeOK, CallTags
  <2>2. /\ <<"best", "ab">> \in DOMAIN Mirror(answer) <=> <<"best", "ba">> \in DOMAIN answer
        /\ <<"best", "ba">> \in DOMAIN Mirror(answer) <=> <<"best", "ab">> \in DOMAIN answer
    BY <2>1, MirroredPairs, MirrorAnswers
  <2>3. Pair("best") = {<<"best", "ab">>, <<"best", "ba">>}
    BY DEF Pair, Orders
  <2> QED BY <2>2, <2>3
<1>2. CASE Pair("best") \subseteq DOMAIN answer
  BY <1>1, <1>2, DiffOfMirror DEF BestDiff
<1>3. CASE ~(Pair("best") \subseteq DOMAIN answer)
  <2>1. BestDiff(answer) = 0 /\ BestDiff(Mirror(answer)) = 0
    BY <1>1, <1>3 DEF BestDiff
  <2>2. BestDiff(answer) \in Int /\ BestDiff(answer) <= 0 /\ BestDiff(answer) >= 0
    BY <2>1
  <2>3. -BestDiff(answer) = BestDiff(answer)
    BY <2>2, MinusZero
  <2> QED BY <2>1, <2>2, <2>3, Zenon
<1> QED BY <1>2, <1>3

LEMMA Stage2Flips ==
  ASSUME DuelInv, stage = "s2", Complete, NEW STATE ch
  PROVE  /\ Verdict(stage, Mirror(answer), Flip(ch)) = Flip(Verdict(stage, answer, ch))
         /\ Verdict(stage, answer, ch) \in {"A", "B", "draw"}
<1>1. Pair("artifact") \subseteq DOMAIN answer
  <2> SUFFICES ASSUME NEW c \in Pair("artifact") PROVE c \in DOMAIN answer
    OBVIOUS
  <2>1. c \in asked /\ c \notin Verify
    BY CallsApart DEF DuelInv, DuelStages, Pair
  <2> QED BY <2>1 DEF Complete
<1>2. /\ DiffOf("artifact", answer) \in Int
      /\ DiffOf("artifact", Mirror(answer)) = -DiffOf("artifact", answer)
  BY <1>1, DiffOfMirror
<1>3. /\ BestDiff(answer) \in Int /\ BestDiff(Mirror(answer)) = -BestDiff(answer)
      /\ Gap(answer) \in Int /\ Gap(Mirror(answer)) = -Gap(answer)
  BY BestDiffOfMirror, GapOfMirror
<1>4. /\ Verdict("s2", answer, ch) =
           SubJudges(BestDiff(answer), DiffOf("artifact", answer), Gap(answer))
      /\ Verdict("s2", Mirror(answer), Flip(ch)) =
           SubJudges(BestDiff(Mirror(answer)), DiffOf("artifact", Mirror(answer)), Gap(Mirror(answer)))
  BY DEF Verdict
<1> QED BY <1>2, <1>3, <1>4, SubJudgesFlip

LEMMA Stage3Flips ==
  ASSUME DuelInv, stage = "s3", Complete, NEW STATE ch
  PROVE  /\ Verdict(stage, Mirror(answer), Flip(ch)) = Flip(Verdict(stage, answer, ch))
         /\ Verdict(stage, answer, ch) \in {"A", "B", "draw"}
<1>1. Pair("gray") \subseteq DOMAIN answer
  <2> SUFFICES ASSUME NEW c \in Pair("gray") PROVE c \in DOMAIN answer
    OBVIOUS
  <2>1. c \in asked /\ c \notin Verify
    BY CallsApart DEF DuelInv, DuelStages, S3Calls
  <2> QED BY <2>1 DEF Complete
<1>2. /\ answer[<<"gray", "ab">>] \in PenaltyAnswer /\ answer[<<"gray", "ba">>] \in PenaltyAnswer
      /\ Mirror(answer)[<<"gray", "ab">>] = answer[<<"gray", "ba">>]
      /\ Mirror(answer)[<<"gray", "ba">>] = answer[<<"gray", "ab">>]
  BY <1>1, DiffOfMirror
<1>3. /\ Verdict("s3", answer, ch) = GrayRescue(answer[<<"gray", "ab">>], answer[<<"gray", "ba">>])
      /\ Verdict("s3", Mirror(answer), Flip(ch)) =
           GrayRescue(Mirror(answer)[<<"gray", "ab">>], Mirror(answer)[<<"gray", "ba">>])
  BY DEF Verdict
<1> QED BY <1>2, <1>3, GrayFlips

LEMMA Stage4Flips ==
  ASSUME DuelInv, stage = "s4", Complete, NEW STATE ch, ch \in Sides
  PROVE  /\ Verdict(stage, Mirror(answer), Flip(ch)) = Flip(Verdict(stage, answer, ch))
         /\ Verdict(stage, answer, ch) \in Sides
<1>1. \A x \in SideViews : /\ Mirror(answer)[<<x, "a">>] = answer[<<x, "b">>]
                           /\ Mirror(answer)[<<x, "b">>] = answer[<<x, "a">>]
  <2> SUFFICES ASSUME NEW x \in SideViews
               PROVE  /\ Mirror(answer)[<<x, "a">>] = answer[<<x, "b">>]
                      /\ Mirror(answer)[<<x, "b">>] = answer[<<x, "a">>]
    OBVIOUS
  <2>1. <<x, "a">> \in S4Calls /\ <<x, "b">> \in S4Calls /\ asked = S4Calls
    BY DEF DuelInv, DuelStages, S4Calls
  <2>2. <<x, "a">> \in DOMAIN answer /\ <<x, "b">> \in DOMAIN answer
    BY <2>1, CallsApart DEF Complete
  <2>3. DOMAIN answer \subseteq Calls /\ "a" \in CallTags /\ "b" \in CallTags
    BY DEF DuelInv, DuelTypeOK, CallTags
  <2>4. Mirrored(<<x, "a">>) = <<x, "b">> /\ Mirrored(<<x, "b">>) = <<x, "a">>
    BY MirroredPairs
  <2> QED BY <2>2, <2>3, <2>4, MirrorAnswers
<1>2. Side("a", Mirror(answer)) = Side("b", answer) /\ Side("b", Mirror(answer)) = Side("a", answer)
  BY <1>1 DEF Side
<1>3. /\ Verdict("s4", answer, ch) =
           StepDown(ch, Garbage(Side("a", answer)), Garbage(Side("b", answer)))
      /\ Verdict("s4", Mirror(answer), Flip(ch)) =
           StepDown(Flip(ch), Garbage(Side("a", Mirror(answer))), Garbage(Side("b", Mirror(answer))))
  BY DEF Verdict
<1>4. Garbage(Side("a", answer)) \in BOOLEAN /\ Garbage(Side("b", answer)) \in BOOLEAN
  BY DEF Garbage
<1> QED BY <1>2, <1>3, <1>4, StepDownFlips

LEMMA VerdictFlips ==
  ASSUME DuelInv, Judged, NEW STATE ch, ch \in Sides
  PROVE  /\ Verdict(stage, Mirror(answer), Flip(ch)) = Flip(Verdict(stage, answer, ch))
         /\ Verdict(stage, answer, ch) \in Sides
         /\ stage # "s4" => Verdict(stage, answer, ch) \in {"A", "B", "draw"}
<1>1. {"A", "B", "draw"} \subseteq Sides /\ Complete
  BY DEF Sides, Judged
<1>2. CASE stage = "s1"
  BY <1>1, <1>2, Stage1Flips
<1>3. CASE stage = "s2"
  BY <1>1, <1>3, Stage2Flips
<1>4. CASE stage = "s3"
  BY <1>1, <1>4, Stage3Flips
<1>5. CASE stage = "s4"
  BY <1>1, <1>5, Stage4Flips
<1> QED BY <1>2, <1>3, <1>4, <1>5 DEF Judged

LEMMA DuelIsFair == DuelInv => MirrorFair
<1> SUFFICES ASSUME DuelInv, Judged
             PROVE  Verdict(stage, Mirror(answer), Flip(choice)) = Flip(Verdict(stage, answer, choice))
  BY DEF MirrorFair
<1>1. choice \in Sides
  BY DEF DuelInv, DuelTypeOK, Sides
<1> QED BY <1>1, VerdictFlips

\* Two answers that are both there or both missing, and do not tell the submissions
\* apart.
LEMMA BlindPair ==
  ASSUME DuelInv, Positional(answer), ~LoneFailure(answer),
         NEW w \in {"best", "artifact", "gray"}, Pair(w) \subseteq DOMAIN answer
  PROVE  /\ answer[<<w, "ab">>] = answer[<<w, "ba">>]
         /\ DiffOf(w, answer) = 0
<1> DEFINE p == answer[<<w, "ab">>]
           q == answer[<<w, "ba">>]
<1>1. <<w, "ab">> \in DOMAIN answer /\ <<w, "ba">> \in DOMAIN answer
  BY DEF Pair, Orders
<1>2. p \in PenaltyAnswers /\ q \in PenaltyAnswers
  <2>1. p \in Possible(<<w, "ab">>) /\ q \in Possible(<<w, "ba">>)
    BY <1>1 DEF DuelInv, DuelTypeOK
  <2>2. Possible(<<w, "ab">>) = PenaltyAnswers /\ Possible(<<w, "ba">>) = PenaltyAnswers
    BY CallsApart DEF Possible, S3Calls, Pair, Orders
  <2> QED BY <2>1, <2>2
<1>3. p = q \/ p.failed \/ q.failed
  <2>1. Mirrored(<<w, "ab">>) = <<w, "ba">>
    BY MirroredPairs
  <2> QED BY <1>1, <2>1 DEF Positional
<1>4. p.failed = q.failed
  BY DEF LoneFailure
<1>5. p \in PenaltyAnswer /\ q \in PenaltyAnswer
  BY DiffOfMirror
<1> HIDE DEF p, q
<1>6. \A r \in PenaltyAnswers : r.failed => r = NeutralPenalty
  <2>1. \A r \in Penalties : ~r.failed
    BY MultiStageAssumption
  <2> QED BY <2>1 DEF PenaltyAnswers
<1>7. p = q
  BY <1>2, <1>3, <1>4, <1>6
<1>8. Diff(p, q) = 0
  BY <1>5, <1>7 DEF Diff, PenaltyA, PenaltyB, PenaltyAnswer
<1> QED BY <1>7, <1>8 DEF DiffOf, p, q

\* Two checked grids that are not told apart, or one that could not be checked.
LEMMA BlindChecklist ==
  ASSUME DuelInv, Positional(answer)
  PROVE  Gap(answer) = 0
<1> DEFINE a == <<"check", "a">>
           b == <<"check", "b">>
<1>1. CASE Verify \subseteq DOMAIN answer /\ \A c \in Verify : ~answer[c].failed
  <2>1. a \in Verify /\ b \in Verify /\ Mirrored(a) = b
    BY MirroredPairs DEF Verify
  <2>2. a \in DOMAIN answer /\ b \in DOMAIN answer /\ ~answer[a].failed /\ ~answer[b].failed
    BY <1>1, <2>1
  <2> HIDE DEF a, b
  <2>3. answer[a] = answer[b]
    BY <2>1, <2>2 DEF Positional
  <2>4. answer[a] \in CheckResult
    BY <2>1, <2>2, PossibleAnswers DEF DuelInv, DuelTypeOK
  <2>5. Score(answer[a]) \in Int
    BY <2>4 DEF Score, CheckResult
  <2>6. Gap(answer) = Score(answer[a]) - Score(answer[b])
    BY <1>1 DEF Gap, a, b
  <2> QED BY <2>3, <2>5, <2>6
<1>2. CASE ~(Verify \subseteq DOMAIN answer /\ \A c \in Verify : ~answer[c].failed)
  BY <1>2 DEF Gap
<1> QED BY <1>1, <1>2

\* Answers that do not tell the submissions apart decide no stage.
LEMMA BlindDuelIsDrawn == DuelInv => PositionDecidesNothing
<1> SUFFICES ASSUME DuelInv, Judged, stage # "s4", Positional(answer), ~LoneFailure(answer)
             PROVE  Verdict(stage, answer, choice) = "draw"
  BY DEF PositionDecidesNothing
<1>0. Complete
  BY DEF Judged
<1>1. CASE stage = "s1"
  <2> DEFINE f == [x \in Angles |-> answer[<<x, "ab">>]]
             g == [x \in Angles |-> answer[<<x, "ba">>]]
  <2>1. ASSUME NEW x \in Angles
        PROVE  /\ answer[<<x, "ab">>] \in PenaltyAnswer
               /\ answer[<<x, "ba">>] \in PenaltyAnswer
               /\ \/ answer[<<x, "ab">>] = answer[<<x, "ba">>]
                  \/ answer[<<x, "ab">>].failed \/ answer[<<x, "ba">>].failed
    <3>1. <<x, "ab">> \in S1Calls /\ <<x, "ba">> \in S1Calls /\ asked = S1Calls
      BY <1>1 DEF DuelInv, DuelStages, S1Calls, Orders
    <3>2. <<x, "ab">> \in DOMAIN answer /\ <<x, "ba">> \in DOMAIN answer
      BY <1>0, <3>1, CallsApart DEF Complete
    <3>3. answer[<<x, "ab">>] \in PenaltyAnswer /\ answer[<<x, "ba">>] \in PenaltyAnswer
      BY <3>1, <3>2, PossibleAnswers DEF DuelInv, DuelTypeOK
    <3>4. Mirrored(<<x, "ab">>) = <<x, "ba">>
      BY MirroredPairs
    <3> QED BY <3>2, <3>3, <3>4 DEF Positional
  <2>2. /\ f \in [Angles -> PenaltyAnswer] /\ g \in [Angles -> PenaltyAnswer]
        /\ \A x \in Angles : f[x] = g[x] \/ f[x].failed \/ g[x].failed
    BY <2>1
  <2>3. Verdict("s1", answer, choice) = PromptMatch(Angles, f, g)
    BY DEF Verdict
  <2> HIDE DEF f, g
  <2> QED BY <1>1, <2>2, <2>3, PromptMatchBlind, MultiStageAssumption
<1>2. CASE stage = "s2"
  <2>1. Pair("artifact") \subseteq DOMAIN answer
    <3> SUFFICES ASSUME NEW c \in Pair("artifact") PROVE c \in DOMAIN answer
      OBVIOUS
    <3>1. c \in asked /\ c \notin Verify
      BY <1>2, CallsApart DEF DuelInv, DuelStages, Pair
    <3> QED BY <1>0, <3>1 DEF Complete
  <2>2. DiffOf("artifact", answer) = 0 /\ Gap(answer) = 0
    BY <2>1, BlindPair, BlindChecklist
  <2>3. BestDiff(answer) = 0
    BY BlindPair DEF BestDiff
  <2>4. Verdict("s2", answer, choice) = SubJudges(0, 0, 0)
    BY <2>2, <2>3 DEF Verdict
  <2>5. \A n \in Int : n <= 0 /\ n >= 0 => SubJudges(n, n, n) = Flip(SubJudges(n, n, n))
    <3> SUFFICES ASSUME NEW n \in Int, n <= 0 /\ n >= 0
                 PROVE  SubJudges(n, n, n) = Flip(SubJudges(n, n, n))
      OBVIOUS
    <3>1. SubJudges(-n, -n, -n) = Flip(SubJudges(n, n, n)) /\ -n = n
      BY SubJudgesFlip, MinusZero
    <3> QED BY <3>1, Zenon
  <2>6. SubJudges(0, 0, 0) \in {"A", "B", "draw"}
    BY SubJudgesFlip
  <2> QED BY <1>2, <2>4, <2>5, <2>6 DEF Flip
<1>3. CASE stage = "s3"
  <2> DEFINE p == answer[<<"gray", "ab">>]
             q == answer[<<"gray", "ba">>]
  <2>1. Pair("gray") \subseteq DOMAIN answer
    <3> SUFFICES ASSUME NEW c \in Pair("gray") PROVE c \in DOMAIN answer
      OBVIOUS
    <3>1. c \in asked /\ c \notin Verify
      BY <1>3, CallsApart DEF DuelInv, DuelStages, S3Calls
    <3> QED BY <1>0, <3>1 DEF Complete
  <2>2. p = q /\ p \in PenaltyAnswer /\ q \in PenaltyAnswer
    BY <2>1, BlindPair, DiffOfMirror
  <2>3. Verdict("s3", answer, choice) = GrayRescue(p, q)
    BY DEF Verdict
  <2> HIDE DEF p, q
  <2>4. GrayRescue(p, q) = Flip(GrayRescue(p, q)) /\ GrayRescue(p, q) \in {"A", "B", "draw"}
    BY <2>2, GrayFlips
  <2> QED BY <1>3, <2>3, <2>4 DEF Flip
<1> QED BY <1>1, <1>2, <1>3 DEF Judged

-----------------------------------------------------------------------------
(* The steps of a duel.                                                     *)

LEMMA DuelInitially == DuelInit => DuelInv
<1> SUFFICES ASSUME DuelInit PROVE DuelInv
  OBVIOUS
<1>1. waiting \in Seq(S1Calls) /\ DOMAIN answer = {}
  BY DEF DuelInit
<1> QED BY <1>1 DEF DuelInit, DuelInv, DuelTypeOK, DuelStages

\* The calls of the first stage in an order.
LEMMA CallsInOrder ==
  LET all == SetToSeq(S1Calls) IN all \in Seq(S1Calls) /\ Len(all) \in Nat
<1>1. IsFiniteSet(S1Calls)
  <2>1. IsFiniteSet(Orders)
    <3>1. Orders = {"ab"} \cup {"ba"}
      BY DEF Orders
    <3> QED BY <3>1, FS_Singleton, FS_AddElement
  <2> QED BY <2>1, MultiStageAssumption, FS_Product DEF S1Calls
<1> DEFINE n == Cardinality(S1Calls)
<1>2. n \in Nat /\ ExistsBijection(1 .. n, S1Calls)
  BY <1>1, FS_CardinalityType
<1>3. \E f \in [1 .. n -> S1Calls] : IsInjective(f)
  BY <1>2 DEF ExistsBijection, Bijection, Injection
<1>4. SetToSeq(S1Calls) \in [1 .. n -> S1Calls]
  BY <1>3 DEF SetToSeq
<1> HIDE DEF n
<1> QED BY <1>2, <1>4

LEMMA BeginDuelKept == DuelInv /\ BeginDuel => DuelInv'
<1> SUFFICES ASSUME DuelInv, BeginDuel PROVE DuelInv'
  OBVIOUS
<1> DEFINE all == SetToSeq(S1Calls)
           n == Min({Cap, Len(all)})
<1>1. /\ stage = "start" /\ stage' = "s1" /\ asked' = S1Calls
      /\ flying' = {all[i] : i \in 1 .. n} /\ waiting' = SubSeq(all, n + 1, Len(all))
      /\ UNCHANGED <<answer, explained, choice>>
  BY DEF BeginDuel
<1>2. all \in Seq(S1Calls) /\ Len(all) \in Nat
  BY CallsInOrder
<1> HIDE DEF all
<1>3. n \in Nat /\ n <= Len(all)
  BY <1>2, MultiStageAssumption DEF Min
<1> HIDE DEF n
<1>4. flying' \subseteq S1Calls /\ waiting' \in Seq(S1Calls)
  <2>1. \A i \in 1 .. n : all[i] \in S1Calls
    BY <1>2, <1>3
  <2>2. SubSeq(all, n + 1, Len(all)) \in Seq(S1Calls)
    BY <1>2, <1>3, SubSeqProperties
  <2> QED BY <1>1, <2>1, <2>2
<1>5. DOMAIN answer = {}
  BY <1>1 DEF DuelInv, DuelTypeOK, DuelStages
<1>6. DuelTypeOK'
  BY <1>1, <1>4, <1>5 DEF DuelInv, DuelTypeOK, Calls
<1> QED BY <1>1, <1>6 DEF DuelInv, DuelStages

LEMMA AnswerKept ==
  ASSUME DuelInv, NEW c \in Calls, Answer(c)
  PROVE  DuelInv'
<1>1. /\ c \in asked
      /\ UNCHANGED <<stage, explained, choice>>
  BY DEF Answer
<1>2. PICK v \in Possible(c) :
        /\ answer' = [d \in DOMAIN answer \cup {c} |-> IF d = c THEN v ELSE answer[d]]
        /\ asked' = asked \cup Next2(c, v)
        /\ IF c \in S1Calls /\ waiting # <<>>
           THEN /\ flying' = (flying \ {c}) \cup {Head(waiting)}
                /\ waiting' = Tail(waiting)
           ELSE /\ flying' = (flying \ {c}) \cup Next2(c, v)
                /\ UNCHANGED waiting
  BY DEF Answer
<1>3. Next2(c, v) \subseteq Verify /\ (c # List => Next2(c, v) = {}) /\ Verify \subseteq S2Calls
  BY DEF Next2, S2Calls
<1>4. asked' \subseteq Calls
  BY <1>2, <1>3 DEF DuelInv, DuelTypeOK, Calls
<1>5. flying' \subseteq Calls /\ waiting' \in Seq(S1Calls)
  <2>1. waiting \in Seq(S1Calls) /\ flying \subseteq Calls
    BY DEF DuelInv, DuelTypeOK
  <2>2. CASE c \in S1Calls /\ waiting # <<>>
    <3>1. Head(waiting) \in S1Calls /\ Tail(waiting) \in Seq(S1Calls)
      BY <2>1, <2>2, HeadTailProperties, EmptySeq
    <3> QED BY <1>2, <2>1, <2>2, <3>1 DEF Calls
  <2>3. CASE ~(c \in S1Calls /\ waiting # <<>>)
    BY <1>2, <1>3, <2>1, <2>3 DEF Calls
  <2> QED BY <2>2, <2>3
<1>6. DOMAIN answer' \subseteq asked' /\ \A d \in DOMAIN answer' : answer'[d] \in Possible(d)
  BY <1>1, <1>2 DEF DuelInv, DuelTypeOK
<1>7. DuelTypeOK'
  BY <1>1, <1>4, <1>5, <1>6 DEF DuelInv, DuelTypeOK
<1>8. DuelStages'
  <2>1. stage \in {"s1", "s3", "s4"} => c # List
    BY <1>1, CallsApart DEF DuelInv, DuelStages
  <2>2. stage \in {"s1", "s3", "s4"} => asked' = asked
    BY <1>2, <1>3, <2>1
  <2>3. stage = "s2" => Pair("artifact") \subseteq asked' /\ asked' \subseteq S2Calls
    BY <1>2, <1>3 DEF DuelInv, DuelStages
  <2>4. stage \notin {"start", "explain", "done"}
    BY <1>1 DEF DuelInv, DuelStages
  <2> QED BY <1>1, <2>2, <2>3, <2>4 DEF DuelInv, DuelStages
<1> QED BY <1>7, <1>8 DEF DuelInv

\* A stage that is over leaves its calls behind.
LEMMA StageKept ==
  ASSUME DuelInv, S1 \/ S2 \/ S3 \/ S4
  PROVE  DuelInv'
<1>1. /\ stage \in {"s1", "s2", "s3", "s4"} /\ Judged
      /\ choice' = Verdict(stage, answer, choice)
      /\ UNCHANGED <<waiting, explained>>
  BY DEF S1, S2, S3, S4, Decided, Judged
<1>2. choice' \in {"none", "A", "B", "draw"}
  <2>1. choice \in Sides
    BY DEF DuelInv, DuelTypeOK, Sides
  <2> QED BY <1>1, <2>1, VerdictFlips DEF Sides
<1>3. \/ stage' = "explain" /\ Ask({}, flying)
      \/ stage' = "s2" /\ \E best \in {Pair("best"), {}} : Ask(best \cup Pair("artifact") \cup {List}, flying)
      \/ stage' = "s3" /\ Ask(S3Calls, flying)
      \/ stage' = "s4" /\ Ask(S4Calls, flying)
  BY DEF S1, S2, S3, S4
<1>4. PICK calls \in SUBSET Calls :
        /\ Ask(calls, flying) /\ stage' \in {"explain", "s2", "s3", "s4"}
        /\ stage' = "explain" => calls = {}
        /\ stage' = "s2" => Pair("artifact") \subseteq calls /\ calls \subseteq S2Calls
        /\ stage' = "s3" => calls = S3Calls
        /\ stage' = "s4" => calls = S4Calls
  BY <1>3 DEF Calls, S2Calls
<1>5. asked' = calls /\ flying' = flying \cup calls /\ DOMAIN answer' = {}
  BY <1>4 DEF Ask
<1>6. DuelTypeOK'
  BY <1>1, <1>2, <1>4, <1>5 DEF DuelInv, DuelTypeOK
<1> QED BY <1>4, <1>5, <1>6 DEF DuelInv, DuelStages

LEMMA DuelStep == DuelInv /\ [DuelNext]_duelVars => DuelInv'
<1> SUFFICES ASSUME DuelInv, [DuelNext]_duelVars PROVE DuelInv'
  OBVIOUS
<1>1. CASE Missing
  BY <1>1 DEF Missing, DuelInv, DuelTypeOK, DuelStages
<1>2. CASE Explain
  BY <1>2 DEF Explain, DuelInv, DuelTypeOK, DuelStages
<1>3. CASE End
  BY <1>3 DEF End, DuelInv, DuelTypeOK, DuelStages
<1>4. ASSUME NEW c \in Calls, Orphan(c) PROVE DuelInv'
  BY <1>4 DEF Orphan, DuelInv, DuelTypeOK, DuelStages
<1>5. CASE UNCHANGED duelVars
  BY <1>5 DEF duelVars, DuelInv, DuelTypeOK, DuelStages
<1> QED BY <1>1, <1>2, <1>3, <1>4, <1>5, BeginDuelKept, StageKept, AnswerKept DEF DuelNext

LEMMA DuelInvariant == DuelSpec => []DuelInv
BY DuelInitially, DuelStep, PTL DEF DuelSpec

\* The calls, answers and verdict of a duel keep to their types
\* (multi_stage.py:439-495, 1480-1616).
THEOREM DuelType == DuelSpec => []DuelTypeOK
<1>1. DuelInv => DuelTypeOK
  BY DEF DuelInv
<1> QED BY <1>1, DuelInvariant, PTL

\* No side has an advantage: every stage's verdict is the opposite one when the two
\* miners change places (multi_stage.py:641-1347).
THEOREM DuelFavoursNobody == DuelSpec => []MirrorFair
BY DuelIsFair, DuelInvariant, PTL

\* A model that looks at the position only decides no comparison, unless just one of
\* the two orders of a pair of stage 2 or 3 fails (multi_stage.py:7, 682-685, 996-1015).
THEOREM PositionIsIgnored == DuelSpec => []PositionDecidesNothing
BY BlindDuelIsDrawn, DuelInvariant, PTL
=============================================================================

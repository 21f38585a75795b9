------------------------- MODULE SovereignDoProofs -------------------------
(***************************************************************************)
(* Theorems about SovereignDo, for any number of commands, files, contents  *)
(* and any verifiers, and about SovereignRun, for any number of commands.   *)
(* The argument for the workspace: as long as nobody has written behind the *)
(* copy that was verified, the workspace with the rest of the proposal in   *)
(* it is the copy; so the write that leaves no rest leaves the copy itself. *)
(***************************************************************************)
EXTENDS SovereignDo, SovereignRun, TLAPS

WritingBack == {"applying", "writing", "bare", "truncated", "written"}
BeforeProposal == {"off", "local"}

\* The workspace with what p has still to write back.
Finished(p) == [f \in Files |-> IF f \in left[p] THEN proposal[p][f] ELSE ws[f]]

\* A command has files left only while it writes them back, and they are its own.
RestIsOwn ==
  \A p \in Procs : /\ left[p] \subseteq Targets(p)
                   /\ place[p] \notin WritingBack => left[p] = {}
                   /\ place[p] \in {"writing", "bare", "truncated"} => file[p] \in left[p]
                   /\ place[p] \in BeforeProposal => proposal[p] = Nothing

\* What a command that nobody overtook is about to leave is the copy it verified, ...
RestIsVerified ==
  \A p \in Procs \ overtaken :
    /\ place[p] \in WritingBack => Finished(p) = copy[p]
    /\ place[p] = "truncated" => ws[file[p]] = "torn"

\* ... and what it is about to overwrite has been backed up.
NextIsBackedUp ==
  \A p \in Procs \ overtaken :
    place[p] = "writing" /\ kind[p] = "optimize" => ws[file[p]] \in blobs \cup badBlobs

\* While no line of the ledger is torn, a command shuns all that was condemned when it
\* began, and proposes nothing that it shuns.
LedgerIsHeeded ==
  /\ ~ledgerTorn => ever \subseteq condemned
  /\ \A p \in Procs : ~ledgerTorn /\ kind[p] = "optimize" => barred[p] \subseteq shunned[p]
  /\ \A p \in Procs, f \in Files : proposal[p][f] \notin shunned[p]

\* The inductive invariant.
IInv == /\ TypeOK /\ RestIsOwn
        /\ RestIsVerified /\ WorkspaceIsVerified
        /\ NextIsBackedUp /\ LedgerIsHeeded

----------------------------------------------------------------------------
\* The steps of p leave the other commands where they are.
OnlyMoves(p) == \A q \in Procs \ {p} : place'[q] = place[q] /\ left'[q] = left[q] /\ proposal'[q] = proposal[q]

\* A step that writes nothing keeps the workspace in order, unless p leaves its files midway.
LEMMA VerifiedStays ==
  ASSUME WorkspaceIsVerified, NEW p \in Procs, OnlyMoves(p), UNCHANGED <<ws, vouched>>,
         spoiled => spoiled', Midway(p) => Midway(p)' \/ spoiled'
  PROVE  WorkspaceIsVerified'
<1>1. \A q \in Procs \ {p} : Midway(q) => Midway(q)'
  BY DEF OnlyMoves, Midway, At, Targets
<1>2. QED BY <1>1 DEF WorkspaceIsVerified

\* Every step keeps the invariant.
LEMMA InductiveInvariant == Spec => []IInv
<1>1. Init => IInv
  <2> SUFFICES ASSUME Init PROVE IInv
    OBVIOUS
  <2> USE SovereignAssumption DEF Init
  <2>1. TypeOK
    <3>1. Nothing \in [Files -> Contents \cup {"none"}] /\ Nothing \in [Files -> Contents \cup {"torn", "none"}]
      BY DEF Nothing
    <3>2. ws \in [Files -> Contents \cup {"torn"}] /\ vouched \in [Files -> Contents \cup {"torn", "none"}]
      OBVIOUS
    <3>3. /\ proposal \in [Procs -> [Files -> Contents \cup {"none"}]]
          /\ copy \in [Procs -> [Files -> Contents \cup {"torn", "none"}]]
          /\ verifier \in [Procs -> BOOLEAN]
      BY <3>1
    <3>4. /\ file \in [Procs -> Files \cup {"none"}] /\ place \in [Procs -> Places]
          /\ kind \in [Procs -> {"do", "optimize"}] /\ reported \in [Procs -> {"none", "pass", "fail"}]
      BY DEF Places
    <3>5. condemned = {} /\ ever = {} /\ blobs = {} /\ badBlobs = {} /\ overtaken = {} /\ tasks \in 0..MaxTasks
      OBVIOUS
    <3>6. shunned \in [Procs -> SUBSET Contents] /\ barred \in [Procs -> SUBSET Contents]
          /\ left \in [Procs -> SUBSET Files]
      OBVIOUS
    <3>7. ledgerTorn \in BOOLEAN /\ spoiled \in BOOLEAN
      OBVIOUS
    <3>8. QED BY ONLY <3>1, <3>2, <3>3, <3>4, <3>5, <3>6, <3>7 DEF TypeOK
  <2>2. RestIsOwn /\ RestIsVerified /\ WorkspaceIsVerified /\ NextIsBackedUp
    BY DEF RestIsOwn, RestIsVerified, WorkspaceIsVerified, NextIsBackedUp, WritingBack, BeforeProposal
  <2>3. LedgerIsHeeded
    BY DEF LedgerIsHeeded, Nothing
  <2>4. QED BY <2>1, <2>2, <2>3 DEF IInv
<1>2. IInv /\ [Next]_vars => IInv'
  <2> SUFFICES ASSUME IInv, [Next]_vars PROVE IInv'
    OBVIOUS
  <2> USE SovereignAssumption DEF IInv, TypeOK, Places, At, Goto, disk, started, working, fate, Nothing
  <2>1. ASSUME NEW p \in Procs, NEW k \in {"do", "optimize"}, Begin(p, k) PROVE IInv'
    <3>1. TypeOK'
      <4>1. place' \in [Procs -> Places] /\ verifier' \in [Procs -> BOOLEAN]
        <5>1. /\ place' = [place EXCEPT ![p] = "local"] \/ place' = [place EXCEPT ![p] = "cloud"]
              /\ \E has \in BOOLEAN : verifier' = [verifier EXCEPT ![p] = has]
          BY ONLY <2>1 DEF Begin, Goto
        <5>2. /\ place \in [Procs -> Places] /\ {"local", "cloud"} \subseteq Places
              /\ verifier \in [Procs -> BOOLEAN]
          OBVIOUS
        <5>3. QED BY ONLY <5>1, <5>2
      <4>2. /\ kind' \in [Procs -> {"do", "optimize"}] /\ tasks' \in 0..MaxTasks
            /\ shunned' \in [Procs -> SUBSET Contents] /\ barred' \in [Procs -> SUBSET Contents]
        BY <2>1 DEF Begin
      <4>3. UNCHANGED <<disk, working, ever, fate>>
        BY <2>1 DEF Begin
      <4>4. QED BY <4>1, <4>2, <4>3
    <3>2. RestIsOwn'
      BY <2>1 DEF Begin, RestIsOwn, WritingBack, BeforeProposal, Targets
    <3>3. RestIsVerified'
      BY <2>1 DEF Begin, RestIsVerified, RestIsOwn, Finished, WritingBack, Targets
    <3>4. WorkspaceIsVerified'
      BY <2>1, SMTT(30) DEF Begin, WorkspaceIsVerified, RestIsOwn, Midway, WritingBack, Targets
    <3>5. NextIsBackedUp'
      BY <2>1 DEF Begin, NextIsBackedUp
    <3>6. LedgerIsHeeded'
      BY <2>1 DEF Begin, LedgerIsHeeded, RestIsOwn, BeforeProposal
    <3>7. QED BY <3>1, <3>2, <3>3, <3>4, <3>5, <3>6
  <2>3. ASSUME NEW p \in Procs, Generate(p) PROVE IInv'
    <3>a. /\ proposal' \in [Procs -> [Files -> Contents \cup {"none"}]]
          /\ \A q \in Procs \ {p} : proposal'[q] = proposal[q]
          /\ \A f \in Files : proposal'[p][f] \notin shunned[p]
      <4>1. CASE UNCHANGED proposal
        BY <4>1 DEF LedgerIsHeeded
      <4>2. ASSUME NEW c \in [Files -> Contents \cup {"none"}], \A f \in Files : c[f] \notin shunned[p],
                   proposal' = [proposal EXCEPT ![p] = c]
            PROVE  /\ proposal' \in [Procs -> [Files -> Contents \cup {"none"}]]
                   /\ \A q \in Procs \ {p} : proposal'[q] = proposal[q]
                   /\ \A f \in Files : proposal'[p][f] \notin shunned[p]
        BY <4>2
      <4>3. QED BY <2>3, <4>1, <4>2 DEF Generate
    <3>1. TypeOK'
      <4>1. place' \in [Procs -> Places]
        <5>1. place' = [place EXCEPT ![p] = "failed"] \/ place' = [place EXCEPT ![p] = "copying"]
          BY ONLY <2>3 DEF Generate, Goto
        <5>2. place \in [Procs -> Places] /\ {"failed", "copying"} \subseteq Places
          OBVIOUS
        <5>3. QED BY ONLY <5>1, <5>2
      <4>2. UNCHANGED <<disk, started, left, file, reported, copy, tasks, ever, fate>>
        BY <2>3 DEF Generate
      <4>3. QED BY <3>a, <4>1, <4>2
    <3>2. RestIsOwn'
      <4>1. /\ place' = [place EXCEPT ![p] = "failed"] \/ place' = [place EXCEPT ![p] = "copying"]
            /\ place[p] = "local" /\ UNCHANGED <<left, file>>
        BY ONLY <2>3 DEF Generate, At, Goto
      <4>2. left[p] = {}
        BY ONLY <4>1, IInv DEF IInv, RestIsOwn, WritingBack
      <4>3. QED BY <3>a, <4>1, <4>2 DEF RestIsOwn, WritingBack, BeforeProposal, Targets
    <3>3. RestIsVerified'
      BY <2>3 DEF Generate, RestIsVerified, RestIsOwn, Finished, WritingBack, Targets
    <3>4. WorkspaceIsVerified'
      <4>1. OnlyMoves(p) /\ ~Midway(p)
        <5>1. /\ place[p] = "local" /\ UNCHANGED left
              /\ \A q \in Procs \ {p} : place'[q] = place[q]
          BY <2>3 DEF Generate
        <5>2. QED BY <3>a, <5>1 DEF OnlyMoves, RestIsOwn, Midway, WritingBack
      <4>2. QED BY <2>3, <4>1, VerifiedStays DEF Generate
    <3>5. NextIsBackedUp'
      BY <2>3 DEF Generate, NextIsBackedUp
    <3>6. LedgerIsHeeded'
      BY <2>3, <3>a DEF Generate, LedgerIsHeeded
    <3>7. QED BY <3>1, <3>2, <3>3, <3>4, <3>5, <3>6
  <2>4. ASSUME NEW p \in Procs, Verify(p) PROVE IInv'
    <3>a. /\ place' \in [Procs -> Places] /\ place[p] = "copying" /\ place'[p] \in {"applying", "failed"}
          /\ \A q \in Procs \ {p} : /\ place'[q] = place[q] /\ left'[q] = left[q]
                                    /\ proposal'[q] = proposal[q] /\ copy'[q] = copy[q]
          /\ proposal' \in [Procs -> [Files -> Contents \cup {"none"}]]
          /\ \A q \in Procs, f \in Files : proposal'[q][f] \in {proposal[q][f], "none"}
          /\ left' \in [Procs -> SUBSET Files]
          /\ copy' \in [Procs -> [Files -> Contents \cup {"torn", "none"}]]
      <4>1. /\ Nothing \in [Files -> Contents \cup {"none"}] /\ Targets(p) \subseteq Files
            /\ Applied(p) \in [Files -> Contents \cup {"torn", "none"}]
        BY DEF Targets, Applied
      <4>2. CASE Accept(p, Applied(p))
        BY <2>4, <4>1, <4>2 DEF Accept, Verify
      <4>3. CASE Reject(p)
        BY <2>4, <4>1, <4>3 DEF Reject, Verify
      <4>4. QED BY <2>4, <4>2, <4>3 DEF Verify
    <3>b. /\ UNCHANGED <<disk, started, file, reported, tasks, ever, vouched, spoiled>>
          /\ overtaken' = overtaken \ {p}
      BY <2>4 DEF Verify
    <3>1. TypeOK'
      BY <3>a, <3>b
    <3>2. RestIsOwn'
      <4>1. CASE Accept(p, Applied(p))
        BY <3>a, <3>b, <4>1 DEF Accept, RestIsOwn, WritingBack, BeforeProposal, Targets
      <4>2. CASE Reject(p)
        BY <3>a, <3>b, <4>2 DEF Reject, RestIsOwn, WritingBack, BeforeProposal, Targets
      <4>3. QED BY <2>4, <4>1, <4>2 DEF Verify
    <3>3. RestIsVerified'
      <4>1. ASSUME NEW q \in Procs \ overtaken', q # p
            PROVE  /\ place'[q] \in WritingBack => Finished(q)' = copy'[q]
                   /\ place'[q] = "truncated" => ws'[file'[q]] = "torn"
        <5>1. Finished(q)' = Finished(q) /\ q \notin overtaken
          BY <3>a, <3>b, <4>1 DEF Finished
        <5>2. QED BY <3>a, <3>b, <4>1, <5>1 DEF RestIsVerified
      <4>2. CASE Accept(p, Applied(p))
        <5>1. place'[p] = "applying" /\ left'[p] = Targets(p) /\ UNCHANGED <<proposal, ws>>
          BY <3>b, <4>2 DEF Accept
        <5>0. copy'[p] = Applied(p)
          BY <4>2 DEF Accept
        <5>2. Finished(p)' = Applied(p)
          BY <5>1 DEF Finished, Applied, Targets
        <5>3. QED BY <4>1, <5>0, <5>1, <5>2 DEF RestIsVerified
      <4>3. CASE Reject(p)
        <5>1. place'[p] = "failed"
          BY <4>3 DEF Reject
        <5>2. QED BY <4>1, <5>1 DEF RestIsVerified, WritingBack
      <4>4. QED BY <2>4, <4>2, <4>3 DEF Verify
    <3>4. WorkspaceIsVerified'
      <4>1. OnlyMoves(p) /\ ~Midway(p)
        BY <3>a DEF OnlyMoves, RestIsOwn, Midway, WritingBack
      <4>2. QED BY <3>b, <4>1, VerifiedStays
    <3>5. NextIsBackedUp'
      BY <3>a, <3>b DEF NextIsBackedUp
    <3>6. LedgerIsHeeded'
      BY <3>a, <3>b DEF LedgerIsHeeded
    <3>7. QED BY <3>1, <3>2, <3>3, <3>4, <3>5, <3>6
  <2>5. ASSUME NEW p \in Procs, NEW f \in Files, Backup(p, f) PROVE IInv'
    <3>1. TypeOK'
      BY <2>5 DEF Backup
    <3>2. RestIsOwn'
      BY <2>5 DEF Backup, RestIsOwn, WritingBack, BeforeProposal, Targets
    <3>3. RestIsVerified'
      BY <2>5 DEF Backup, RestIsVerified, RestIsOwn, Finished, WritingBack, Targets
    <3>4. WorkspaceIsVerified'
      <4>1. OnlyMoves(p) /\ (Midway(p) => Midway(p)')
        BY <2>5 DEF Backup, OnlyMoves, Midway, Targets
      <4>2. QED BY <2>5, <4>1, VerifiedStays DEF Backup
    <3>5. NextIsBackedUp'
      BY <2>5 DEF Backup, NextIsBackedUp
    <3>6. LedgerIsHeeded'
      BY <2>5 DEF Backup, LedgerIsHeeded
    <3>7. QED BY <3>1, <3>2, <3>3, <3>4, <3>5, <3>6
  <2>6. ASSUME NEW p \in Procs, Truncate(p) PROVE IInv'
    <3>1. TypeOK'
      BY <2>6 DEF Truncate
    <3>2. RestIsOwn'
      BY <2>6 DEF Truncate, RestIsOwn, WritingBack, BeforeProposal, Targets
    <3>3. RestIsVerified'
      BY <2>6 DEF Truncate, RestIsVerified, RestIsOwn, Finished, WritingBack, Targets
    <3>4. WorkspaceIsVerified'
      BY <2>6 DEF Truncate, WorkspaceIsVerified, RestIsOwn, Midway, WritingBack, Targets
    <3>5. NextIsBackedUp'
      BY <2>6 DEF Truncate, NextIsBackedUp
    <3>6. LedgerIsHeeded'
      BY <2>6 DEF Truncate, LedgerIsHeeded
    <3>7. QED BY <3>1, <3>2, <3>3, <3>4, <3>5, <3>6
  <2>7. ASSUME NEW p \in Procs, Write(p) PROVE IInv'
    <3>1. TypeOK'
      <4>1. file[p] \in Files /\ proposal[p][file[p]] \in Contents
        BY <2>7 DEF Write, RestIsOwn, Targets
      <4>2. ws' \in [Files -> Contents \cup {"torn"}]
        BY <2>7, <4>1 DEF Write
      <4>3. left' \in [Procs -> SUBSET Files] /\ spoiled' \in BOOLEAN
        BY <2>7 DEF Write
      <4>4. QED BY <2>7, <4>2, <4>3 DEF Write
    <3>2. RestIsOwn'
      BY <2>7 DEF Write, RestIsOwn, WritingBack, BeforeProposal, Targets
    <3>3. RestIsVerified'
      BY <2>7 DEF Write, RestIsVerified, RestIsOwn, Finished, WritingBack, Targets
    <3>4. WorkspaceIsVerified'
      <4>1. file[p] \in left[p] /\ left'[p] = left[p] \ {file[p]} /\ Targets(p)' = Targets(p)
        BY <2>7 DEF Write, RestIsOwn, Targets
      <4>2. CASE p \in overtaken
        BY <2>7, <4>2 DEF Write, WorkspaceIsVerified
      <4>3. CASE left'[p] # {}
        <5>1. Midway(p)'
          BY <4>1, <4>3 DEF Midway, RestIsOwn
        <5>2. QED BY <5>1 DEF WorkspaceIsVerified
      \* Nobody wrote the file since, so the text is whole, and it was the last one.
      <4>4. CASE p \notin overtaken /\ left'[p] = {}
        <5>1. Finished(p) = copy[p] /\ ws[file[p]] = "torn"
          BY <2>7, <4>4 DEF Write, RestIsVerified, WritingBack
        <5>2. ws' = [ws EXCEPT ![file[p]] = proposal[p][file[p]]]
          BY <2>7, <5>1 DEF Write
        <5>3. ws' = Finished(p)
          <6>1. left[p] = {file[p]} /\ Finished(p) = [f \in Files |-> IF f = file[p] THEN proposal[p][f] ELSE ws[f]]
            <7>1. left[p] = {file[p]}
              BY <4>1, <4>4
            <7>2. QED BY ONLY <7>1 DEF Finished
          <6>2. ws' = [f \in Files |-> IF f = file[p] THEN proposal[p][f] ELSE ws[f]]
            BY <5>2
          <6>3. QED BY <6>1, <6>2
        <5>4. vouched' = copy[p]
          BY <2>7, <4>4 DEF Write
        <5>5. QED BY <5>1, <5>3, <5>4 DEF WorkspaceIsVerified
      <4>5. QED BY <4>2, <4>3, <4>4
    <3>5. NextIsBackedUp'
      BY <2>7 DEF Write, NextIsBackedUp
    <3>6. LedgerIsHeeded'
      BY <2>7 DEF Write, LedgerIsHeeded
    <3>7. QED BY <3>1, <3>2, <3>3, <3>4, <3>5, <3>6
  <2>8. ASSUME NEW p \in Procs, RecordPass(p) PROVE IInv'
    <3>1. TypeOK'
      BY <2>8 DEF RecordPass
    <3>2. RestIsOwn'
      BY <2>8 DEF RecordPass, RestIsOwn, WritingBack, BeforeProposal, Targets
    <3>3. RestIsVerified'
      BY <2>8 DEF RecordPass, RestIsVerified, RestIsOwn, Finished, WritingBack, Targets
    <3>4. WorkspaceIsVerified'
      <4>1. OnlyMoves(p) /\ (Midway(p) => Midway(p)')
        BY <2>8 DEF RecordPass, OnlyMoves, Midway, Targets
      <4>2. QED BY <2>8, <4>1, VerifiedStays DEF RecordPass
    <3>5. NextIsBackedUp'
      BY <2>8 DEF RecordPass, NextIsBackedUp
    <3>6. LedgerIsHeeded'
      BY <2>8 DEF RecordPass, LedgerIsHeeded
    <3>7. QED BY <3>1, <3>2, <3>3, <3>4, <3>5, <3>6
  <2>9. ASSUME NEW p \in Procs, Passed(p) PROVE IInv'
    <3>1. TypeOK'
      BY <2>9 DEF Passed, Ends, Report
    <3>2. RestIsOwn'
      BY <2>9 DEF Passed, Ends, Report, RestIsOwn, WritingBack, BeforeProposal, Targets
    <3>3. RestIsVerified'
      BY <2>9 DEF Passed, Ends, Report, RestIsVerified, RestIsOwn, Finished, WritingBack, Targets
    <3>4. WorkspaceIsVerified'
      <4>1. OnlyMoves(p) /\ ~Midway(p)
        BY <2>9 DEF Passed, Ends, OnlyMoves, RestIsOwn, Midway, WritingBack
      <4>2. QED BY <2>9, <4>1, VerifiedStays DEF Passed
    <3>5. NextIsBackedUp'
      BY <2>9 DEF Passed, Ends, Report, NextIsBackedUp
    <3>6. LedgerIsHeeded'
      BY <2>9 DEF Passed, Ends, Report, LedgerIsHeeded
    <3>7. QED BY <3>1, <3>2, <3>3, <3>4, <3>5, <3>6
  <2>10. ASSUME NEW p \in Procs, Failed(p) PROVE IInv'
    <3>1. TypeOK'
      <4>1. reported' \in [Procs -> {"none", "pass", "fail"}]
        BY <2>10, SMTT(30) DEF Failed, Ends, Report
      <4>2. place' \in [Procs -> Places]
        <5>1. place' = [place EXCEPT ![p] = "cloud"] \/ place' = [place EXCEPT ![p] = "done"]
          BY ONLY <2>10 DEF Failed, Ends, Goto
        <5>2. place \in [Procs -> Places] /\ {"cloud", "done"} \subseteq Places
          OBVIOUS
        <5>3. QED BY ONLY <5>1, <5>2
      <4>3. UNCHANGED <<disk, started, proposal, left, file, copy, tasks, ever, fate>>
        BY <2>10 DEF Failed
      <4>4. QED BY <4>1, <4>2, <4>3
    <3>2. RestIsOwn'
      <4>1. place'[p] \in {"cloud", "done"} /\ \A q \in Procs \ {p} : place'[q] = place[q]
        BY <2>10 DEF Failed, Ends
      <4>2. QED BY <2>10, <4>1 DEF Failed, RestIsOwn, WritingBack, BeforeProposal, Targets
    <3>3. RestIsVerified'
      BY <2>10 DEF Failed, Ends, Report, RestIsVerified, RestIsOwn, Finished, WritingBack, Targets
    <3>4. WorkspaceIsVerified'
      BY <2>10 DEF Failed, Ends, Report, WorkspaceIsVerified, RestIsOwn, Midway, WritingBack, Targets
    <3>5. NextIsBackedUp'
      BY <2>10 DEF Failed, Ends, Report, NextIsBackedUp
    <3>6. LedgerIsHeeded'
      BY <2>10 DEF Failed, Ends, Report, LedgerIsHeeded
    <3>7. QED BY <3>1, <3>2, <3>3, <3>4, <3>5, <3>6
  <2>11. ASSUME NEW p \in Procs, Cloud(p) PROVE IInv'
    <3>1. TypeOK'
      BY <2>11 DEF Cloud, Ends, Report
    <3>2. RestIsOwn'
      BY <2>11 DEF Cloud, Ends, Report, RestIsOwn, WritingBack, BeforeProposal, Targets
    <3>3. RestIsVerified'
      BY <2>11 DEF Cloud, Ends, Report, RestIsVerified, RestIsOwn, Finished, WritingBack, Targets
    <3>4. WorkspaceIsVerified'
      <4>1. OnlyMoves(p) /\ ~Midway(p)
        BY <2>11 DEF Cloud, Ends, OnlyMoves, RestIsOwn, Midway, WritingBack
      <4>2. QED BY <2>11, <4>1, VerifiedStays DEF Cloud
    <3>5. NextIsBackedUp'
      BY <2>11 DEF Cloud, Ends, Report, NextIsBackedUp
    <3>6. LedgerIsHeeded'
      BY <2>11 DEF Cloud, Ends, Report, LedgerIsHeeded
    <3>7. QED BY <3>1, <3>2, <3>3, <3>4, <3>5, <3>6
  <2>12. ASSUME NEW p \in Procs, Exit(p) PROVE IInv'
    <3>1. TypeOK'
      BY <2>12 DEF Exit, Gone
    <3>2. RestIsOwn'
      BY <2>12 DEF Exit, Gone, RestIsOwn, WritingBack, BeforeProposal, Targets
    <3>3. RestIsVerified'
      BY <2>12 DEF Exit, Gone, RestIsVerified, RestIsOwn, Finished, WritingBack, Targets
    <3>4. WorkspaceIsVerified'
      <4>1. OnlyMoves(p) /\ ~Midway(p)
        <5>1. OnlyMoves(p)
          BY <2>12 DEF Exit, Gone, OnlyMoves
        <5>2. ~Midway(p)
          BY <2>12 DEF Exit, RestIsOwn, Midway, WritingBack
        <5>3. QED BY <5>1, <5>2
      <4>2. QED BY <2>12, <4>1, VerifiedStays DEF Exit, Gone
    <3>5. NextIsBackedUp'
      BY <2>12 DEF Exit, Gone, NextIsBackedUp
    <3>6. LedgerIsHeeded'
      BY <2>12 DEF Exit, Gone, LedgerIsHeeded
    <3>7. QED BY <3>1, <3>2, <3>3, <3>4, <3>5, <3>6
  <2>13. ASSUME NEW p \in Procs, Die(p) PROVE IInv'
    <3>1. TypeOK'
      BY <2>13, ZenonT(40) DEF Die, Gone
    <3>2. RestIsOwn'
      BY <2>13 DEF Die, Gone, RestIsOwn, WritingBack, BeforeProposal, Targets
    <3>3. RestIsVerified'
      BY <2>13 DEF Die, Gone, RestIsVerified, RestIsOwn, Finished, WritingBack, Targets
    <3>4. WorkspaceIsVerified'
      <4>1. OnlyMoves(p) /\ (Midway(p) => spoiled') /\ (spoiled => spoiled')
        BY <2>13 DEF Die, Gone, OnlyMoves
      <4>2. QED BY <2>13, <4>1, VerifiedStays DEF Die
    <3>5. NextIsBackedUp'
      BY <2>13 DEF Die, Gone, NextIsBackedUp
    <3>6. LedgerIsHeeded'
      BY <2>13 DEF Die, Gone, LedgerIsHeeded
    <3>7. QED BY <3>1, <3>2, <3>3, <3>4, <3>5, <3>6
  <2>14. ASSUME NEW c \in Contents, Condemn(c) PROVE IInv'
    <3>1. TypeOK' /\ LedgerIsHeeded'
      BY <2>14 DEF Condemn, LedgerIsHeeded
    <3>2. RestIsOwn' /\ RestIsVerified' /\ NextIsBackedUp'
      BY <2>14 DEF Condemn, RestIsOwn, RestIsVerified, Finished, Targets, NextIsBackedUp
    <3>3. WorkspaceIsVerified'
      BY <2>14 DEF Condemn, WorkspaceIsVerified, Midway, Targets
    <3>4. QED BY <3>1, <3>2, <3>3
  <2>15. CASE UNCHANGED vars
    <3>1. TypeOK' /\ RestIsOwn'
      BY <2>15 DEF vars, RestIsOwn, Targets
    <3>4. NextIsBackedUp' /\ LedgerIsHeeded'
      BY <2>15 DEF vars, NextIsBackedUp, LedgerIsHeeded
    <3>2. RestIsVerified'
      BY <2>15 DEF vars, RestIsVerified, Finished
    <3>3. WorkspaceIsVerified'
      BY <2>15 DEF vars, WorkspaceIsVerified, Midway, Targets
    <3>5. QED BY <3>1, <3>2, <3>3, <3>4
  <2>16. QED
    BY <2>1, <2>3, <2>4, <2>5, <2>6, <2>7, <2>8, <2>9, <2>10, <2>11, <2>12, <2>13, <2>14, <2>15 DEF Next, Step
<1>3. QED BY <1>1, <1>2, PTL DEF Spec

\* A step of one command does not move another one.
LEMMA StepsMoveOne ==
  ASSUME TypeOK, NEW q \in Procs, Step(q), NEW p \in Procs \ {q}
  PROVE  place'[p] = place[p] /\ kind'[p] = kind[p] 
<1> USE DEF TypeOK, Goto, started
<1>1. CASE \E k \in {"do", "optimize"} : Begin(q, k)
  BY <1>1 DEF Begin
<1>2. CASE Generate(q) \/ Verify(q)
  BY <1>2 DEF Generate, Verify, Accept, Reject
<1>3. CASE \E f \in Files : Backup(q, f)
  BY <1>3 DEF Backup
<1>4. CASE Truncate(q) \/ Write(q) \/ RecordPass(q)
  BY <1>4 DEF Truncate, Write, RecordPass
<1>5. CASE Passed(q) \/ Failed(q) \/ Cloud(q)
  BY <1>5 DEF Passed, Failed, Cloud, Ends
<1>6. CASE Exit(q) \/ Die(q)
  BY <1>6 DEF Exit, Die, Gone
<1>7. QED BY <1>1, <1>2, <1>3, <1>4, <1>5, <1>6 DEF Step

\* WorkspaceIsSound: the workspace is one that verifies, unless a command wrote behind
\* another one's write or died between two files.
THEOREM WorkspaceIsAlwaysSound == Spec => []WorkspaceIsSound
  BY InductiveInvariant, PTL DEF IInv, WorkspaceIsSound

\* CondemnedStaysOut: optimize never writes what was condemned before it began, as long
\* as the ledger has no torn line.
THEOREM CondemnedIsNeverWritten == Spec => CondemnedStaysOut
<1> DEFINE Kept(p) == At(p, "truncated") /\ place'[p] = "written" /\ kind[p] = "optimize"
                        => ws'[file[p]] \notin barred[p] \/ ledgerTorn
<1>1. IInv /\ [Next]_vars => [\A p \in Procs : Kept(p)]_vars
  <2> SUFFICES ASSUME IInv, Next, NEW p \in Procs, At(p, "truncated"), place'[p] = "written",
                      kind[p] = "optimize", ~ledgerTorn
               PROVE  ws'[file[p]] \notin barred[p]
    OBVIOUS
  <2> USE SovereignAssumption DEF IInv, TypeOK, At, Goto
  <2>1. Write(p)
    <3>1. ASSUME NEW q \in Procs, Step(q) PROVE Write(p)
      <4>1. Step(p)
        BY <3>1, StepsMoveOne
      <4>2. ~(Exit(p) \/ Die(p))
        BY DEF Exit, Die, Gone
      <4>3. QED BY <4>1, <4>2 DEF Step, Begin, Generate, Verify, Backup, Truncate, RecordPass,
                                  Passed, Failed, Cloud, Ends
    <3>2. ASSUME NEW c \in Contents, Condemn(c) PROVE FALSE
      BY <3>2 DEF Condemn
    <3>3. QED BY <3>1, <3>2 DEF Next
  <2>2. file[p] \in Files
    BY DEF RestIsOwn
  <2>3. ws'[file[p]] \in {proposal[p][file[p]], "torn"}
    BY <2>1, <2>2 DEF Write
  <2>4. proposal[p][file[p]] \notin barred[p]
    BY <2>2 DEF LedgerIsHeeded
  <2>5. "torn" \notin barred[p]
    OBVIOUS
  <2>6. QED BY <2>3, <2>4, <2>5
<1>2. QED BY <1>1, InductiveInvariant, PTL DEF Spec, CondemnedStaysOut

\* PreImageIsKept: optimize never overwrites a file without a pre-image of it, unless it
\* was overtaken since it verified its copy.
THEOREM PreImagesAreKept == Spec => PreImageIsKept
<1>1. IInv /\ [Next]_vars =>
        [\A p \in Procs : At(p, "writing") /\ place'[p] = "truncated" /\ kind[p] = "optimize"
           => ws[file[p]] \in blobs \cup badBlobs \/ p \in overtaken]_vars
  BY DEF IInv, NextIsBackedUp, At
<1>2. QED BY <1>1, InductiveInvariant, PTL DEF Spec, PreImageIsKept

----------------------------------------------------------------------------
\* The confidence.

\* Only a command that found the local tier worth trying tries it.
LocalIsTrusted == RunTypeOK /\ \A c \in Commands : stage[c] = "local" => Confident(learned[c])

LEMMA OnlyTrustedTry == RunSpec => []LocalIsTrusted
<1>1. RunInit => LocalIsTrusted
  <2> SUFFICES ASSUME RunInit PROVE LocalIsTrusted
    OBVIOUS
  <2>1. NoStats \in [passed : Nat, attempts : Nat] /\ crashes \in 0..MaxCrashes
    BY RunAssumption DEF NoStats, RunInit
  <2>2. QED BY <2>1 DEF RunInit, LocalIsTrusted, RunTypeOK
<1>2. LocalIsTrusted /\ [RunNext]_routeVars => LocalIsTrusted'
  <2> SUFFICES ASSUME LocalIsTrusted, [RunNext]_routeVars PROVE LocalIsTrusted'
    OBVIOUS
  <2> USE RunAssumption DEF LocalIsTrusted, RunTypeOK, In, Into
  <2>1. ASSUME NEW c \in Commands, Start(c) PROVE LocalIsTrusted'
    BY <2>1 DEF Start
  <2>2. ASSUME NEW c \in Commands, Route(c) PROVE LocalIsTrusted'
    BY <2>2 DEF Route
  <2>3. ASSUME NEW c \in Commands, NEW passed \in BOOLEAN, TryLocal(c, passed) PROVE LocalIsTrusted'
    <3>1. stats' \in [passed : Nat, attempts : Nat]
      BY <2>3 DEF TryLocal, Learned
    <3>2. QED BY <2>3, <3>1 DEF TryLocal
  <2>4. ASSUME NEW c \in Commands, TryCloud(c) PROVE LocalIsTrusted'
    BY <2>4 DEF TryCloud
  <2>5. ASSUME NEW c \in Commands, Killed(c) PROVE LocalIsTrusted'
    BY <2>5, crashes' \in 0..MaxCrashes DEF Killed
  <2>6. CASE Turn
    BY <2>6 DEF Turn
  <2>7. CASE UNCHANGED routeVars
    BY <2>7 DEF routeVars
  <2>8. QED BY <2>1, <2>2, <2>3, <2>4, <2>5, <2>6, <2>7 DEF RunNext, RunStep
<1>3. QED BY <1>1, <1>2, PTL DEF RunSpec

\* LowConfidenceIsFinal: when too few of the recorded attempts passed, and no command is
\* left that knows no better, the local tier is given up for good, whatever passes: the
\* counterexample to RecoveredReturns is not one of the small instance.
THEOREM LowConfidenceIsForGood == RunSpec => LowConfidenceIsFinal
<1>1. LocalIsTrusted /\ [RunNext]_routeVars => [Settled => Settled']_routeVars
  <2> SUFFICES ASSUME LocalIsTrusted, Settled, RunNext PROVE Settled'
    OBVIOUS
  <2> USE DEF LocalIsTrusted, RunTypeOK, In, Into, Settled, Low, MayTryLocal
  <2>1. ASSUME NEW c \in Commands, Start(c) PROVE Settled'
    BY <2>1 DEF Start, Confident
  <2>2. ASSUME NEW c \in Commands, Route(c) PROVE Settled'
    BY <2>2 DEF Route
  <2>3. ASSUME NEW c \in Commands, NEW passed \in BOOLEAN, TryLocal(c, passed) PROVE Settled'
    BY <2>3 DEF TryLocal
  <2>4. ASSUME NEW c \in Commands, TryCloud(c) PROVE Settled'
    BY <2>4 DEF TryCloud
  <2>5. ASSUME NEW c \in Commands, Killed(c) PROVE Settled'
    BY <2>5 DEF Killed
  <2>6. CASE Turn
    BY <2>6 DEF Turn
  <2>7. QED BY <2>1, <2>2, <2>3, <2>4, <2>5, <2>6 DEF RunNext, RunStep
<1>2. QED BY <1>1, OnlyTrustedTry, PTL DEF RunSpec, LowConfidenceIsFinal
=============================================================================

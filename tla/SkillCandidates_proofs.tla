------------------------ MODULE SkillCandidates_proofs ------------------------
(***************************************************************************)
(* DecisionsStand of SkillCandidates, for all sets of processes, workflows *)
(* and names and all bounds.                                               *)
(***************************************************************************)
EXTENDS SkillCandidates, TLAPS

Decisions == {"approved", "merged", "rejected"}
Rows == [workflow : Workflows, name : Names, target : Names \union {"none"},
         status : Decisions \union {"proposed"}]
Proposals == {r \in [id : Nat, row : Rows] : r.row.status = "proposed"}
Approvals == [step : {"create", "fill", "decide"}, id : Nat \ {0}, name : Names,
              target : Names \union {"none"}]

\* The types of the rows, the files and what a process holds of them.
Typed ==
  /\ candidates \in Seq(Rows)
  /\ decided \in Seq(Decisions \union {"none"})
  /\ Len(decided) = Len(candidates)
  /\ files \in [Names -> {"none", "empty", "full"}]
  /\ skills \in [Processes -> SUBSET Names]
  /\ proposing \in [Processes -> Seq(Proposals)]
  /\ \A p \in Processes : ~Free(p) => proposing[p][1].id \in 0..Len(candidates)
  /\ approving \in [Processes -> Approvals \union {Nobody}]
  /\ \A p \in Processes : approving[p].id \in 0..Len(candidates)

\* The row of a candidate and the first decision about it agree.
RowsTell ==
  \A i \in DOMAIN candidates :
    candidates[i].status = (IF decided[i] = "none" THEN "proposed" ELSE decided[i])

\* An approval that has begun to write its file has it in the directory.
Written ==
  \A p \in Processes :
    approving[p].step \in {"fill", "decide"} => files[SkillName(approving[p])] # "none"

\* An approval writes the file its candidate names, unless the candidate was saved under
\* another name meanwhile.
SameName ==
  \A p \in Processes :
    approving[p] # Nobody /\ approving[p].id \notin rebuilt
      => SkillName(approving[p]) = SkillName(candidates[approving[p].id])

\* Decisions stand and files are there, full or empty.
Filed ==
  /\ \A i \in DOMAIN candidates :
       /\ decided[i] # "none" => candidates[i].status = decided[i]
       /\ candidates[i].status \in {"approved", "merged"} /\ i \notin rebuilt =>
            SkillName(candidates[i]) \in Present
  /\ \A p \in Processes : skills[p] \subseteq Present

\* An empty file is about to be filled, or its writer is gone.
Emptied == \A n \in Names : files[n] = "empty" => Rewriting(n) \/ n \in cut

\* DecisionsStand in parts, with what approvals in progress know.
IInv == Typed /\ RowsTell /\ Written /\ SameName /\ Filed /\ Emptied

-----------------------------------------------------------------------------
(* One lemma for each part that an action can disturb.                     *)

LEMMA InitHolds == ASSUME Init PROVE IInv
BY DEF Init, IInv, Typed, RowsTell, Written, SameName, Filed, Emptied, Nobody, Free, Present

\* Steps without a file.
LEMMA EmptiedStays ==
  ASSUME IInv, UNCHANGED <<files, approving, cut>>
  PROVE  Emptied'
BY DEF IInv, Emptied, Rewriting, SkillName

\* The parts come to DecisionsStand.
LEMMA Stands == ASSUME "none" \notin Names, IInv PROVE DecisionsStand
<1>1. ASSUME NEW i \in DOMAIN candidates, SkillName(candidates[i]) \in Present
      PROVE  LET n == SkillName(candidates[i]) IN
             files[n] = "full" \/ (files[n] = "empty" /\ (Rewriting(n) \/ n \in cut))
  BY <1>1 DEF IInv, Typed, Present, Emptied
<1> QED BY <1>1 DEF IInv, Filed, DecisionsStand

LEMMA ProposalBegins ==
  ASSUME IInv, "none" \notin Names, NEW p \in Processes, NEW w \in Workflows, NEW n \in Names,
         NEW t \in Names \union {"none"}, getOpenCandidateByWorkflowKey(p, w, n, t)
  PROVE  IInv'
<1> DEFINE open == {i \in DOMAIN candidates : candidates[i].workflow = w /\ Open(i)}
           row == [workflow |-> w, name |-> n, target |-> t, status |-> "proposed"]
<1>1. PICK i \in IF open = {} THEN {0} ELSE open :
        proposing' = [proposing EXCEPT ![p] = <<[id |-> i, row |-> row]>>]
  BY DEF getOpenCandidateByWorkflowKey
<1>2. i \in 0..Len(candidates)
  BY DEF IInv, Typed
<1>3. [id |-> i, row |-> row] \in Proposals
  BY <1>2 DEF Proposals, Rows, IInv, Typed
<1>4. UNCHANGED <<candidates, files, skills, approving, decided, rebuilt, cut>>
  BY DEF getOpenCandidateByWorkflowKey
<1>5. Typed'
  <2>1. proposing' \in [Processes -> Seq(Proposals)]
    BY <1>1, <1>3 DEF IInv, Typed
  <2>2. \A q \in Processes : ~Free(q)' => proposing'[q][1].id \in 0..Len(candidates)
    BY <1>1, <1>2 DEF IInv, Typed, Free
  <2> QED BY <1>4, <2>1, <2>2 DEF IInv, Typed, Free
<1> QED BY <1>4, <1>5, EmptiedStays
        DEF IInv, RowsTell, Written, SameName, Filed, Open, Present, SkillName

LEMMA ProposalKeeps ==
  ASSUME IInv, "none" \notin Names, NEW p \in Processes, proposeCandidate(p)
  PROVE  IInv'
<1> DEFINE proposal == proposing[p][1]
           i == proposal.id
<1>1. proposal \in Proposals /\ i \in 0..Len(candidates)
  BY DEF proposeCandidate, IInv, Typed, Free
<1>2. UNCHANGED <<files, skills, approving, cut>> /\ proposing' = [proposing EXCEPT ![p] = <<>>]
  BY DEF proposeCandidate
<1> Emptied'
  BY <1>2, EmptiedStays
<1>3. CASE i = 0
  <2>1. candidates' = Append(candidates, proposal.row) /\ decided' = Append(decided, "none")
    BY <1>3 DEF proposeCandidate
  <2>2. rebuilt' = rebuilt
    BY <1>3 DEF proposeCandidate
  <2>3. proposal.row \in Rows /\ proposal.row.status = "proposed"
    BY <1>1 DEF Proposals
  <2>4. /\ Len(candidates') = Len(candidates) + 1 /\ Len(decided') = Len(candidates')
        /\ \A j \in 1..Len(candidates) : candidates'[j] = candidates[j] /\ decided'[j] = decided[j]
        /\ candidates'[Len(candidates) + 1] = proposal.row
        /\ decided'[Len(candidates) + 1] = "none"
    BY <2>1, <2>3 DEF IInv, Typed
  <2>5. Typed'
    <3>1. candidates' \in Seq(Rows) /\ decided' \in Seq(Decisions \union {"none"})
      BY <2>1, <2>3 DEF IInv, Typed
    <3>2. \A q \in Processes : ~Free(q)' => proposing'[q][1].id \in 0..Len(candidates')
      BY <1>2, <2>4 DEF IInv, Typed, Free
    <3>3. \A q \in Processes : approving'[q].id \in 0..Len(candidates')
      BY <1>2, <2>4 DEF IInv, Typed
    <3> QED BY <1>2, <2>4, <3>1, <3>2, <3>3 DEF IInv, Typed
  <2>6. RowsTell'
    <3>1. ASSUME NEW j \in DOMAIN candidates'
          PROVE  candidates'[j].status = (IF decided'[j] = "none" THEN "proposed" ELSE decided'[j])
      <4>1. j \in 1..Len(candidates) \/ j = Len(candidates) + 1
        BY <2>1, <2>4, <3>1 DEF IInv, Typed
      <4> QED BY <2>3, <2>4, <4>1 DEF IInv, Typed, RowsTell
    <3> QED BY <3>1 DEF RowsTell
  <2>7. Written'
    BY <1>2 DEF IInv, Written, SkillName
  <2>8. SameName'
    <3>1. ASSUME NEW q \in Processes, approving[q] # Nobody, approving[q].id \notin rebuilt
          PROVE  SkillName(approving[q]) = SkillName(candidates'[approving[q].id])
      <4>1. approving[q].id \in 1..Len(candidates)
        BY <3>1 DEF IInv, Typed, Approvals
      <4> QED BY <2>4, <3>1, <4>1 DEF IInv, SameName
    <3> QED BY <1>2, <2>2, <3>1 DEF SameName, SkillName
  <2>9. Filed'
    <3>1. ASSUME NEW j \in DOMAIN candidates'
          PROVE  /\ decided'[j] # "none" => candidates'[j].status = decided'[j]
                 /\ candidates'[j].status \in {"approved", "merged"} /\ j \notin rebuilt
                      => SkillName(candidates'[j]) \in Present
      <4>1. j \in 1..Len(candidates) \/ j = Len(candidates) + 1
        BY <2>1, <2>4, <3>1 DEF IInv, Typed
      <4> QED BY <2>3, <2>4, <4>1 DEF IInv, Typed, Filed
    <3> QED BY <1>2, <2>2, <3>1 DEF IInv, Filed, Present, SkillName
  <2> QED BY <2>5, <2>6, <2>7, <2>8, <2>9 DEF IInv
<1>4. CASE i # 0 /\ Open(i)
  <2>1. candidates' = [candidates EXCEPT ![i] = proposal.row] /\ decided' = decided
    BY <1>4 DEF proposeCandidate
  <2>2. rebuilt' = rebuilt \union
          {j \in {i} \ {0} : Open(j) /\ \E q \in Processes :
             approving[q].id = j /\ SkillName(approving[q]) # SkillName(proposal.row)}
    BY DEF proposeCandidate
  <2>3. i \in 1..Len(candidates) /\ proposal.row \in Rows /\ proposal.row.status = "proposed"
    BY <1>1, <1>4 DEF Proposals
  <2>4. /\ Len(candidates') = Len(candidates) /\ candidates'[i] = proposal.row
        /\ \A j \in 1..Len(candidates) : j # i => candidates'[j] = candidates[j]
    BY <2>1, <2>3 DEF IInv, Typed
  <2>5. Typed'
    <3>1. candidates' \in Seq(Rows)
      BY <2>1, <2>3 DEF IInv, Typed
    <3>2. \A q \in Processes : ~Free(q)' => proposing'[q][1].id \in 0..Len(candidates')
      BY <1>2, <2>4 DEF IInv, Typed, Free
    <3> QED BY <1>2, <2>1, <2>4, <3>1, <3>2 DEF IInv, Typed
  <2>6. decided[i] = "none"
    <3>1. candidates[i].status = "proposed"
      BY <1>4 DEF Open
    <3>2. decided[i] \in Decisions \union {"none"} /\ i \in DOMAIN candidates
      BY <2>3 DEF IInv, Typed
    <3> QED BY <3>1, <3>2 DEF IInv, RowsTell, Decisions
  <2>7. RowsTell'
    <3>1. ASSUME NEW j \in 1..Len(candidates)
          PROVE  candidates'[j].status = (IF decided[j] = "none" THEN "proposed" ELSE decided[j])
      BY <2>3, <2>4, <2>6 DEF IInv, Typed, RowsTell
    <3>2. DOMAIN candidates' = 1..Len(candidates)
      BY <2>1 DEF IInv, Typed
    <3> QED BY <2>1, <3>1, <3>2 DEF RowsTell
  <2>8. Written'
    BY <1>2 DEF IInv, Written, SkillName
  <2>9. SameName'
    <3>1. ASSUME NEW q \in Processes, approving[q] # Nobody, approving[q].id \notin rebuilt'
          PROVE  SkillName(approving[q]) = SkillName(candidates'[approving[q].id])
      <4>1. approving[q].id \in 1..Len(candidates)
        BY <3>1 DEF IInv, Typed, Approvals
      <4>2. CASE approving[q].id = i
        <5>1. SkillName(approving[q]) = SkillName(proposal.row)
          BY <1>4, <2>2, <2>3, <3>1, <4>2
        <5> QED BY <2>4, <4>2, <5>1
      <4>3. CASE approving[q].id # i
        BY <2>2, <2>4, <3>1, <4>1, <4>3 DEF IInv, SameName
      <4> QED BY <4>2, <4>3
    <3> QED BY <1>2, <3>1 DEF SameName, SkillName
  <2>10. Filed'
    BY <1>2, <2>1, <2>2, <2>3, <2>4, <2>6 DEF IInv, Typed, Filed, Present, SkillName
  <2> QED BY <2>5, <2>7, <2>8, <2>9, <2>10 DEF IInv
<1>5. CASE i # 0 /\ ~Open(i)
  <2>1. UNCHANGED <<candidates, decided, rebuilt>>
    BY <1>5 DEF proposeCandidate
  <2>2. Typed'
    BY <1>2, <2>1 DEF IInv, Typed, Free
  <2> QED BY <1>2, <2>1, <2>2
          DEF IInv, RowsTell, Written, SameName, Filed, Open, Present, SkillName
<1> QED BY <1>3, <1>4, <1>5

LEMMA ApprovalBegins ==
  ASSUME IInv, "none" \notin Names, NEW p \in Processes, NEW i \in DOMAIN candidates,
         approveCandidate(p, i)
  PROVE  IInv'
<1> DEFINE approval == [step |-> "create", id |-> i, name |-> candidates[i].name,
                        target |-> candidates[i].target]
<1>1. UNCHANGED <<candidates, files, skills, proposing, decided, rebuilt, cut>>
  BY DEF approveCandidate
<1>2. i \in 1..Len(candidates) /\ approval \in Approvals
  <2>1. i \in 1..Len(candidates) /\ candidates[i] \in Rows
    BY DEF IInv, Typed
  <2> QED BY <2>1 DEF Rows, Approvals, IInv, Typed
<1>3. approving' = [approving EXCEPT ![p] = approval]
  BY DEF approveCandidate
<1>4. SkillName(approval) = SkillName(candidates[i])
  BY DEF SkillName
<1>5. Typed'
  BY <1>1, <1>2, <1>3 DEF IInv, Typed, Free
<1>6. Written'
  BY <1>1, <1>3 DEF IInv, Typed, Written, SkillName
<1>7. SameName'
  <2>1. ASSUME NEW q \in Processes, approving'[q] # Nobody, approving'[q].id \notin rebuilt
        PROVE  SkillName(approving'[q]) = SkillName(candidates[approving'[q].id])
    BY <1>3, <1>4, <2>1 DEF IInv, Typed, SameName
  <2> QED BY <1>1, <2>1 DEF SameName, SkillName
<1>8. Emptied'
  <2>1. \A q \in Processes :
          approving[q].step = "fill" => approving'[q] = approving[q]
    BY <1>3 DEF IInv, Typed, approveCandidate, Nobody
  <2> QED BY <1>1, <2>1 DEF IInv, Emptied, Rewriting, SkillName
<1> QED BY <1>1, <1>5, <1>6, <1>7, <1>8 DEF IInv, RowsTell, Filed, Present, SkillName

LEMMA FileKeeps ==
  ASSUME IInv, "none" \notin Names, NEW p \in Processes, writeSkill(p)
  PROVE  IInv'
<1> DEFINE c == approving[p]
           next == IF c.step = "create" THEN "fill" ELSE "decide"
<1>1. UNCHANGED <<candidates, skills, proposing, decided, rebuilt>>
  BY DEF writeSkill
<1>2. c.step \in {"create", "fill"} /\ c \in Approvals /\ SkillName(c) \in Names
  BY DEF writeSkill, IInv, Typed, Nobody, Approvals, SkillName
<1>3. approving' = [approving EXCEPT ![p] = [c EXCEPT !.step = next]]
  BY DEF writeSkill
<1>4. /\ files' \in [Names -> {"none", "empty", "full"}]
      /\ files'[SkillName(c)] # "none"
      /\ \A n \in Names : files[n] # "none" => files'[n] # "none"
  BY <1>2 DEF writeSkill, IInv, Typed
<1>5. [c EXCEPT !.step = next] \in Approvals
  BY <1>2 DEF Approvals
<1>6. \A q \in Processes :
        /\ approving'[q].id = approving[q].id /\ SkillName(approving'[q]) = SkillName(approving[q])
        /\ approving[q] = Nobody /\ q # p => approving'[q] = Nobody
  BY <1>2, <1>3 DEF IInv, Typed, SkillName, Approvals
<1>7. Typed'
  BY <1>1, <1>3, <1>4, <1>5, <1>6 DEF IInv, Typed, Free
<1>8. Written'
  <2>1. ASSUME NEW q \in Processes, approving'[q].step \in {"fill", "decide"}
        PROVE  files'[SkillName(approving'[q])] # "none"
    <3>1. CASE q = p
      BY <1>4, <1>6, <3>1
    <3>2. CASE q # p
      <4>1. approving'[q] = approving[q] /\ SkillName(approving[q]) \in Names
        BY <1>3, <2>1, <3>2 DEF IInv, Typed, Approvals, Nobody, SkillName
      <4> QED BY <1>4, <2>1, <4>1 DEF IInv, Written
    <3> QED BY <3>1, <3>2
  <2> QED BY <2>1 DEF Written, SkillName
<1>9. SameName'
  <2>1. ASSUME NEW q \in Processes, approving'[q] # Nobody, approving'[q].id \notin rebuilt
        PROVE  SkillName(approving'[q]) = SkillName(candidates[approving'[q].id])
    <3>1. approving[q] # Nobody
      BY <1>2, <1>6, <2>1 DEF Approvals, Nobody
    <3> QED BY <1>6, <2>1, <3>1 DEF IInv, SameName
  <2> QED BY <1>1, <2>1 DEF SameName, SkillName
<1>10. Filed'
  BY <1>1, <1>4 DEF IInv, Filed, Present, SkillName
<1>11. Emptied'
  <2>1. ASSUME NEW n \in Names, files'[n] = "empty"  PROVE Rewriting(n)' \/ n \in cut'
    <3>1. CASE n = SkillName(c)
      <4>1. c.step = "create"
        BY <1>2, <2>1, <3>1 DEF writeSkill, IInv, Typed
      <4>2. approving'[p].step = "fill" /\ SkillName(approving'[p]) = n
        <5>1. approving'[p] = [c EXCEPT !.step = "fill"]
          BY <1>3, <4>1 DEF IInv, Typed
        <5>2. [c EXCEPT !.step = "fill"].step = "fill"
          BY <1>2 DEF Approvals
        <5> QED BY <1>6, <3>1, <5>1, <5>2
      <4> QED BY <4>2 DEF Rewriting, SkillName
    <3>2. CASE n # SkillName(c)
      <4>1. files[n] = "empty" /\ (n \in cut => n \in cut')
        BY <1>2, <2>1, <3>2 DEF writeSkill, IInv, Typed
      <4>2. ASSUME NEW q \in Processes, approving[q].step = "fill", SkillName(approving[q]) = n
            PROVE  approving'[q].step = "fill" /\ SkillName(approving'[q]) = n
        BY <1>3, <3>2, <4>2 DEF IInv, Typed
      <4> QED BY <4>1, <4>2 DEF IInv, Emptied, Rewriting, SkillName
    <3> QED BY <3>1, <3>2
  <2> QED BY <2>1 DEF Emptied
<1> QED BY <1>1, <1>7, <1>8, <1>9, <1>10, <1>11 DEF IInv, RowsTell

\* What a decision leaves in the two tables.
LEMMA DecisionTells ==
  ASSUME IInv, NEW i \in DOMAIN candidates, NEW status \in Decisions, Decides(i, status)
  PROVE  /\ candidates' \in Seq(Rows) /\ decided' \in Seq(Decisions \union {"none"})
         /\ Len(candidates') = Len(candidates) /\ Len(decided') = Len(candidates)
         /\ RowsTell'
         /\ \A j \in 1..Len(candidates) :
              /\ candidates'[j].name = candidates[j].name
              /\ candidates'[j].target = candidates[j].target
              /\ candidates'[j].status = candidates[j].status
                 \/ (j = i /\ candidates'[j].status = status)
<1> DEFINE row == [candidates[i] EXCEPT !.status = StatusAfter(i, status)]
           first == IF decided[i] = "none" THEN status ELSE decided[i]
<1>1. /\ candidates' = [candidates EXCEPT ![i] = row]
      /\ decided' = [decided EXCEPT ![i] = first]
  BY DEF Decides
<1>2. i \in 1..Len(candidates) /\ candidates[i] \in Rows /\ decided[i] \in Decisions \union {"none"}
  BY DEF IInv, Typed
<1>3. StatusAfter(i, status) = first
  <2>1. candidates[i].status = (IF decided[i] = "none" THEN "proposed" ELSE decided[i])
    BY DEF IInv, RowsTell
  <2> QED BY <1>2, <2>1 DEF StatusAfter, Open, Decisions
<1>4. first \in Decisions
  BY <1>2
<1>5. row \in Rows /\ row.name = candidates[i].name /\ row.target = candidates[i].target
      /\ row.status = first
  BY <1>2, <1>3, <1>4 DEF Rows
<1>6. /\ candidates' \in Seq(Rows) /\ decided' \in Seq(Decisions \union {"none"})
      /\ Len(candidates') = Len(candidates) /\ Len(decided') = Len(candidates)
  BY <1>1, <1>2, <1>4, <1>5 DEF IInv, Typed
<1>7. \A j \in 1..Len(candidates) :
        j # i => candidates'[j] = candidates[j] /\ decided'[j] = decided[j]
  BY <1>1 DEF IInv, Typed
<1>8. candidates'[i] = row /\ decided'[i] = first
  BY <1>1, <1>2 DEF IInv, Typed
<1>9. RowsTell'
  <2>1. ASSUME NEW j \in 1..Len(candidates)
        PROVE  candidates'[j].status = (IF decided'[j] = "none" THEN "proposed" ELSE decided'[j])
    <3>1. CASE j = i
      BY <1>4, <1>5, <1>8, <3>1 DEF Decisions
    <3>2. CASE j # i
      <4>1. candidates'[j] = candidates[j] /\ decided'[j] = decided[j]
        BY <1>7, <2>1, <3>2
      <4>2. j \in DOMAIN candidates
        BY <2>1 DEF IInv, Typed
      <4> QED BY <4>1, <4>2 DEF IInv, RowsTell
    <3> QED BY <3>1, <3>2
  <2>2. DOMAIN candidates' = 1..Len(candidates)
    BY <1>6
  <2> QED BY <2>1, <2>2 DEF RowsTell
<1>10. ASSUME NEW j \in 1..Len(candidates)
       PROVE  /\ candidates'[j].name = candidates[j].name
              /\ candidates'[j].target = candidates[j].target
              /\ candidates'[j].status = candidates[j].status
                 \/ (j = i /\ candidates'[j].status = status)
  <2>1. CASE j # i
    BY <1>2, <1>7, <1>10, <2>1
  <2>2. CASE j = i
    <3>1. first = status \/ first = candidates[i].status
      <4>1. candidates[i].status = (IF decided[i] = "none" THEN "proposed" ELSE decided[i])
        BY DEF IInv, RowsTell
      <4> QED BY <4>1
    <3> QED BY <1>2, <1>5, <1>8, <2>2, <3>1
  <2> QED BY <2>1, <2>2
<1> QED BY <1>6, <1>9, <1>10

LEMMA RejectionKeeps ==
  ASSUME IInv, NEW p \in Processes, NEW i \in DOMAIN candidates, rejectCandidate(p, i)
  PROVE  IInv'
<1>1. UNCHANGED <<files, skills, proposing, approving, rebuilt, cut>> /\ Decides(i, "rejected")
  BY DEF rejectCandidate
<1>2. /\ candidates' \in Seq(Rows) /\ decided' \in Seq(Decisions \union {"none"})
      /\ Len(candidates') = Len(candidates) /\ Len(decided') = Len(candidates)
      /\ RowsTell'
      /\ \A j \in 1..Len(candidates) :
           /\ candidates'[j].name = candidates[j].name
           /\ candidates'[j].target = candidates[j].target
           /\ candidates'[j].status = candidates[j].status
              \/ (j = i /\ candidates'[j].status = "rejected")
  BY <1>1, DecisionTells DEF Decisions
<1>3. Typed'
  BY <1>1, <1>2 DEF IInv, Typed, Free
<1>4. Written'
  BY <1>1 DEF IInv, Written, SkillName
<1>5. SameName'
  <2>1. ASSUME NEW q \in Processes, approving[q] # Nobody, approving[q].id \notin rebuilt
        PROVE  SkillName(approving[q]) = SkillName(candidates'[approving[q].id])
    <3>1. approving[q].id \in 1..Len(candidates)
      BY <2>1 DEF IInv, Typed, Approvals
    <3> QED BY <1>2, <2>1, <3>1 DEF IInv, SameName, SkillName
  <2> QED BY <1>1, <2>1 DEF SameName, SkillName
<1>6. Filed'
  <2>1. DOMAIN candidates' = 1..Len(candidates) /\ DOMAIN candidates = 1..Len(candidates)
    BY <1>2 DEF IInv, Typed
  <2>2. ASSUME NEW j \in DOMAIN candidates'
        PROVE  /\ decided'[j] # "none" => candidates'[j].status = decided'[j]
               /\ candidates'[j].status \in {"approved", "merged"} /\ j \notin rebuilt
                    => SkillName(candidates'[j]) \in Present
    BY <1>2, <2>1 DEF IInv, RowsTell, Filed, SkillName
  <2> QED BY <1>1, <2>2 DEF IInv, Filed, Present, SkillName
<1> QED BY <1>1, <1>2, <1>3, <1>4, <1>5, <1>6, EmptiedStays DEF IInv

LEMMA ApprovalKeeps ==
  ASSUME IInv, "none" \notin Names, NEW p \in Processes, Approved(p)
  PROVE  IInv'
<1> DEFINE c == approving[p]
           status == IF c.target # "none" THEN "merged" ELSE "approved"
<1>1. c \in Approvals /\ c # Nobody /\ c.step = "decide" /\ c.id \in DOMAIN candidates
      /\ SkillName(c) \in Names
  BY DEF Approved, IInv, Typed, Nobody, Approvals, SkillName
<1>2. /\ UNCHANGED <<files, proposing, rebuilt, cut>> /\ Decides(c.id, status)
      /\ skills' = [skills EXCEPT ![p] = @ \union {SkillName(c)}]
      /\ approving' = [approving EXCEPT ![p] = Nobody]
  BY DEF Approved
<1>3. /\ candidates' \in Seq(Rows) /\ decided' \in Seq(Decisions \union {"none"})
      /\ Len(candidates') = Len(candidates) /\ Len(decided') = Len(candidates)
      /\ RowsTell'
      /\ \A j \in 1..Len(candidates) :
           /\ candidates'[j].name = candidates[j].name
           /\ candidates'[j].target = candidates[j].target
           /\ candidates'[j].status = candidates[j].status
              \/ (j = c.id /\ candidates'[j].status = status)
  BY <1>1, <1>2, DecisionTells DEF Decisions
<1>4. SkillName(c) \in Present
  BY <1>1 DEF IInv, Written, Present
<1>5. \A q \in Processes : approving'[q] = (IF q = p THEN Nobody ELSE approving[q])
  BY <1>2 DEF IInv, Typed
<1>6. Typed'
  <2>1. /\ skills' \in [Processes -> SUBSET Names]
        /\ approving' \in [Processes -> Approvals \union {Nobody}]
    BY <1>1, <1>2 DEF IInv, Typed
  <2>2. \A q \in Processes : approving'[q].id \in 0..Len(candidates')
    <3>1. 0 \in 0..Len(candidates) /\ Nobody.id = 0
      BY DEF IInv, Typed, Nobody
    <3> QED BY <1>3, <1>5, <3>1 DEF IInv, Typed
  <2>3. \A q \in Processes : ~Free(q)' => proposing'[q][1].id \in 0..Len(candidates')
    BY <1>2, <1>3 DEF IInv, Typed, Free
  <2> QED BY <1>2, <1>3, <2>1, <2>2, <2>3 DEF IInv, Typed
<1>7. Written'
  BY <1>2, <1>5 DEF IInv, Written, SkillName, Nobody
<1>8. SameName'
  <2>1. ASSUME NEW q \in Processes, approving'[q] # Nobody, approving'[q].id \notin rebuilt
        PROVE  SkillName(approving'[q]) = SkillName(candidates'[approving'[q].id])
    <3>1. approving'[q] = approving[q]
      BY <1>5, <2>1
    <3>2. approving[q].id \in 1..Len(candidates)
      BY <2>1, <3>1 DEF IInv, Typed, Approvals
    <3> QED BY <1>3, <2>1, <3>1, <3>2 DEF IInv, SameName, SkillName
  <2> QED BY <1>2, <2>1 DEF SameName, SkillName
<1>9. Filed'
  <2>1. DOMAIN candidates' = 1..Len(candidates) /\ DOMAIN candidates = 1..Len(candidates)
    BY <1>3 DEF IInv, Typed
  <2>2. ASSUME NEW j \in DOMAIN candidates'
        PROVE  decided'[j] # "none" => candidates'[j].status = decided'[j]
    BY <1>3, <2>1 DEF RowsTell
  <2>3. ASSUME NEW j \in DOMAIN candidates', candidates'[j].status \in {"approved", "merged"},
               j \notin rebuilt
        PROVE  SkillName(candidates'[j]) \in Present
    <3>1. SkillName(candidates'[j]) = SkillName(candidates[j])
      BY <1>3, <2>1 DEF SkillName
    <3>2. CASE candidates'[j].status = candidates[j].status
      BY <2>1, <2>3, <3>1, <3>2 DEF IInv, Filed
    <3>3. CASE j = c.id
      <4>1. SkillName(c) = SkillName(candidates[j])
        BY <1>1, <2>3, <3>3 DEF IInv, SameName
      <4> QED BY <1>4, <3>1, <4>1
    <3> QED BY <1>3, <2>1, <3>2, <3>3
  <2>4. \A q \in Processes : skills'[q] \subseteq Present
    BY <1>2, <1>4 DEF IInv, Typed, Filed
  <2> QED BY <1>2, <2>2, <2>3, <2>4 DEF Filed, Present, SkillName
<1>10. Emptied'
  <2>1. \A q \in Processes : approving[q].step = "fill" => approving'[q] = approving[q]
    BY <1>1, <1>5
  <2> QED BY <1>2, <2>1 DEF IInv, Emptied, Rewriting, SkillName
<1> QED BY <1>3, <1>6, <1>7, <1>8, <1>9, <1>10 DEF IInv

\* A write that fails and a restart leave the process without an approval.
LEMMA FaultKeeps ==
  ASSUME IInv, "none" \notin Names, NEW p \in Processes, WriteFails(p) \/ Restart(p)
  PROVE  IInv'
<1>1. /\ UNCHANGED <<candidates, files, decided, rebuilt>>
      /\ approving' = [approving EXCEPT ![p] = Nobody]
      /\ proposing' \in {proposing, [proposing EXCEPT ![p] = <<>>]}
      /\ skills' \in {skills, [skills EXCEPT ![p] = Present]}
  BY DEF WriteFails, Restart, Abandoned
<1>2. \A q \in Processes : approving'[q] = (IF q = p THEN Nobody ELSE approving[q])
  BY <1>1 DEF IInv, Typed
<1>3. Typed'
  <2>1. /\ skills' \in [Processes -> SUBSET Names]
        /\ approving' \in [Processes -> Approvals \union {Nobody}]
        /\ proposing' \in [Processes -> Seq(Proposals)]
    <3>1. skills' \in [Processes -> SUBSET Names]
      BY <1>1 DEF IInv, Typed, Present
    <3>2. approving' \in [Processes -> Approvals \union {Nobody}]
      BY <1>1 DEF IInv, Typed
    <3>3. proposing' \in [Processes -> Seq(Proposals)]
      <4>1. [proposing EXCEPT ![p] = <<>>] \in [Processes -> Seq(Proposals)]
        BY DEF IInv, Typed
      <4> QED BY <1>1, <4>1 DEF IInv, Typed
    <3> QED BY <3>1, <3>2, <3>3
  <2>2. \A q \in Processes : approving'[q].id \in 0..Len(candidates')
    <3>1. 0 \in 0..Len(candidates) /\ Nobody.id = 0
      BY DEF IInv, Typed, Nobody
    <3> QED BY <1>1, <1>2, <3>1 DEF IInv, Typed
  <2>3. \A q \in Processes : ~Free(q)' => proposing'[q][1].id \in 0..Len(candidates')
    <3>1. ASSUME NEW q \in Processes, proposing'[q] # <<>>  PROVE proposing'[q] = proposing[q]
      BY <1>1, <3>1 DEF IInv, Typed
    <3> QED BY <1>1, <3>1 DEF IInv, Typed, Free
  <2> QED BY <1>1, <2>1, <2>2, <2>3 DEF IInv, Typed
<1>4. Written'
  BY <1>1, <1>2 DEF IInv, Written, SkillName, Nobody
<1>5. SameName'
  BY <1>1, <1>2 DEF IInv, SameName, SkillName
<1>6. Filed'
  <2>1. \A q \in Processes : skills'[q] \subseteq Present
    BY <1>1 DEF IInv, Typed, Filed
  <2> QED BY <1>1, <2>1 DEF IInv, Filed, Present, SkillName
<1>7. Emptied'
  <2>1. cut' = cut \union {n \in Names : /\ approving[p].step = "fill"
                                        /\ n = SkillName(approving[p]) /\ files[n] = "empty"}
    BY DEF WriteFails, Restart, Abandoned
  <2>2. ASSUME NEW n \in Names, files[n] = "empty"  PROVE Rewriting(n)' \/ n \in cut'
    <3>1. CASE n \in cut
      BY <2>1, <3>1
    <3>2. CASE Rewriting(n)
      <4>1. PICK q \in Processes : approving[q].step = "fill" /\ SkillName(approving[q]) = n
        BY <3>2 DEF Rewriting
      <4>2. CASE q = p
        BY <2>1, <2>2, <4>1, <4>2
      <4>3. CASE q # p
        <5>1. approving'[q] = approving[q]
          BY <1>2, <4>3
        <5> QED BY <4>1, <5>1 DEF Rewriting, SkillName
      <4> QED BY <4>2, <4>3
    <3> QED BY <2>2, <3>1, <3>2 DEF IInv, Emptied
  <2> QED BY <1>1, <2>2 DEF Emptied
<1> QED BY <1>1, <1>3, <1>4, <1>5, <1>6, <1>7 DEF IInv, RowsTell

-----------------------------------------------------------------------------
(* All steps together, and the theorem.                                                          *)

LEMMA NextKeeps ==
  ASSUME "none" \notin Names, IInv, [Next]_vars
  PROVE  IInv'
<1>1. CASE UNCHANGED vars
  BY <1>1 DEF vars, IInv, Typed, RowsTell, Written, SameName, Filed, Emptied, Rewriting, Free,
              Present, SkillName
<1>2. CASE Next
  <2>1. PICK p \in Processes :
          \/ \E w \in Workflows, n \in Names, t \in Names \union {"none"} :
               getOpenCandidateByWorkflowKey(p, w, n, t)
          \/ proposeCandidate(p) \/ writeSkill(p) \/ WriteFails(p) \/ Approved(p) \/ Restart(p)
          \/ \E i \in DOMAIN candidates : approveCandidate(p, i) \/ rejectCandidate(p, i)
    BY <1>2 DEF Next
  <2> QED BY <2>1, ProposalBegins, ProposalKeeps, FileKeeps, FaultKeeps, ApprovalKeeps,
             ApprovalBegins, RejectionKeeps
<1> QED BY <1>1, <1>2

\* SkillCandidateStore: however many processes propose, approve and reject candidates of
\* however many workflows, and whatever fails on the way, the first decision about a candidate
\* stands, an approved one has its skill in its file, unless a second approval has emptied it
\* and is writing it again or has come to no end, and no process knows a skill without a file.
\* "none" stands for a name that is not there.
THEOREM DecisionsAreKept ==
  ASSUME "none" \notin Names
  PROVE  Init /\ [][Next]_vars => []DecisionsStand
<1>1. Init => IInv
  BY InitHolds
<1>2. IInv /\ [Next]_vars => IInv'
  BY NextKeeps
<1>3. IInv => DecisionsStand
  BY Stands
<1> QED BY <1>1, <1>2, <1>3, PTL
===============================================================================

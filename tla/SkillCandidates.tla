--------------------------- MODULE SkillCandidates ---------------------------
(***************************************************************************)
(* skills/SkillCandidateStore.ts: candidates that SkillBuilder proposes    *)
(* from workflows that were done often are approved, and become skill      *)
(* files, or are rejected, in processes that share the table and the       *)
(* directory. A process keeps the skills it knows in a SkillRegistry. What *)
(* the scores of a workflow come to is the choice to propose it or not.    *)
(***************************************************************************)
EXTENDS Naturals, Sequences

CONSTANTS
  Processes,
  Workflows,     \* the keys of workflows
  Names,         \* the names of skills
  MaxProposals,  \* how often a workflow is proposed
  MaxFaults      \* how many writes of a file fail or processes are started again

VARIABLES
  candidates,    \* the rows of skill_candidates
  files,         \* name -> whether there is no skill file, an empty one or a full one
  skills,        \* process -> the names of the skills from files in its registry
  proposing,     \* process -> the proposal it is about to save
  approving,     \* process -> the candidate it is approving, as it was read
  decided,       \* candidate -> the first decision about it
  rebuilt,       \* candidates that were saved under another name while being approved
  cut,           \* the names whose file a write that failed or was cut off has left empty
  left           \* what is left of the bounds

vars == <<candidates, files, skills, proposing, approving, decided, rebuilt, cut, left>>

Nobody == [step |-> "none", id |-> 0, name |-> "none", target |-> "none"]

Present == {n \in Names : files[n] # "none"}
Open(i) == candidates[i].status = "proposed"

\* A process reads the files of the directory when it starts, an empty one as a skill too.
Init ==
  /\ candidates = <<>>
  /\ files = [n \in Names |-> "none"]
  /\ skills = [p \in Processes |-> {}]
  /\ proposing = [p \in Processes |-> <<>>]
  /\ approving = [p \in Processes |-> Nobody]
  /\ decided = <<>>
  /\ rebuilt = {}
  /\ cut = {}
  /\ left = [proposals |-> MaxProposals, faults |-> MaxFaults]

\* The other code of a process waits for the two statements of proposeCandidate.
Free(p) == proposing[p] = <<>>

\* The file a candidate is written to.
SkillName(c) == IF c.target # "none" THEN c.target ELSE c.name

\* The builder proposes a workflow, as an update of a skill it resembles. Its name may be
\* another one than last time, as it comes from the tasks done since.
getOpenCandidateByWorkflowKey(p, w, name, target) ==
  LET open == {i \in DOMAIN candidates : candidates[i].workflow = w /\ Open(i)}
      proposal(i) == [id |-> i, row |->
        [workflow |-> w, name |-> name, target |-> target, status |-> "proposed"]]
  IN  /\ Free(p) /\ left.proposals > 0
      /\ target \in {"none"} \union skills[p]
      /\ \E i \in IF open = {} THEN {0} ELSE open :
           proposing' = [proposing EXCEPT ![p] = <<proposal(i)>>]
      /\ left' = [left EXCEPT !.proposals = @ - 1]
      /\ UNCHANGED <<candidates, files, skills, approving, decided, rebuilt, cut>>

\* The candidate is inserted, or updated unless another process has decided it meanwhile.
proposeCandidate(p) ==
  /\ ~Free(p)
  /\ LET proposal == proposing[p][1]  i == proposal.id
     IN  /\ candidates' = CASE i = 0 -> Append(candidates, proposal.row)
                            [] i # 0 /\ Open(i) -> [candidates EXCEPT ![i] = proposal.row]
                            [] OTHER -> candidates
         /\ decided' = IF i = 0 THEN Append(decided, "none") ELSE decided
         /\ rebuilt' = rebuilt \union
              {j \in {i} \ {0} : Open(j) /\ \E q \in Processes :
                 approving[q].id = j /\ SkillName(approving[q]) # SkillName(proposal.row)}
  /\ proposing' = [proposing EXCEPT ![p] = <<>>]
  /\ UNCHANGED <<files, skills, approving, cut, left>>

\* approveCandidate up to the directory of the skill.
approveCandidate(p, i) ==
  /\ Free(p) /\ approving[p] = Nobody /\ Open(i)
  /\ approving' = [approving EXCEPT ![p] =
       [step |-> "create", id |-> i, name |-> candidates[i].name, target |-> candidates[i].target]]
  /\ UNCHANGED <<candidates, files, skills, proposing, decided, rebuilt, cut, left>>

\* The file is emptied, then filled, while the process may go on with something else.
writeSkill(p) ==
  LET c == approving[p]
  IN  /\ \/ /\ c.step = "create"
            /\ files' = [files EXCEPT ![SkillName(c)] = "empty"]
            /\ approving' = [approving EXCEPT ![p].step = "fill"]
            /\ cut' = cut
         \/ /\ c.step = "fill"
            /\ files' = [files EXCEPT ![SkillName(c)] = "full"]
            /\ approving' = [approving EXCEPT ![p].step = "decide"]
            /\ cut' = cut \ {SkillName(c)}
      /\ UNCHANGED <<candidates, skills, proposing, decided, rebuilt, left>>

\* An approval comes to no end: what it has emptied stays so.
Abandoned(p) ==
  /\ approving' = [approving EXCEPT ![p] = Nobody]
  /\ cut' = cut \union {n \in Names : /\ approving[p].step = "fill"
                                      /\ n = SkillName(approving[p]) /\ files[n] = "empty"}

WriteFails(p) ==
  /\ approving[p].step \in {"create", "fill"} /\ left.faults > 0
  /\ Abandoned(p)
  /\ left' = [left EXCEPT !.faults = @ - 1]
  /\ UNCHANGED <<candidates, files, skills, proposing, decided, rebuilt>>

\* Mutant: the UPDATE does not ask for the status.
MutStatusAfter(i, status) == status

\* UPDATE ... WHERE status = 'proposed'.
StatusAfter(i, status) == IF Open(i) THEN status ELSE candidates[i].status

Decides(i, status) ==
  /\ candidates' = [candidates EXCEPT ![i].status = StatusAfter(i, status)]
  /\ decided' = [decided EXCEPT ![i] = IF @ = "none" THEN status ELSE @]

\* The skill is known to the process from now on, whatever the UPDATE found.
Approved(p) ==
  LET c == approving[p]
  IN  /\ Free(p) /\ c.step = "decide"
      /\ Decides(c.id, IF c.target # "none" THEN "merged" ELSE "approved")
      /\ skills' = [skills EXCEPT ![p] = @ \union {SkillName(c)}]
      /\ approving' = [approving EXCEPT ![p] = Nobody]
      /\ UNCHANGED <<files, proposing, rebuilt, cut, left>>

\* Between the two statements another decision leaves the UPDATE without effect.
rejectCandidate(p, i) ==
  /\ Free(p) /\ Open(i)
  /\ Decides(i, "rejected")
  /\ UNCHANGED <<files, skills, proposing, approving, rebuilt, cut, left>>

\* A process ends, and another one starts and reads the directory.
Restart(p) ==
  /\ left.faults > 0
  /\ proposing' = [proposing EXCEPT ![p] = <<>>]
  /\ Abandoned(p)
  /\ skills' = [skills EXCEPT ![p] = Present]
  /\ left' = [left EXCEPT !.faults = @ - 1]
  /\ UNCHANGED <<candidates, files, decided, rebuilt>>

Next ==
  \E p \in Processes :
    \/ \E w \in Workflows, n \in Names, t \in Names \union {"none"} :
         getOpenCandidateByWorkflowKey(p, w, n, t)
    \/ proposeCandidate(p) \/ writeSkill(p) \/ WriteFails(p) \/ Approved(p) \/ Restart(p)
    \/ \E i \in DOMAIN candidates : approveCandidate(p, i) \/ rejectCandidate(p, i)

-----------------------------------------------------------------------------
(* Properties.                                                             *)

\* A process that has read the candidate as open empties the file and is to fill it.
Rewriting(n) == \E p \in Processes : approving[p].step = "fill" /\ SkillName(approving[p]) = n

\* However approvals, rejections and builds of several processes overlap, fail or are cut off:
\* the first decision about a candidate stands; an approved candidate has its skill written in
\* the directory, unless it was given another name while its file was written, and unless a
\* second approval that read it as open writes the file again and has not come to its end, or
\* never did (SkillCandidateStore.ts 271); and a process knows no skill without a file. The
\* converse does not hold: the skill of a candidate that is rejected during its approval stays.
DecisionsStand ==
  /\ \A i \in DOMAIN candidates :
       LET n == SkillName(candidates[i]) IN
       /\ decided[i] # "none" => candidates[i].status = decided[i]
       /\ candidates[i].status \in {"approved", "merged"} /\ i \notin rebuilt =>
            files[n] = "full" \/ (files[n] = "empty" /\ (Rewriting(n) \/ n \in cut))
  /\ \A p \in Processes : skills[p] \subseteq Present
=============================================================================

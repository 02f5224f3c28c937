----------------------------- MODULE QuorumLists -----------------------------
(***************************************************************************)
(* Rewards lists published by a quorum: the vault's publisher is a Squads  *)
(* multisig, the site proposes each list of ListBuilder to it, co-signers  *)
(* (scripts/cosigner.ts) check the list against the chain before they      *)
(* approve, and whoever comes first executes what enough members approved. *)
(* A backup member is a person, who may vote and execute as they like.     *)
(*                                                                         *)
(* The site reads a proposal after the vault, a co-signer the paid records *)
(* after the vault, and votes later still; sends fail or land unseen,      *)
(* processes stop.  A proposal has no expiry: one the site gave up may be  *)
(* executed for as long as the vault accepts its list.  A list whose       *)
(* balances or rules the co-signer finds wrong is any list; the multisig's *)
(* own set-up does not change, and the site stays a member of it.          *)
(***************************************************************************)
EXTENDS ListBuilder, FiniteSets

CONSTANTS
    Site, Cosigners, Backup,        \* the members
    Threshold,                      \* approvals that carry a proposal
    MaxProposals, MaxFaults         \* bounds

Members == {Site, Backup} \cup Cosigners

ASSUME QuorumAssumption ==
    /\ Site # Backup /\ Site \notin Cosigners /\ Backup \notin Cosigners
    /\ Threshold \in Nat \ {0, 1}
    /\ MaxProposals \in Nat /\ MaxFaults \in Nat

VARIABLES
    proposals,          \* the multisig's transactions and their proposals
    proposal,           \* file.next's (0: none)
    cosigner,           \* where each co-signer's pass is, and what it is done with
    checked,            \* history: fallback_paid when a list's approver read the paid records
    overtaken,          \* history: proposals there were when the guardian cancelled a due list
    faults              \* history: failed sends, stopped passes

chain == <<proposals, checked, overtaken>>
quorumVars == <<chain, proposal, cosigner, faults>>
quorumAllVars == <<allVars, quorumVars>>

Indices == 1..MaxProposals
NoProposal == [status |-> "none", list |-> NoFile, prev |-> {}, floor |-> 0,
               approved |-> {}, rejected |-> {}]
Gone == [NoProposal EXCEPT !.status = "closed"]
CosignerIdle == [at |-> "idle", index |-> 0, fallback |-> 0, done |-> {}]

Fault == faults < MaxFaults /\ faults' = faults + 1
Waiting == proposal # 0 /\ ~next.published

-----------------------------------------------------------------------------
(* The multisig.                                                           *)
QuorumInit ==
    /\ BuilderInit
    /\ proposals = [i \in Indices |-> NoProposal]
    /\ proposal = 0
    /\ cosigner = [c \in Cosigners |-> CosignerIdle]
    /\ checked = [i \in Indices |-> 0]
    /\ overtaken = {}
    /\ faults = 0

Approved(p, who) ==
    LET votes == p.approved \cup {who}
    IN  [p EXCEPT !.approved = votes, !.rejected = @ \ {who},
                  !.status = IF Cardinality(votes) >= Threshold THEN "approved" ELSE @]

(* rejectCutoff.                                                           *)
Rejected(p, who) ==
    LET votes == p.rejected \cup {who}
    IN  [p EXCEPT !.rejected = votes, !.approved = @ \ {who},
                  !.status = IF Cardinality(votes) >= Cardinality(Members) - Threshold + 1
                             THEN "rejected" ELSE @]

VoteFor(i, who, fallback) ==
    /\ proposals[i].status = "active"
    /\ proposals' = [proposals EXCEPT ![i] = Approved(@, who)]
    /\ checked' = [checked EXCEPT ![i] = IF who \in Cosigners THEN fallback ELSE @]
    /\ UNCHANGED overtaken

VoteAgainst(i, who) ==
    /\ proposals[i].status = "active"
    /\ proposals' = [proposals EXCEPT ![i] = Rejected(@, who)]
    /\ UNCHANGED <<checked, overtaken>>

(* vault_transaction_execute: publish_list, signed by the multisig; its    *)
(* rent may come back at once.                                             *)
CanExecute(i) ==
    /\ proposals[i].status = "approved"
    /\ CheckPublish(proposals[i].list.epoch, proposals[i].list.total)

Executes(i) ==
    /\ CanExecute(i)
    /\ PublishList(publisher, proposals[i].list.root, proposals[i].list.epoch, proposals[i].list.total)

Settled(i, becomes) ==
    /\ proposals' = [proposals EXCEPT ![i] = becomes]
    /\ UNCHANGED <<checked, overtaken>>
Ran(i) == [proposals[i] EXCEPT !.status = "executed"]

-----------------------------------------------------------------------------
(* The site.                                                               *)

(* syncList: a proposed list is looked for on the chain; once there, the   *)
(* proposal's rent is asked back.                                          *)
QuorumSync ==
    /\ step = "idle"
    /\ IF Waiting /\ ~OnChain
       THEN step' = "list" /\ UNCHANGED <<vars, file, v, records, flying, fallback_then, proposal, chain>>
       ELSE /\ Sync
            /\ proposal' = IF next'.epoch = 0 THEN 0 ELSE proposal
            /\ \/ UNCHANGED chain
               \/ /\ Waiting /\ proposals[proposal].status = "executed"
                  /\ Settled(proposal, Gone)
    /\ UNCHANGED <<cosigner, faults>>

(* check_publish's bounds have moved past the list.                        *)
Stale(n) == LastEpoch >= n.epoch \/ n.total < Floor \/ n.total > holders_funded

(* listStep, with the vault as the pass read it.                           *)
QuorumReadVault ==
    /\ IF Waiting
       THEN /\ step = "list"
            /\ step' = IF Stale(next) THEN "stale" ELSE "follow"
            /\ UNCHANGED <<vars, file, v, records, flying, fallback_then>>
       ELSE ReadVault
    /\ UNCHANGED quorumVars

(* propose: what is landed and seen is in the file.                        *)
Propose(i, seen) ==
    /\ step \in {"publish", "resend"} /\ next.pinned
    /\ proposals[i].status = "none" /\ \A j \in 1..(i - 1) : proposals[j].status # "none"
    /\ proposals' = [proposals EXCEPT ![i] =
            [status |-> "active", list |-> next, prev |-> v.prev, floor |-> v.floor,
             approved |-> {Site}, rejected |-> {}]]
    /\ IF seen
       THEN /\ proposal' = i
            /\ step' = IF step = "publish" THEN "idle" ELSE "list"
            /\ UNCHANGED faults
       ELSE step' = "idle" /\ Fault /\ UNCHANGED proposal
    /\ UNCHANGED <<vars, file, v, records, flying, fallback_then, cosigner, checked, overtaken>>

(* followProposal.  Mutation: an approved list waits for the co-signer.    *)
MutFollowNext(p, stale) ==
    CASE p.status \in {"closed", "rejected"} -> "drop"
      [] p.status = "active" /\ p.rejected \ {Site} # {} -> "reject"
      [] stale /\ p.status # "executed" -> "drop"
      [] OTHER -> "idle"

FollowNext(p, stale) ==
    CASE p.status \in {"closed", "rejected"} -> "drop"
      [] p.status = "active" /\ p.rejected \ {Site} # {} -> "reject"
      [] stale /\ p.status # "executed" -> "drop"
      [] p.status = "approved" -> "execute"
      [] OTHER -> "idle"

FollowProposal ==
    /\ step \in {"follow", "stale"}
    /\ step' = FollowNext(proposals[proposal], step = "stale")
    /\ UNCHANGED <<vars, file, v, records, flying, fallback_then, quorumVars>>

(* It adds its own rejection, so that the proposal closes; whether or not  *)
(* that works the list is dropped.                                         *)
SiteRejects ==
    /\ step = "reject" /\ step' = "drop"
    /\ \/ VoteAgainst(proposal, Site) /\ UNCHANGED faults
       \/ Fault /\ UNCHANGED chain
       \/ proposals[proposal].status # "active" /\ UNCHANGED <<chain, faults>>
    /\ UNCHANGED <<vars, file, v, records, flying, fallback_then, proposal, cosigner>>

DropNext ==
    /\ step = "drop" /\ step' = "idle"
    /\ next' = NoFile /\ proposal' = 0
    /\ \/ UNCHANGED chain
       \/ proposals[proposal].status = "rejected" /\ Settled(proposal, Gone)
    /\ UNCHANGED <<vars, active, v, records, flying, fallback_then, cosigner, faults>>

(* A refusal leaves the list to the next pass.                             *)
SiteExecutes ==
    /\ step = "execute" /\ step' = "idle"
    /\ \/ /\ Executes(proposal)
          /\ Settled(proposal, Ran(proposal)) \/ Settled(proposal, Gone)
       \/ ~CanExecute(proposal) /\ UNCHANGED <<vars, chain>>
    /\ UNCHANGED <<file, v, records, flying, fallback_then, proposal, cosigner, faults>>

(* A new list has no proposal yet.                                         *)
QuorumBuild(balances) ==
    /\ Build(balances)
    /\ proposal' = IF UNCHANGED next THEN proposal ELSE 0
    /\ UNCHANGED <<cosigner, chain, faults>>

SitePass ==
    \/ QuorumSync \/ QuorumReadVault \/ (\E i \in Indices : Propose(i, TRUE))
    \/ FollowProposal \/ SiteRejects \/ DropNext \/ SiteExecutes
    \/ \E b \in Balances : QuorumBuild(b)
    \/ (ReadRecords \/ Pin) /\ UNCHANGED quorumVars
-----------------------------------------------------------------------------
(* A co-signer.                                                            *)
At(c, at, index, fallback) ==
    cosigner' = [cosigner EXCEPT ![c] = [@ EXCEPT !.at = at, !.index = index, !.fallback = fallback]]
DoneWith(c) ==
    cosigner' = [cosigner EXCEPT ![c] = [CosignerIdle EXCEPT !.done = cosigner[c].done \cup {cosigner[c].index}]]

(* verifyList, what it reads in the vault and the previous list's file.    *)
Acceptable(p) ==
    /\ p.list.epoch > LastEpoch
    /\ ~(pending.epoch > 0 /\ now < pending.active_at + ACTIVATION_MARGIN_SECS)
    /\ p.list.total >= Floor /\ p.list.total <= holders_funded
    /\ p.floor >= list.total /\ p.floor <= Floor
    /\ p.list.epoch = EffList.epoch + 1 /\ p.prev = EffList.root
    /\ \A w \in Wallets : AmountIn(p.list.root, w) >= AmountIn(EffList.root, w)

(* verifyList, nobody below what it was paid.  Mutation: not looked at.    *)
MutNobodyUnderPaid(root) == TRUE
NobodyUnderPaid(root) == \A w \in Wallets : AmountIn(root, w) >= paid[w]

CosignerLooks(c, i) ==
    /\ cosigner[c].at = "idle" /\ i \notin cosigner[c].done
    /\ proposals[i].status = "active"
    /\ c \notin proposals[i].approved \cup proposals[i].rejected
    /\ At(c, IF Acceptable(proposals[i]) THEN "records" ELSE "reject", i, 0)
    /\ UNCHANGED <<allVars, chain, proposal, faults>>

CosignerJudges(c) ==
    /\ cosigner[c].at = "records"
    /\ \/ /\ NobodyUnderPaid(proposals[cosigner[c].index].list.root)
          /\ At(c, "approve", cosigner[c].index, fallback_paid)
       \/ /\ ~NobodyUnderPaid(proposals[cosigner[c].index].list.root)
          /\ At(c, "reject", cosigner[c].index, 0)
    /\ UNCHANGED <<allVars, chain, proposal, faults>>

(* A refused approval fails the pass.                                      *)
CosignerApproves(c) ==
    LET i == cosigner[c].index
    IN  /\ cosigner[c].at = "approve"
        /\ \/ /\ VoteFor(i, c, cosigner[c].fallback)
              /\ IF proposals'[i].status = "approved" THEN At(c, "execute", i, 0) ELSE DoneWith(c)
           \/ proposals[i].status # "active" /\ UNCHANGED chain /\ At(c, "idle", 0, 0)
        /\ UNCHANGED <<allVars, proposal, faults>>

(* A rejection that does not arrive is not sent again.                     *)
CosignerRejects(c) ==
    LET i == cosigner[c].index
    IN  /\ cosigner[c].at = "reject"
        /\ \/ VoteAgainst(i, c) /\ UNCHANGED faults
           \/ proposals[i].status # "active" /\ UNCHANGED <<chain, faults>>
           \/ Fault /\ UNCHANGED chain
        /\ DoneWith(c)
        /\ UNCHANGED <<allVars, proposal>>

(* What its own approval carried, or finds carried later, it executes; one *)
(* try.                                                                    *)
CosignerFinds(c, i) ==
    /\ cosigner[c].at = "idle" /\ i \notin cosigner[c].done
    /\ proposals[i].status = "approved" /\ c \in proposals[i].approved
    /\ At(c, "execute", i, 0)
    /\ UNCHANGED <<allVars, chain, proposal, faults>>

CosignerExecutes(c) ==
    LET i == cosigner[c].index
    IN  /\ cosigner[c].at = "execute"
        /\ \/ Executes(i) /\ Settled(i, Ran(i)) /\ UNCHANGED faults
           \/ ~CanExecute(i) /\ UNCHANGED <<vars, chain, faults>>
           \/ Fault /\ UNCHANGED <<vars, chain>>
        /\ DoneWith(c)
        /\ UNCHANGED <<site, proposal>>

CosignerPass(c) ==
    \/ \E i \in Indices : CosignerLooks(c, i) \/ CosignerFinds(c, i)
    \/ CosignerJudges(c) \/ CosignerApproves(c) \/ CosignerRejects(c) \/ CosignerExecutes(c)

(* It fails, or its approval lands unseen, or it starts over.              *)
CosignerFails(c) ==
    /\ Fault
    /\ \/ cosigner[c].at = "approve" /\ VoteFor(cosigner[c].index, c, cosigner[c].fallback)
       \/ UNCHANGED chain
    /\ \/ cosigner[c].at # "idle" /\ At(c, "idle", 0, 0)
       \/ cosigner' = [cosigner EXCEPT ![c] = CosignerIdle]
    /\ UNCHANGED <<allVars, proposal>>
-----------------------------------------------------------------------------
(* The backup, a person: any vote, and what is carried may be executed at  *)
(* any time, as by a transaction of anybody's that lands late.             *)
BackupActs ==
    \E i \in Indices :
        \/ (VoteFor(i, Backup, 0) \/ VoteAgainst(i, Backup)) /\ UNCHANGED <<allVars, proposal, cosigner, faults>>
        \/ Executes(i) /\ Settled(i, Ran(i)) /\ UNCHANGED <<site, proposal, cosigner, faults>>

(* cancel_list on a list that is due but that no instruction has activated *)
(* yet: what was proposed to follow it follows nothing.                    *)
GuardianCancels ==
    /\ Cancel
    /\ overtaken' = IF Due THEN {i \in Indices : proposals[i].status # "none"} ELSE overtaken
    /\ UNCHANGED <<site, proposals, checked, proposal, cosigner, faults>>

Crowd ==
    \/ (PayAny \/ PayFallbackAny \/ Sponsor) /\ UNCHANGED site
    \/ Expire

SiteFails == Stop /\ Fault /\ UNCHANGED <<chain, proposal, cosigner>>

QuorumNext ==
    \/ SitePass \/ SiteFails \/ (\E i \in Indices : Propose(i, FALSE))
    \/ \E c \in Cosigners : CosignerPass(c) \/ CosignerFails(c)
    \/ BackupActs \/ GuardianCancels
    \/ Crowd /\ UNCHANGED quorumVars

QuorumFair ==
    /\ WF_quorumAllVars(SitePass)
    /\ \A c \in Cosigners : WF_quorumAllVars(CosignerPass(c))

QuorumSpec == QuorumInit /\ [][QuorumNext]_quorumAllVars /\ QuorumFair
-----------------------------------------------------------------------------
(* verifyList, cosigner.ts: a list that runs names nobody for less than it *)
(* was paid, whoever executes it and however late, unless a fallback       *)
(* payment was made after the last co-signer to approve it read the        *)
(* records (not the site's own reading, long before) or the guardian       *)
(* cancelled a list that was due already after it was proposed.            *)
CheckedListsReach ==
    [][\A i \in Indices :
         proposals[i].status = "approved" /\ proposals'[i].status \in {"executed", "closed"}
         /\ proposals[i].approved \cap Cosigners # {} /\ checked[i] = fallback_paid
         /\ i \notin overtaken =>
             \A w \in Wallets : AmountIn(proposals[i].list.root, w) >= paid[w]]_quorumAllVars

(* followProposal, syncList: what the code has no way out of.  A co-signer *)
(* does not repeat a rejection that was lost, and a list that ran but was  *)
(* cancelled before the site saw it stays "executed" to it; and one that   *)
(* follows a cancelled list is refused each time the site executes it, and *)
(* never stale.                                                            *)
Stranded ==
    /\ Waiting
    /\ \/ proposals[proposal].status = "executed" /\ ~OnChain
       \/ /\ proposals[proposal].status = "approved"
          /\ next.epoch > Larger(EffList.epoch, EffPending.epoch) + 1
       \/ /\ proposals[proposal].status = "active"
          /\ \A c \in Cosigners : proposal \in cosigner[c].done

(* propose, followProposal, cosigner.ts: otherwise every proposed list is  *)
(* decided: the site records it as published, or drops it and may build    *)
(* another, whatever the members do, whoever executes it, and even if a    *)
(* send is lost or a process stops on the way.                             *)
ProposalsSettle == Waiting ~> ~Waiting \/ Stranded
=============================================================================

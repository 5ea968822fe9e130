------------------------------ MODULE WaiverPanel ------------------------------
(***************************************************************************)
(* apps/dashboard, app/WaiverPanel.tsx over data/approver.ts: the panel at *)
(* which a waiver is proposed, and approved by the members of the quorum   *)
(* with keys kept in the browser.  It shows the proposals that it polls    *)
(* from the approver service, and signs with a member's key the payload    *)
(* that the service hands out for one of them.                             *)
(*                                                                         *)
(* The service is taken at its word for nothing.  It may list anything, at *)
(* any time: a call that Privy did not record, a proposal that is not      *)
(* there, members as having signed or not, and any status.  It may hand    *)
(* out a payload of another call or of another proposal, and may hold      *)
(* back, repeat or never pass on what was signed.  Privy alone is trusted, *)
(* to verify each signature over what it recorded.  So nothing is claimed  *)
(* of what the panel ticks off, which is what the service says; only of    *)
(* what the members' keys sign.                                            *)
(*                                                                         *)
(* A call stands for what inspectPayload compares: target, calldata,       *)
(* chain, nonce and value.  Both members sit at this panel; approvals      *)
(* given elsewhere are not its own.                                        *)
(***************************************************************************)
EXTENDS FiniteSets

CONSTANTS
  Roles,   \* of the quorum's members
  Signers, \* keys, a member's named by her role
  NoKey,
  Intents,
  Calls

ASSUME PanelAssumption == Roles \subseteq Signers /\ NoKey \notin Signers

VARIABLES
  proposals,  \* Privy's intents: the call it recorded, and what has become of it
  walletId,   \* the service, as it answered last, has the quorum's wallet
  storedKeys, \* this origin's key store
  keys,       \* the keys the page holds
  toLoad, loaded, \* roles whose key the page still has to look up, and what it found
  signing,    \* the approval under way for each role; that it is one is a bound
  signatures  \* those given: over which payload, by which key, and, as history, what
              \* the page showed at the click

panelVars ==
  <<proposals, walletId, storedKeys, keys, toLoad, loaded, signing, signatures>>

OpenStatuses == {"pending", "granted", "executed"} \* "granted" is "processing" too
Statuses == OpenStatuses \cup {"failed", "expired", "rejected"}

\* A proposal as the page shows it; a payload to sign names the same.
ServiceAction == [intent : Intents, call : Calls]

NoKeys == [role \in Roles |-> NoKey]

NotSigning == [at |-> "idle"]

\* The keys imported on an earlier visit are still in the store.
PanelInit ==
  /\ proposals = << >> /\ walletId = FALSE
  /\ storedKeys \in [Roles -> Signers \cup {NoKey}]
  /\ keys = NoKeys /\ toLoad = Roles /\ loaded = NoKeys
  /\ signing = [role \in Roles |-> NotSigning] /\ signatures = {}

-----------------------------------------------------------------------------
(* What the panel reads.                                                   *)

keysUnmoved == UNCHANGED <<storedKeys, keys, toLoad, loaded>>

\* Every four seconds, apart from the proposals.  A service that was started without the
\* wallet answers too, and a fetch that fails leaves what was there: no news either way.
fetchInfo ==
  /\ ~walletId
  /\ walletId' = TRUE
  /\ UNCHANGED <<proposals, signing, signatures>> /\ keysUnmoved

\* Every four seconds, and when a request has been answered: whatever the service says.
\* The buttons come and go with the status, the signatures and the broadcast it lists, so
\* that each of them may be there at any time.
fetchActions == IF walletId THEN ServiceAction ELSE {}

-----------------------------------------------------------------------------
(* Keys.                                                                   *)

\* A look-up in the store; one that fails finds nothing.
keyFound(role) == {storedKeys[role], NoKey}

\* The page looks the keys up one after the other, and then holds those it found, and
\* no others: also when one was imported or forgotten meanwhile.
loadApproverKey(role) ==
  /\ role \in toLoad
  /\ toLoad' = toLoad \ {role}
  /\ \E found \in keyFound(role) :
       LET next == [loaded EXCEPT ![role] = found]
       IN IF toLoad' = {} THEN keys' = next /\ loaded' = NoKeys
          ELSE loaded' = next /\ UNCHANGED keys
  /\ UNCHANGED <<proposals, walletId, storedKeys, signing, signatures>>

importApproverKey(role, key) == storedKeys' = [storedKeys EXCEPT ![role] = key]

\* Any key will do for a role; the card says when it is not the member's.
doImport(role, key) ==
  /\ keys[role] = NoKey
  /\ importApproverKey(role, key)
  /\ keys' = [keys EXCEPT ![role] = key]
  /\ UNCHANGED <<proposals, walletId, toLoad, loaded, signing, signatures>>

forgetApproverKey(role) == storedKeys' = [storedKeys EXCEPT ![role] = NoKey]

doForget(role) ==
  /\ keys[role] # NoKey
  /\ forgetApproverKey(role)
  /\ keys' = [keys EXCEPT ![role] = NoKey]
  /\ UNCHANGED <<proposals, walletId, toLoad, loaded, signing, signatures>>

-----------------------------------------------------------------------------
(* Proposals.                                                              *)

setProposal(i, proposal) ==
  proposals' = [j \in DOMAIN proposals \cup {i} |-> IF j = i THEN proposal ELSE proposals[j]]

setProposalStatus(i, status) == setProposal(i, [proposals[i] EXCEPT !.status = status])

panelUnmoved == UNCHANGED <<walletId, signing, signatures>> /\ keysUnmoved

\* The button greys out while a proposal is on its way or a waiver is active, but it
\* takes clicks all the same: whether to propose is the service's to say.
proposeButton == walletId

\* A request to the service, here and below, is taken in one step with its click.  Privy
\* records what the service proposes to it.
propose(i) ==
  /\ proposeButton
  /\ i \notin DOMAIN proposals
  /\ \E recorded \in Calls :
       setProposal(i, [recorded |-> recorded, status |-> "pending",
                       approvals |-> {}, broadcast |-> FALSE])
  /\ panelUnmoved

\* Privy rejects what is open, whatever was listed.
rejectProposal(action) ==
  /\ action.intent \in DOMAIN proposals
  /\ proposals[action.intent].status \in OpenStatuses
  /\ setProposalStatus(action.intent, "rejected")
  /\ panelUnmoved

\* What Privy has signed is broadcast, whatever was listed.
broadcastProposal(action) ==
  /\ action.intent \in DOMAIN proposals
  /\ LET proposal == proposals[action.intent]
     IN /\ proposal.status = "executed" /\ ~proposal.broadcast
        /\ setProposal(action.intent, [proposal EXCEPT !.broadcast = TRUE])
  /\ panelUnmoved

\* Privy signs what every member approved, or the wallet's policy denies it.
privySigns(i) ==
  /\ proposals[i].status = "granted"
  /\ \E status \in {"executed", "failed"} : setProposalStatus(i, status)
  /\ panelUnmoved

intentExpires(i) ==
  /\ proposals[i].status = "pending"
  /\ setProposalStatus(i, "expired")
  /\ panelUnmoved

-----------------------------------------------------------------------------
(* Approving.                                                              *)

signingMoves(role, state) ==
  /\ signing' = [signing EXCEPT ![role] = state]
  /\ UNCHANGED <<proposals, walletId>> /\ keysUnmoved

\* What is on the page at the click is what will be compared, and the key is the one the
\* page holds at the click, whatever is listed or forgotten while the payload is fetched.
approveAs(role, action) ==
  /\ signing[role] = NotSigning
  /\ keys[role] # NoKey
  /\ signingMoves(role, [at |-> "fetching", action |-> action, key |-> keys[role]])
  /\ UNCHANGED signatures

\* Mutant of inspectPayload: the calldata is not compared.
inspectPayloadIntent(action, payload) == payload.intent = action.intent

inspectPayload(action, payload) ==
  payload.intent = action.intent /\ payload.call = action.call

\* A payload to sign now.  One that is not of the proposal clicked is not signed; a
\* signature is the service's from then on.
fetchSigningPayload(role) ==
  /\ signing[role].at = "fetching"
  /\ \E payload \in ServiceAction :
       signatures' = IF inspectPayload(signing[role].action, payload)
                     THEN signatures \cup
                            {[payload |-> payload, key |-> signing[role].key,
                              shown |-> signing[role].action]}
                     ELSE signatures
  /\ signingMoves(role, NotSigning)

\* The service does not answer.
approvalFails(role) ==
  /\ signing[role] # NotSigning
  /\ signingMoves(role, NotSigning)
  /\ UNCHANGED signatures

\* The signature is a member's, and over what Privy recorded for a pending intent.
signatureVerifies(payload, key) ==
  /\ key \in Roles
  /\ payload.intent \in DOMAIN proposals
  /\ proposals[payload.intent].status = "pending"
  /\ proposals[payload.intent].recorded = payload.call

\* Privy counts each member once, and grants the intent when it has them all.
counted(proposal, member) ==
  LET approvals == proposal.approvals \cup {member}
  IN [proposal EXCEPT !.approvals = approvals,
                      !.status = IF Roles \subseteq approvals THEN "granted" ELSE "pending"]

\* When, how often and whether a signature comes to Privy is up to the service.
approveAction(signature) ==
  /\ signatureVerifies(signature.payload, signature.key)
  /\ LET i == signature.payload.intent
     IN setProposal(i, counted(proposals[i], signature.key))
  /\ panelUnmoved

-----------------------------------------------------------------------------

PanelNext ==
  \/ fetchInfo
  \/ \E role \in Roles :
       \/ loadApproverKey(role) \/ doForget(role)
       \/ \E key \in Signers : doImport(role, key)
       \/ \E action \in fetchActions : approveAs(role, action)
       \/ fetchSigningPayload(role) \/ approvalFails(role)
  \/ \E signature \in signatures : approveAction(signature)
  \/ \E i \in Intents : propose(i)
  \/ \E action \in fetchActions : rejectProposal(action) \/ broadcastProposal(action)
  \/ \E i \in DOMAIN proposals : privySigns(i) \/ intentExpires(i)

PanelSpec == PanelInit /\ [][PanelNext]_panelVars

-----------------------------------------------------------------------------
\* What the panel shows is what gets signed (approver.ts:101-103), whatever the service
\* lists, hands out for signing and passes on: an approval that Privy counts was given at
\* a click beside the very call that Privy recorded, so that a call is signed, and
\* broadcast, only when it was shown to every member of the quorum.
ApprovedWasShown ==
  \A i \in DOMAIN proposals :
    LET wereShown == {member \in Roles : \E signature \in signatures :
                        /\ signature.key = member
                        /\ signature.shown = [intent |-> i, call |-> proposals[i].recorded]}
    IN /\ proposals[i].approvals \subseteq wereShown
       /\ proposals[i].status = "executed" \/ proposals[i].broadcast => wereShown = Roles
=============================================================================

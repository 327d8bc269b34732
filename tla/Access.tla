--------------------------------- MODULE Access ---------------------------------
(***************************************************************************)
(* Who gets into a community and into one of its plans: the requests,      *)
(* invitations and memberships of internal/communities, those of           *)
(* internal/plans, and the check of internal/bookings (access.go) that     *)
(* stands before every reservation.                                        *)
(*                                                                         *)
(* The owner of the community hosts the plan and makes every decision; the *)
(* state is about the guests.  A call is modelled statement by statement   *)
(* where it reads before it writes.  The seats themselves, and how many    *)
(* there are, are in Bookings.                                             *)
(***************************************************************************)

CONSTANTS
  Guests,
  Terms      \* the kinds of community and plan looked at, see AllTerms

(* type is the community's membership_type; mode, visibility and premium   *)
(* are join_mode, visibility and requires_entitlement of the plan.         *)
AllTerms ==
  [type : {"public", "private", "approval", "paid"},
   mode : {"open", "invite_only", "approval"},
   visibility : {"public", "private", "community"},
   premium : BOOLEAN]

ASSUME TermsAssumption == Terms \subseteq AllTerms

VARIABLES
  terms,
  request,      \* request[u]: community_join_requests.status, "none" without a row
  inviter,      \* guests whose request has an invited_by
  members,      \* guests in community_members
  entitled,     \* guests in entitlements
  joining,      \* joining[u]: the step u's JoinCommunity is at
  planRequest,  \* planRequest[u]: plan_join_requests.status
  planInvited,  \* guests in plan_invites
  booking,      \* booking[u]: the step u's CreateBooking is at
  seats,        \* guests with a booking
  wasInvited,   \* history: guests once in planInvited
  wasMember     \* history: guests once in members

community == <<request, inviter, members, wasMember>>
plan == <<planRequest, planInvited, wasInvited>>
accessVars == <<terms, community, entitled, joining, plan, booking, seats>>

AccessInit ==
  /\ terms \in Terms
  /\ request = [u \in Guests |-> "none"]
  /\ inviter = {} /\ members = {} /\ wasMember = {}
  /\ entitled = {}
  /\ joining = [u \in Guests |-> "idle"]
  /\ planRequest = [u \in Guests |-> "none"]
  /\ planInvited = {} /\ wasInvited = {}
  /\ booking = [u \in Guests |-> "idle"]
  /\ seats = {}

JoinAt(u, s) == joining' = [joining EXCEPT ![u] = s]
BookAt(u, s) == booking' = [booking EXCEPT ![u] = s]

-----------------------------------------------------------------------------
(* JoinCommunity *)

(* RequestToJoin, its INSERT: an answered request stays as it is. *)
Requests(u) ==
  /\ joining[u] = "idle"
  /\ terms.type = "approval" /\ u \notin members
  /\ request' = IF request[u] = "none" THEN [request EXCEPT ![u] = "pending"] ELSE request
  /\ JoinAt(u, "requested")
  /\ UNCHANGED <<terms, inviter, members, wasMember, entitled, plan, booking, seats>>

(* Wrong variant: whoever is not rejected goes on. *)
RequestNotRejected(u) ==
  /\ joining[u] = "requested"
  /\ JoinAt(u, IF request[u] # "rejected" THEN "admitted" ELSE "idle")
  /\ UNCHANGED <<terms, community, entitled, plan, booking, seats>>

(* RequestToJoin, its SELECT: only an approved request goes on. *)
RequestAnswered(u) ==
  /\ joining[u] = "requested"
  /\ JoinAt(u, IF request[u] = "approved" THEN "admitted" ELSE "idle")
  /\ UNCHANGED <<terms, community, entitled, plan, booking, seats>>

(* HasApprovedInvite and HasEntitlement. *)
MayEnter(u) ==
  CASE terms.type = "public" -> TRUE
    [] terms.type = "private" -> request[u] = "approved" /\ u \in inviter
    [] terms.type = "paid" -> u \in entitled
    [] OTHER -> FALSE

Enters(u) ==
  /\ joining[u] = "idle"
  /\ u \notin members
  /\ MayEnter(u)
  /\ JoinAt(u, "admitted")
  /\ UNCHANGED <<terms, community, entitled, plan, booking, seats>>

Join(u) ==
  /\ joining[u] = "admitted"
  /\ members' = members \cup {u}
  /\ wasMember' = wasMember \cup {u}
  /\ JoinAt(u, "idle")
  /\ UNCHANGED <<terms, request, inviter, entitled, plan, booking, seats>>

Leave(u) ==
  /\ members' = members \ {u}
  /\ UNCHANGED <<terms, request, inviter, wasMember, entitled, joining, plan, booking, seats>>

(* DecideRequest, one transaction. *)
DecideRequest(u, approve) ==
  /\ request[u] = "pending"
  /\ request' = [request EXCEPT ![u] = IF approve THEN "approved" ELSE "rejected"]
  /\ members' = IF approve THEN members \cup {u} ELSE members
  /\ wasMember' = wasMember \cup members'
  /\ UNCHANGED <<terms, inviter, entitled, joining, plan, booking, seats>>

(* An invitation approves, whatever the request was. *)
Invite(u) ==
  /\ request' = [request EXCEPT ![u] = "approved"]
  /\ inviter' = inviter \cup {u}
  /\ UNCHANGED <<terms, members, wasMember, entitled, joining, plan, booking, seats>>

(* subscriptions.Subscribe; Cancel leaves the entitlement. *)
Subscribe(u) ==
  /\ entitled' = entitled \cup {u}
  /\ UNCHANGED <<terms, community, joining, plan, booking, seats>>

-----------------------------------------------------------------------------
(* The plan *)

(* CanView, asked when the plan is not public. *)
CanView(u) ==
  \/ u \in planInvited \cup seats
  \/ planRequest[u] \in {"pending", "approved"}
  \/ terms.visibility = "community" /\ u \in members

(* RequestToJoinPlan: a repeated request changes nothing. *)
RequestToJoinPlan(u) ==
  /\ terms.mode = "approval"
  /\ terms.visibility = "public" \/ CanView(u)
  /\ planRequest[u] = "none"
  /\ planRequest' = [planRequest EXCEPT ![u] = "pending"]
  /\ UNCHANGED <<terms, community, entitled, joining, planInvited, wasInvited, booking, seats>>

DecideJoinRequest(u, approve) ==
  /\ planRequest[u] = "pending"
  /\ planRequest' = [planRequest EXCEPT ![u] = IF approve THEN "approved" ELSE "rejected"]
  /\ UNCHANGED <<terms, community, entitled, joining, planInvited, wasInvited, booking, seats>>

InvitePlanUser(u) ==
  /\ planInvited' = planInvited \cup {u}
  /\ wasInvited' = wasInvited \cup {u}
  /\ UNCHANGED <<terms, community, entitled, joining, planRequest, booking, seats>>

RevokeInvite(u) ==
  /\ planInvited' = planInvited \ {u}
  /\ UNCHANGED <<terms, community, entitled, joining, planRequest, wasInvited, booking, seats>>

-----------------------------------------------------------------------------
(* CreateBooking: checkAccess in two queries, the reservation afterwards. *)

(* Wrong variant: an invitation also stands for the subscription. *)
PremiumOrInvited(u) == terms.premium => u \in entitled \cup planInvited

HasPremium(u) == terms.premium => u \in entitled

Invited(u) == u \in planInvited

(* getPlanAccess and what checkAccess makes of it. *)
PlanAccess(u) ==
  /\ terms.visibility = "community" => u \in members \/ Invited(u)
  /\ terms.mode = "invite_only" => Invited(u)
  /\ terms.mode = "approval" => planRequest[u] = "approved" \/ Invited(u)

ChecksAccess(u) ==
  /\ booking[u] = "idle"
  /\ PlanAccess(u)
  /\ BookAt(u, "checked")
  /\ UNCHANGED <<terms, community, entitled, joining, plan, seats>>

ChecksEntitlement(u) ==
  /\ booking[u] = "checked"
  /\ BookAt(u, IF HasPremium(u) THEN "admitted" ELSE "idle")
  /\ UNCHANGED <<terms, community, entitled, joining, plan, seats>>

Book(u) ==
  /\ booking[u] = "admitted"
  /\ seats' = seats \cup {u}
  /\ BookAt(u, "idle")
  /\ UNCHANGED <<terms, community, entitled, joining, plan>>

CancelBooking(u) ==
  /\ u \in seats
  /\ seats' = seats \ {u}
  /\ UNCHANGED <<terms, community, entitled, joining, plan, booking>>

-----------------------------------------------------------------------------
Decisions(u) == \E approve \in BOOLEAN : DecideRequest(u, approve) \/ DecideJoinRequest(u, approve)

AccessNext == \E u \in Guests :
  \/ Requests(u) \/ RequestAnswered(u) \/ Enters(u) \/ Join(u) \/ Leave(u)
  \/ Decisions(u) \/ Invite(u) \/ Subscribe(u)
  \/ RequestToJoinPlan(u) \/ InvitePlanUser(u) \/ RevokeInvite(u)
  \/ ChecksAccess(u) \/ ChecksEntitlement(u) \/ Book(u) \/ CancelBooking(u)

AccessSpec == AccessInit /\ [][AccessNext]_accessVars

-----------------------------------------------------------------------------
(* Properties. *)

Steps == {"idle", "requested", "admitted"}

AccessTypeOK ==
  /\ terms \in Terms
  /\ request \in [Guests -> {"none", "pending", "approved", "rejected"}]
  /\ planRequest \in [Guests -> {"none", "pending", "approved", "rejected"}]
  /\ {inviter, members, entitled, planInvited, seats, wasInvited, wasMember} \subseteq SUBSET Guests
  /\ joining \in [Guests -> Steps]
  /\ booking \in [Guests -> {"idle", "checked", "admitted"}]

(* Whoever is in a community that is not public was let in, and the record *)
(* of it still stands, although joining reads first and inserts later:     *)
(* approved, invited or entitled.                                          *)
MembersWereLetIn ==
  \A u \in members :
    /\ terms.type = "approval" => request[u] = "approved"
    /\ terms.type = "private" => request[u] = "approved" /\ u \in inviter
    /\ terms.type = "paid" => u \in entitled

(* Whoever has a seat met the plan's conditions, also if the membership or *)
(* the invitation was taken back between the check and the reservation.    *)
SeatsWereAllowed ==
  \A u \in seats :
    /\ terms.premium => u \in entitled
    /\ terms.mode = "invite_only" => u \in wasInvited
    /\ terms.mode = "approval" => planRequest[u] = "approved" \/ u \in wasInvited
    /\ terms.visibility = "community" => u \in wasMember \/ u \in wasInvited

(* A person is answered once: a rejection stands against repeated requests *)
(* and late decisions, and only an invitation of the owner lifts it.       *)
AnsweredOnce ==
  [][\A u \in Guests :
       /\ planRequest[u] \in {"approved", "rejected"} => planRequest'[u] = planRequest[u]
       /\ request[u] = "approved" => request'[u] = "approved"
       /\ request[u] = "rejected" => request'[u] = "rejected" \/ u \in inviter']_accessVars

=============================================================================

------------------------------- MODULE Tokens -------------------------------
(***************************************************************************)
(* The session's token table (selkies.py): handle_tokens replaces it and   *)
(* spawns reconcile_clients, which walks a snapshot of the connected       *)
(* sockets with a snapshot of the table and awaits sends in between.       *)
(* Several walks may be in progress.  Every socket has a token of its own  *)
(* (secure mode); legacy sockets are not touched by a walk.                *)
(***************************************************************************)
EXTENDS Naturals

CONSTANTS Sockets,      \* connections; a reload is another one
          Grants,       \* what a token may grant: records [role, slot]
          NoGrant,      \* a token that is not in the table, a socket without
                        \* an entry in client_permissions
          NoSocket,
          Tables,       \* the tables that may be posted
          MaxReplaces   \* bound on the replacements of the table

ASSUME TokensAssumption ==
  /\ Grants \subseteq [role: {"controller", "viewer"}, slot: Nat]
  /\ NoGrant \notin Grants
  /\ NoSocket \notin Sockets
  /\ Tables \subseteq [Sockets -> Grants \cup {NoGrant}]
  /\ MaxReplaces \in Nat

VARIABLES user_tokens,         \* per socket, what its token grants
          active_mk_token,     \* the socket whose token has mk_control
          client_permissions,  \* per socket: role and slot it was given
          opened,              \* the sockets that are not closed
          told,                \* per socket: "new" until it connects, "untold"
                               \* until it gets MK_ACCESS, then the verdict;
                               \* as history, "owed" from a replacement of the
                               \* table until the next verdict
          walks,               \* the calls of reconcile_clients
          replaced,            \* replacements so far
          aborted              \* history: a walk ended by KeyError

tokenVars == <<user_tokens, active_mk_token, client_permissions, opened, told,
               walks, replaced, aborted>>

\* The first token whose entry has mk_control, or none.
MkOwners(table) == {c \in Sockets : table[c] # NoGrant} \cup {NoSocket}

TokensInit ==
  /\ user_tokens \in Tables
  /\ active_mk_token \in MkOwners(user_tokens)
  /\ client_permissions = [c \in Sockets |-> NoGrant]
  /\ opened = {}
  /\ told = [c \in Sockets |-> "new"]
  /\ walks = [w \in 1..MaxReplaces |-> [place |-> "none"]]
  /\ replaced = 0
  /\ aborted = FALSE

\* _perms_hold_input_authority
HoldsAuthority(c, perms) ==
  IF active_mk_token # NoSocket THEN c = active_mk_token
  ELSE perms # NoGrant /\ perms.role = "controller"

Verdict(c, perms) == IF HoldsAuthority(c, perms) THEN "yes" ELSE "no"
-----------------------------------------------------------------------------
\* The authentication of a connection, up to AUTH_SUCCESS.
Connect(c) ==
  /\ told[c] = "new"
  /\ user_tokens[c] # NoGrant
  /\ client_permissions' = [client_permissions EXCEPT ![c] = user_tokens[c]]
  /\ opened' = opened \cup {c}
  /\ told' = [told EXCEPT ![c] = "untold"]
  /\ UNCHANGED <<user_tokens, active_mk_token, walks, replaced, aborted>>

SocketCloses(c) ==
  /\ c \in opened
  /\ opened' = opened \ {c}
  /\ UNCHANGED <<user_tokens, active_mk_token, client_permissions, told, walks,
                 replaced, aborted>>

\* The end of the handler of a socket that was closed.
HandlerEnds(c) ==
  /\ c \notin opened /\ client_permissions[c] # NoGrant
  /\ client_permissions' = [client_permissions EXCEPT ![c] = NoGrant]
  /\ UNCHANGED <<user_tokens, active_mk_token, opened, told, walks, replaced, aborted>>

\* handle_tokens: the walk is spawned, and takes its snapshots when it runs.
ReplaceTable(table, mk) ==
  /\ replaced < MaxReplaces
  /\ user_tokens' = table
  /\ active_mk_token' = mk
  /\ replaced' = replaced + 1
  /\ walks' = [walks EXCEPT ![replaced + 1] = [place |-> "spawned"]]
  /\ told' = [c \in Sockets |-> IF c \in opened THEN "owed" ELSE told[c]]
  /\ UNCHANGED <<client_permissions, opened, aborted>>

BeginWalk_OldTable(w) ==
  /\ walks[w].place = "spawned"
  /\ walks' = [walks EXCEPT ![w] =
       [place |-> "walking", tokens |-> user_tokens, at |-> NoSocket,
        left |-> {c \in opened : user_tokens[c] # NoGrant}]]
  /\ UNCHANGED <<user_tokens, active_mk_token, client_permissions, opened, told,
                 replaced, aborted>>

BeginWalk(w) ==
  /\ walks[w].place = "spawned"
  /\ walks' = [walks EXCEPT ![w] =
       [place |-> "walking", tokens |-> user_tokens, at |-> NoSocket,
        left |-> {c \in Sockets : client_permissions[c] # NoGrant}]]
  /\ UNCHANGED <<user_tokens, active_mk_token, client_permissions, opened, told,
                 replaced, aborted>>

Between(w) == walks[w].place = "walking" /\ walks[w].at = NoSocket

\* The token is still there, with the role the socket has.
SameRole(new, old) == new # NoGrant /\ new.role = old.role

\* The walk has done with socket c.
Passed(w, c) == [walks EXCEPT ![w].left = @ \ {c}, ![w].at = NoSocket]

\* The walk comes to a socket: gone, or revoked or of another role and closed,
\* or of another slot and sent ROLE_UPDATE, or only told who has the input.
Visit(w, c) ==
  /\ Between(w) /\ c \in walks[w].left
  /\ LET old == client_permissions[c]
         new == walks[w].tokens[c]
     IN \/ /\ c \notin opened \/ old = NoGrant
           /\ walks' = Passed(w, c)
           /\ UNCHANGED <<opened, told>>
        \/ /\ c \in opened /\ old # NoGrant
           /\ ~SameRole(new, old)
           /\ opened' = opened \ {c}
           /\ walks' = Passed(w, c)
           /\ UNCHANGED told
        \/ /\ c \in opened /\ old # NoGrant
           /\ SameRole(new, old) /\ new.slot # old.slot
           /\ walks' = [walks EXCEPT ![w].at = c]
           /\ UNCHANGED <<opened, told>>
        \/ /\ c \in opened /\ old # NoGrant /\ old = new
           /\ told' = [told EXCEPT ![c] = Verdict(c, new)]
           /\ walks' = Passed(w, c)
           /\ UNCHANGED opened
  /\ UNCHANGED <<user_tokens, active_mk_token, client_permissions, replaced, aborted>>

RoleUpdated_Untold(w) ==
  /\ walks[w].place = "walking" /\ walks[w].at # NoSocket
  /\ client_permissions' = [client_permissions EXCEPT ![walks[w].at] =
                              walks[w].tokens[walks[w].at]]
  /\ walks' = Passed(w, walks[w].at)
  /\ UNCHANGED <<user_tokens, active_mk_token, opened, told, replaced, aborted>>

\* ROLE_UPDATE was sent, or raised since the socket went; after it, MK_ACCESS.
RoleUpdated(w) ==
  LET c == walks[w].at
      new == walks[w].tokens[c]
  IN /\ walks[w].place = "walking" /\ c # NoSocket
     /\ \/ /\ client_permissions[c] # NoGrant
           /\ client_permissions' = [client_permissions EXCEPT ![c] = new]
           /\ walks' = Passed(w, c)
           /\ told' = [told EXCEPT ![c] = Verdict(c, new)]
           /\ UNCHANGED aborted
        \/ \* the send raised
           /\ c \notin opened
           /\ walks' = Passed(w, c)
           /\ UNCHANGED <<client_permissions, told, aborted>>
        \/ \* KeyError: the handler removed the entry during the send
           /\ client_permissions[c] = NoGrant
           /\ walks' = [walks EXCEPT ![w] = [place |-> "ended"]]
           /\ aborted' = TRUE
           /\ UNCHANGED <<client_permissions, told>>
     /\ UNCHANGED <<user_tokens, active_mk_token, opened, replaced>>

EndWalk(w) ==
  /\ Between(w) /\ walks[w].left = {}
  /\ walks' = [walks EXCEPT ![w] = [place |-> "ended"]]
  /\ UNCHANGED <<user_tokens, active_mk_token, client_permissions, opened, told,
                 replaced, aborted>>

Socket(c) == Connect(c) \/ SocketCloses(c) \/ HandlerEnds(c)
Walk(w) == BeginWalk(w) \/ (\E c \in Sockets : Visit(w, c)) \/ RoleUpdated(w) \/ EndWalk(w)

TokensNext ==
  \/ \E c \in Sockets : Socket(c)
  \/ \E table \in Tables : \E mk \in MkOwners(table) : ReplaceTable(table, mk)
  \/ \E w \in 1..MaxReplaces : Walk(w)

TokensSpec == TokensInit /\ [][TokensNext]_tokenVars
-----------------------------------------------------------------------------
Settled == \A w \in 1..MaxReplaces : walks[w].place \in {"none", "ended"}

\* Once the walks have ended, a socket is open only if its token is in the
\* table with the role the socket has, however replacements, walks, connects
\* and departures overlapped (reconcile_clients) - unless a KeyError ended a
\* walk early.
RolesReconciled ==
  Settled /\ ~aborted =>
    \A c \in opened : /\ user_tokens[c] # NoGrant
                      /\ user_tokens[c].role = client_permissions[c].role

\* And every open socket that was there when the table was last replaced has
\* been told since whether it holds the input, as the live rule decides it,
\* although walks with older snapshots told it too.
VerdictTold ==
  Settled /\ ~aborted =>
    \A c \in opened : told[c] \in {"untold", Verdict(c, client_permissions[c])}
=============================================================================

------------------------------ MODULE Directory ------------------------------
(***************************************************************************)
(* Who is who (src/directory, src/state.rs, and the reconciler task of      *)
(* src/main.rs).  Every poll interval one pass reads the accounts from      *)
(* Authentik, plans what changed against a copy of the mapping, carries the *)
(* plan out on that copy -- resolving Signal names and sending greetings,   *)
(* farewells and conflict notices -- saves it, and swaps it in.  Everything *)
(* else in the process looks people up in the mapping that is served.       *)
(*                                                                          *)
(* An action here is what happens between two awaits of a pass.  Accounts   *)
(* and phones change at any moment, also during a pass.                     *)
(*                                                                          *)
(* Data abstracted: a Signal name stands for all its spellings (the code    *)
(* compares them ignoring case); a profile is an account's groups and       *)
(* language.  Bounds: MaxEdits account or phone changes, MaxFaults things   *)
(* that go wrong.                                                           *)
(***************************************************************************)
EXTENDS Filter, FiniteSets, SequencesExt

CONSTANTS
  None,
  Roster,              \* the accounts, in the order Authentik lists them
  Name,                \* Signal usernames
  Aci,                 \* the phones behind them
  Profile,
  max_removed_per_pass,
  MaxEdits,
  MaxFaults

User == ToSet(Roster)
Maybe(S) == S \cup {None}

ASSUME RosterAssumption ==
  /\ Roster \in Seq(User) /\ Roster # <<>>
  /\ \A i, j \in DOMAIN Roster : Roster[i] = Roster[j] => i = j
  /\ None \notin User /\ None \notin Name /\ None \notin Aci
  /\ Profile # {}
  /\ max_removed_per_pass \in Nat /\ MaxEdits \in Nat /\ MaxFaults \in Nat

VARIABLES
  \* -- Authentik and Signal
  account,     \* [User -> [here, name, profile]]
  owner,       \* [Name -> Maybe(Aci)]: the phone a name resolves to, today
  edits,       \* how often either may still change
  faults,      \* how many more calls, writes or processes may fail
  \* -- the mapping
  served,      \* what lookups see
  disk,        \* the state file
  \* -- the running pass
  pc,
  users,       \* the accounts Authentik answered with
  working,     \* the copy
  changes,     \* the changes not carried out yet
  \* -- history, for the properties only
  welcomed,    \* accounts greeted on their present mapping
  warned,      \* <<account, name>> whose conflict its holder was told of
  lost         \* something that was sent is not on record

world   == <<account, owner, edits>>
pass    == <<users, changes>>
history == <<welcomed, warned, lost>>
vars    == <<world, faults, served, disk, pc, pass, working, history>>

-----------------------------------------------------------------------------
(* The mapping: state.rs                                                    *)

Entry ==
  [ user : User, name : Name, aci : Aci, greeted : BOOLEAN, profile : Profile ]

ASSUME EntryAssumption == None \notin Entry

Empty == [entries |-> <<>>, reported |-> {}]

Entries(m) == ToSet(m.entries)
Users(m) == { e.user : e \in Entries(m) }

\* The first entry of u, or None.
by_user(m, u) ==
  LET at == { i \in DOMAIN m.entries : m.entries[i].user = u }
  IN  IF at = {} THEN None ELSE m.entries[Min(at)]

remove_user(m, u) == [m EXCEPT !.entries = Only(@, { e \in Entries(m) : e.user # u })]

\* Mutant: the entry that was there stays.
upsert_beside(m, e) == [m EXCEPT !.entries = Append(@, e)]

\* A changed entry moves to the end.
upsert(m, e) == [remove_user(m, e.user) EXCEPT !.entries = Append(@, e)]

conflict_reported(m, u, n) == <<u, n>> \in m.reported
mark_conflict_reported(m, u, n) == [m EXCEPT !.reported = @ \cup {<<u, n>>}]

\* Mutant: a conflict once reported stays reported.
keep_all_reported(m, still) == m

keep_reported_conflicts(m, still) == [m EXCEPT !.reported = @ \cap still]

-----------------------------------------------------------------------------
(* The plan: diff.rs                                                        *)

Change ==
  [ kind : {"Added", "Rebound", "Updated", "Greet", "Removed", "Conflict"},
    user : User, name : Maybe(Name), held_by : Maybe(User) ]

To(kind, u) == [kind |-> kind, user |-> u, name |-> None, held_by |-> None]
Removal(u) == To("Removed", u)

\* Mutant: a greeting that failed is not made up for.
upkeep_without_greeting(existing, user) ==
  IF existing.profile # user.profile THEN <<To("Updated", user.user)>> ELSE <<>>

\* The name is the one on record; what hangs off it may not be.
upkeep(existing, user) ==
  (IF existing.profile # user.profile THEN <<To("Updated", user.user)>> ELSE <<>>)
  \o (IF ~existing.greeted THEN <<To("Greet", user.user)>> ELSE <<>>)

\* What one account asks for, given the names claimed so far as
\* <<name, account>>: its changes, and the claims after it.
PlanUser(m, acc, user) ==
  LET existing == by_user(m, user.user)
      rivals   == { i \in DOMAIN acc.claimed :
                      acc.claimed[i][1] = user.name /\ acc.claimed[i][2] # user.user }
      others   == Only(acc.claimed, { c \in ToSet(acc.claimed) : c[2] # user.user })
      Adding(c) == [acc EXCEPT !.changes = @ \o c]
  IN  IF user.name = None
        THEN Adding(IF existing # None THEN <<Removal(user.user)>> ELSE <<>>)
      ELSE IF existing # None /\ existing.name = user.name
        THEN Adding(upkeep(existing, user))
      ELSE IF rivals # {}
        THEN Adding(<<[To("Conflict", user.user) EXCEPT
                         !.name = user.name, !.held_by = acc.claimed[Min(rivals)][2]]>>)
      ELSE [ claimed |-> Append(others, <<user.name, user.user>>),
             changes |-> Append(acc.changes,
                           [To(IF existing # None THEN "Rebound" ELSE "Added", user.user)
                              EXCEPT !.name = user.name]) ]

\* Before the first account: the names on record are claimed by their holders.
OnRecord(m) ==
  [ claimed |-> [i \in DOMAIN m.entries |-> <<m.entries[i].name, m.entries[i].user>>],
    changes |-> <<>> ]

\* Account by account, and then those the directory does not list any more.
plan(m, listed) ==
  LET after[i \in 0 .. Len(listed)] ==
        IF i = 0 THEN OnRecord(m) ELSE PlanUser(m, after[i - 1], listed[i])
      gone == Only(m.entries, { e \in Entries(m) : \A u \in ToSet(listed) : u.user # e.user })
  IN  after[Len(listed)].changes \o [i \in DOMAIN gone |-> Removal(gone[i].user)]

Removals(cs) == { i \in DOMAIN cs : cs[i].kind = "Removed" }
WithoutRemovals(cs) == Only(cs, { c \in ToSet(cs) : c.kind # "Removed" })

\* Mutant: an off-by-one at the limit.
hold_back_above(cs) ==
  IF Cardinality(Removals(cs)) <= max_removed_per_pass + 1 THEN cs ELSE WithoutRemovals(cs)

\* All or nothing: too many removals at once, and none is carried out.
hold_back_mass_removal(cs) ==
  IF Cardinality(Removals(cs)) <= max_removed_per_pass THEN cs ELSE WithoutRemovals(cs)

-----------------------------------------------------------------------------
Fault == faults > 0 /\ faults' = faults - 1
NoFault == UNCHANGED faults

Account == [here : BOOLEAN, name : Maybe(Name), profile : Profile]

Init ==
  /\ account \in [User -> Account]
  /\ owner \in [Name -> Maybe(Aci)]
  /\ edits = MaxEdits /\ faults = MaxFaults
  /\ served = Empty /\ disk = Empty /\ working = Empty
  /\ pc = "idle" /\ users = <<>> /\ changes = <<>>
  /\ welcomed = {} /\ warned = {} /\ lost = FALSE

-----------------------------------------------------------------------------
(* The world                                                                *)

Edit ==
  /\ edits > 0 /\ edits' = edits - 1
  /\ UNCHANGED <<faults, served, disk, pc, pass, working, history>>

EnterName(u, n) ==
  /\ account[u].here /\ n # account[u].name
  /\ account' = [account EXCEPT ![u].name = n]
  /\ UNCHANGED owner /\ Edit

ChangeProfile(u, p) ==
  /\ account[u].here /\ p # account[u].profile
  /\ account' = [account EXCEPT ![u].profile = p]
  /\ UNCHANGED owner /\ Edit

ComeOrGo(u) ==
  /\ account' = [account EXCEPT ![u].here = ~@]
  /\ UNCHANGED owner /\ Edit

\* A Signal username is dropped, or taken, or moves to another phone.
NameMoves(n, a) ==
  /\ a # owner[n]
  /\ owner' = [owner EXCEPT ![n] = a]
  /\ UNCHANGED account /\ Edit

-----------------------------------------------------------------------------
(* A pass                                                                   *)

\* What Authentik says of the accounts in S, in its order.
Listing(S) ==
  LET here == Only(Roster, S)
  IN  [i \in DOMAIN here |->
         [user |-> here[i], name |-> account[here[i]].name, profile |-> account[here[i]].profile]]

ConflictsIn(cs) == { <<c.user, c.name>> : c \in { d \in ToSet(cs) : d.kind = "Conflict" } }

\* users() answers; the plan is made and trimmed.  With nothing to do the pass
\* is over; otherwise apply begins by forgetting the conflicts that are gone.
Begin(S) ==
  \E listed \in {Listing(S)} : \E todo \in {hold_back_mass_removal(plan(served, listed))} :
    IF todo = <<>> /\ served.reported = {}
    THEN UNCHANGED <<pc, pass, working, warned>>
    ELSE /\ users' = listed /\ changes' = todo
         /\ working' = keep_reported_conflicts(served, ConflictsIn(todo))
         /\ warned' = warned \cap ConflictsIn(todo)
         /\ pc' = "apply"

Here == { u \in User : account[u].here }

BeginPass ==
  /\ pc = "idle" /\ Here # {}
  /\ Begin(Here) /\ NoFault
  /\ UNCHANGED <<world, served, disk, welcomed, lost>>

\* A directory that answers wrong: some accounts are missing from its answer.
\* An answer with no user at all is an error, and no pass.
ShortAnswer ==
  /\ pc = "idle" /\ Fault
  /\ \E S \in SUBSET Here : S # {} /\ S # Here /\ Begin(S)
  /\ UNCHANGED <<world, served, disk, welcomed, lost>>

This == Head(changes)
Done(state) == pc' = state /\ changes' = Tail(changes) /\ UNCHANGED users

ProfileOf(u) == (CHOOSE i \in ToSet(users) : i.user = u).profile

\* Mutant: a new mapping keeps the greeting of the one it replaces.
ResolveKeepingGreeting ==
  /\ pc = "apply" /\ changes # <<>> /\ This.kind \in {"Added", "Rebound"}
  /\ owner[This.name] # None
  /\ working' = upsert(working,
       [ user |-> This.user, name |-> This.name, aci |-> owner[This.name],
         greeted |-> IF by_user(working, This.user) # None
                       THEN by_user(working, This.user).greeted ELSE FALSE,
         profile |-> ProfileOf(This.user) ])
  /\ welcomed' = welcomed \ {This.user}
  /\ pc' = "greet" /\ UNCHANGED <<users, changes>>
  /\ UNCHANGED <<world, faults, served, disk, warned, lost>>

\* resolve answers with a phone: the entry is stored, the greeting is next.
Resolve ==
  /\ pc = "apply" /\ changes # <<>> /\ This.kind \in {"Added", "Rebound"}
  /\ owner[This.name] # None
  /\ working' = upsert(working,
       [ user |-> This.user, name |-> This.name, aci |-> owner[This.name],
         greeted |-> FALSE, profile |-> ProfileOf(This.user) ])
  /\ welcomed' = welcomed \ {This.user}
  /\ pc' = "greet" /\ UNCHANGED <<users, changes>>
  /\ UNCHANGED <<world, faults, served, disk, warned, lost>>

\* The name is a typo, or Signal does not answer: nothing is stored, and an
\* entry under the old name stays as it is.
NotResolved ==
  /\ pc = "apply" /\ changes # <<>> /\ This.kind \in {"Added", "Rebound"}
  /\ \/ owner[This.name] = None /\ NoFault
     \/ Fault
  /\ Done("apply")
  /\ UNCHANGED <<world, served, disk, working, history>>

\* Mutant: an update looks the phone up again.
UpdateAndResolve ==
  /\ pc = "apply" /\ changes # <<>> /\ This.kind = "Updated"
  /\ LET e == by_user(working, This.user) IN
       working' = upsert(working, [e EXCEPT !.profile = ProfileOf(This.user),
                    !.aci = IF owner[e.name] # None THEN owner[e.name] ELSE @])
  /\ Done("apply")
  /\ UNCHANGED <<world, faults, served, disk, history>>

\* Mutant: an update puts the entry back unchanged.
UpdateNothing ==
  /\ pc = "apply" /\ changes # <<>> /\ This.kind = "Updated"
  /\ working' = upsert(working, by_user(working, This.user))
  /\ Done("apply")
  /\ UNCHANGED <<world, faults, served, disk, history>>

Update ==
  /\ pc = "apply" /\ changes # <<>> /\ This.kind = "Updated"
  /\ working' = upsert(working, [by_user(working, This.user) EXCEPT !.profile = ProfileOf(This.user)])
  /\ Done("apply")
  /\ UNCHANGED <<world, faults, served, disk, history>>

GreetAgain ==
  /\ pc = "apply" /\ changes # <<>> /\ This.kind = "Greet"
  /\ pc' = "greet" /\ UNCHANGED pass
  /\ UNCHANGED <<world, faults, served, disk, working, history>>

\* greet: the message is out, and the entry says so.
Greeted ==
  /\ pc = "greet"
  /\ working' = upsert(working, [by_user(working, This.user) EXCEPT !.greeted = TRUE])
  /\ welcomed' = welcomed \cup {This.user}
  /\ Done("apply")
  /\ UNCHANGED <<world, faults, served, disk, warned, lost>>

\* The send fails, or its answer does.
NotGreeted ==
  /\ pc = "greet" /\ Fault
  /\ \/ UNCHANGED <<welcomed, lost>>
     \/ welcomed' = welcomed \cup {This.user} /\ lost' = TRUE
  /\ Done("apply")
  /\ UNCHANGED <<world, served, disk, working, warned>>

\* The farewell, which may fail, and then the removal, which does not.
SayGoodbye ==
  /\ pc = "apply" /\ changes # <<>> /\ This.kind = "Removed"
  /\ working' = remove_user(working, This.user)
  /\ welcomed' = welcomed \ {This.user}
  /\ Done("apply")
  /\ UNCHANGED <<world, faults, served, disk, warned, lost>>

\* Mutant: nobody looks whether the holder was told.
TellHolderAgain ==
  /\ pc = "apply" /\ changes # <<>> /\ This.kind = "Conflict"
  /\ by_user(working, This.held_by) # None
  /\ pc' = "warn" /\ UNCHANGED pass
  /\ UNCHANGED <<world, faults, served, disk, working, history>>

TellHolder ==
  /\ pc = "apply" /\ changes # <<>> /\ This.kind = "Conflict"
  /\ ~conflict_reported(working, This.user, This.name)
  /\ by_user(working, This.held_by) # None
  /\ pc' = "warn" /\ UNCHANGED pass
  /\ UNCHANGED <<world, faults, served, disk, working, history>>

\* Told before, or the holder is another newcomer of this very pass.
PassOver ==
  /\ pc = "apply" /\ changes # <<>> /\ This.kind = "Conflict"
  /\ \/ conflict_reported(working, This.user, This.name)
     \/ by_user(working, This.held_by) = None
  /\ Done("apply")
  /\ UNCHANGED <<world, faults, served, disk, working, history>>

Told ==
  /\ pc = "warn"
  /\ working' = mark_conflict_reported(working, This.user, This.name)
  /\ warned' = warned \cup {<<This.user, This.name>>}
  /\ Done("apply")
  /\ UNCHANGED <<world, faults, served, disk, welcomed, lost>>

NotTold ==
  /\ pc = "warn" /\ Fault
  /\ \/ UNCHANGED <<warned, lost>>
     \/ warned' = warned \cup {<<This.user, This.name>>} /\ lost' = TRUE
  /\ Done("apply")
  /\ UNCHANGED <<world, served, disk, working, welcomed>>

\* Mutant: a mapping that could not be saved is not swapped in.
EndPassIfSaved ==
  /\ pc = "apply" /\ changes = <<>>
  /\ \/ disk' = working /\ served' = working /\ NoFault
     \/ UNCHANGED <<disk, served>> /\ Fault
  /\ pc' = "idle" /\ users' = <<>> /\ working' = Empty /\ UNCHANGED changes
  /\ UNCHANGED <<world, history>>

\* Saved, or not -- and swapped in either way.
EndPass ==
  /\ pc = "apply" /\ changes = <<>>
  /\ \/ disk' = working /\ NoFault
     \/ disk' \in {disk, working} /\ Fault
  /\ served' = working
  /\ pc' = "idle" /\ users' = <<>> /\ working' = Empty /\ UNCHANGED changes
  /\ UNCHANGED <<world, history>>

\* The process is killed and started again: State::load.
Crash ==
  /\ Fault
  /\ served' = disk
  /\ pc' = "idle" /\ users' = <<>> /\ changes' = <<>> /\ working' = Empty
  /\ lost' = (lost \/ pc # "idle" \/ served # disk)
  /\ UNCHANGED <<world, disk, welcomed, warned>>

-----------------------------------------------------------------------------
Reconciler ==
  \/ BeginPass \/ ShortAnswer
  \/ Resolve \/ NotResolved \/ Update \/ GreetAgain \/ Greeted \/ NotGreeted
  \/ SayGoodbye \/ TellHolder \/ PassOver \/ Told \/ NotTold
  \/ EndPass

World ==
  \/ \E u \in User : \/ \E n \in Maybe(Name) : EnterName(u, n)
                     \/ \E p \in Profile : ChangeProfile(u, p)
                     \/ ComeOrGo(u)
  \/ \E n \in Name, a \in Maybe(Aci) : NameMoves(n, a)
  \/ Crash

Next == Reconciler \/ World

Spec == Init /\ [][Next]_vars

\* The task runs and its interval fires; people may stay as they are for ever.
LiveSpec == Spec /\ WF_vars(Reconciler)

-----------------------------------------------------------------------------
(* Properties                                                               *)

\* Every variable keeps its type; no account has two entries.
Mapping(m) ==
  /\ m \in [entries : Seq(Entry), reported : SUBSET (User \X Name)]
  /\ \A i, j \in DOMAIN m.entries : m.entries[i].user = m.entries[j].user => i = j

Listed == [user : User, name : Maybe(Name), profile : Profile]

TypeOK ==
  /\ account \in [User -> Account] /\ owner \in [Name -> Maybe(Aci)]
  /\ edits \in Nat /\ faults \in Nat
  /\ Mapping(served) /\ Mapping(disk) /\ Mapping(working)
  /\ pc \in {"idle", "apply", "greet", "warn"}
  /\ users \in Seq(Listed) /\ changes \in Seq(Change)
  /\ welcomed \subseteq User /\ warned \subseteq User \X Name /\ lost \in BOOLEAN

\* The mapping as it stands: the copy while a pass is running.
Current == IF pc = "idle" THEN served ELSE working

\* `greeted` tells the truth: whoever has the flag was greeted on the mapping
\* they have now, and whoever was is not greeted again -- through updates,
\* rebinds, short answers and restarts, as long as everything sent is on record
\* (directory/mod.rs apply and greet).
GreetedIsTrue ==
  ~lost => \A e \in Entries(Current) : e.greeted <=> e.user \in welcomed

\* The lookups of the dialog and the webhook see the served mapping only, so
\* somebody just greeted is a stranger while the pass lasts; when it is over,
\* whoever was greeted is known, also when the mapping could not be saved
\* (main.rs, the swap at the end of a pass).
GreetedIsServed == pc = "idle" /\ ~lost => welcomed \subseteq Users(served)

\* "The phone that owns the name is told once": while a conflict lasts, its
\* holder is not told again, not even after a restart (apply, the Conflict arm).
WarnedOnce ==
  pc = "warn" /\ ~lost => <<This.user, This.name>> \notin warned

\* "Pinned once and never re-resolved": a pass gives an account another phone
\* only together with another name, whoever owns the old name by now
\* (state.rs Entry::aci).
PhonePinned ==
  pc # "idle" =>
    \A e \in Entries(served), f \in Entries(working) :
      e.user = f.user /\ e.name = f.name => e.aci = f.aci

\* However wrong the directory answers, one pass forgets at most
\* max_removed_per_pass people (diff.rs hold_back_mass_removal).
FewLeaveAtOnce ==
  pc # "idle" => Cardinality(Users(served) \ Users(working)) <= max_removed_per_pass

\* After a pass, whoever is mapped under the name they entered has the groups
\* and the language Authentik gave for them in that pass (diff.rs Updated).
RightsFollow ==
  pc = "apply" /\ changes = <<>> =>
    \A e \in Entries(working), u \in ToSet(users) :
      u.user = e.user /\ u.name = e.name => e.profile = u.profile

\* Nothing stands in the way of u: there, under a name that resolves, that no
\* other account asks for and no other entry holds.
Settled(u) ==
  /\ account[u].here /\ account[u].name # None /\ owner[account[u].name] # None
  /\ \A v \in User \ {u} :
       /\ ~account[v].here \/ account[v].name # account[u].name
       /\ \A e \in Entries(served) : e.user = v => e.name # account[u].name

Known(u) ==
  /\ \E e \in Entries(served) :
       /\ e.user = u /\ e.name = account[u].name /\ e.profile = account[u].profile
       /\ e.greeted
  /\ lost \/ u \in welcomed

\* "A new member's greeting lands": an account that stays settled ends up known,
\* greeted and with its current rights, whatever finite number of failures and
\* restarts lies in between (directory/mod.rs greet, diff.rs Greet).
WelcomeReaches == \A u \in User : <>[]Settled(u) => <>[]Known(u)

\* u asks for a name that another account asks for as well and already has.
Contested(u) ==
  /\ account[u].here /\ account[u].name # None
  /\ \A e \in Entries(served) : e.user = u => e.name # account[u].name
  /\ \E e \in Entries(served) :
       /\ e.user # u /\ e.name = account[u].name
       /\ account[e.user].here /\ account[e.user].name = e.name

\* Whoever owns the phone behind a contested name hears of the contest, after
\* failures too, and again when it had gone away and is back (main.rs:360-362,
\* state.rs keep_reported_conflicts).
HolderIsTold ==
  \A u \in User : <>[]Contested(u) => <>[](lost \/ <<u, account[u].name>> \in warned)

-----------------------------------------------------------------------------
(* What the repository says of the mapping, and the code does not do        *)

\* README:194 "Somebody entering a Signal name that another account already
\* holds gets nothing".  The plan gives the old name of an account that asks for
\* another one away in the same pass; when the new one does not resolve, the
\* account keeps the old name, and two hold it.
NameHeldOnce ==
  \A e, f \in Entries(served) : e.name = f.name => e.user = f.user
=============================================================================

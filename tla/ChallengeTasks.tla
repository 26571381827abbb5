--------------------------- MODULE ChallengeTasks ---------------------------
(***************************************************************************)
(* The challenge tasks of a user (apps/analytics, modules/rewards): tasks  *)
(* are created with the user, completed by what the user does, activated   *)
(* when the task that blocks them is done, claimed by the user, and a      *)
(* bonus is paid for every few challenges that are complete.               *)
(*                                                                         *)
(* The domain events of the other services and the events of the tasks     *)
(* themselves come from Kafka to one consumer, which takes them one at a   *)
(* time, runs all handlers of an event at once and acknowledges it when    *)
(* they are through.  The first handler that fails ends that: the event is *)
(* given up or delivered again, and its other handlers run on beside those *)
(* of the next event.  So do calls of the user.  Every handler reads,      *)
(* works out what to write and writes it later.                            *)
(***************************************************************************)
EXTENDS Integers, FiniteSetsExt, Bags

CONSTANTS
  Tasks,
  NoTask,
  BlockedBy,        \* BlockedBy[t]: ChallengeTask.blockedByTaskId, or NoTask
  Starts,           \* the choices of a season, that is a pattern and a
                    \* challenge for each task, and of what the user brings
                    \* along when they sign up
  Thresholds,       \* bonusesByCountCompletedChallenges: the counts
  MaxCalls,         \* bound: calls of the user about a task at a time, and
                    \* one less after each failure
  MaxOwed,          \* bound: the events that users let pile up
  MaxFailures       \* bound: crashes, lost publications, failed handlers and
                    \* calls; a task that two calls were at counts as one

ASSUME BlockersAssumption ==
  NoTask \notin Tasks /\ BlockedBy \in [Tasks -> Tasks \cup {NoTask}]
ASSUME TasksAssumption == IsFiniteSet(Tasks)
ASSUME ThresholdsAssumption == Thresholds \subseteq Nat \ {0}

VARIABLES
  pattern,      \* pattern[t]: ChallengeTask.pattern
  challenge,    \* challenge[t]: ChallengeTask.challengeId
  did,          \* what the user has done so far
  status,       \* status[t]: UserChallengeTask.status, "NONE" without a row
  active,       \* the tasks that are isActive
  offset,       \* Reward.challengeBonusOffset
  bonuses,      \* how many bonuses were paid to the user
  earned,       \* earned[t]: how often the reward of the task was paid
  owed,         \* Kafka: a bag of events, in no order
  current,      \* the run of handlers the consumer waits for
  event,        \* event[w]: the event of a run of handlers, or None
  running,      \* running[w]: its handlers that are not through
  closing,      \* closing[w]: the tasks a run, or a call, is to close
  activating,   \* activating[w]: what the activation job found, how far it is
  paying,       \* paying[w]: the thresholds the bonus job is to pay
  claiming,     \* claiming[t]: calls of claimReward that found the task
  since,        \* history: what the user did after the tasks were created
  suspect,      \* history: tasks two calls were at at the same time
  untold,       \* history: tasks whose activation was not told as COMPLETED
  overlapped,   \* history: a bonus job began while another was at work
  forgotten,    \* history: a bonus job put the offset back to 0
  lost,         \* history: what was given up
  failures      \* history: how much failed

season == <<pattern, challenge>>
tables == <<status, active, offset, bonuses, earned>>
consumer == <<current, event, running, activating, paying>>
history == <<suspect, untold, overlapped, forgotten, lost, failures>>
vars == <<season, did, tables, owed, consumer, closing, claiming, since,
          history>>

None == [kind |-> "none"]
Done == {"COMPLETED", "CLAIMED"}
Idle == [at |-> "idle", tasks |-> {}]

\* The run of the event the consumer is at, and one of a failed event.
Runs == {"one", "two"}
Other(w) == IF w = "one" THEN "two" ELSE "one"

\* Users do something only while the consumer is not far behind, and make
\* their calls about one task at a time.
MayCall(t) ==
  /\ BagCardinality(owed) < MaxOwed
  /\ claiming[t] + (IF closing["call"] = {} THEN 0 ELSE 1)
       < MaxCalls - failures
  /\ \A u \in Tasks \ {t} : claiming[u] = 0 /\ u \notin closing["call"]

\* A race before a failure is left out, one after it is not.
MayFail == failures + Cardinality(suspect) < MaxFailures

-----------------------------------------------------------------------------
(* What users do, and who hears of it *)

\* Parts of a user row, which the event of a changed user carries.
Account == {"wallet", "profile", "twitter", "discord"}

\* What each pattern asks for.
Needs(p) ==
  CASE p = "CONNECT_WALLET_CHALLENGE" -> {"wallet"}
    [] p = "ENRICH_PROFILE"           -> {"profile"}
    [] p = "CONNECT_WITH_X"           -> {"twitter"}
    [] p = "DISCORD_CHALLENGE"        -> {"discord"}
    [] p = "COMMUNITY_CHALLENGE"      -> {"discord", "guild"}
    [] p = "SHARE_CHALLENGE"          -> {"twitter", "retweet"}
    [] p = "SOCIAL_TRIBE_CHALLENGE"   -> {"twitter", "logins"}
    [] p = "SHAROOOORS_CHALLENGE"     -> {"twitter", "tweets"}
    [] p = "INVITE_USERS"             -> {"invited"}
    [] p = "CREATE_CHAT_MESSAGES"     -> {"message"}
    [] p = "PLAY_ANY_GAME"            -> {"played"}
    [] p = "WON_GAMES"                -> {"won"}
    [] p = "WHALE_SQUAD"              -> {"played", "won"}
    [] p = "PLAY_SETUP_GAMES"         -> {"setup"}

Deeds == UNION {Needs(pattern[t]) : t \in Tasks}

\* The kind of domain event a deed is told by; some are told by none.
\* ReferralCreated is the UserCreated event of a user they invited.
EventOf(deed) ==
  CASE deed \in Account            -> "UserUpdated"
    [] deed = "invited"            -> "ReferralCreated"
    [] deed = "message"            -> "MessageCreated"
    [] deed \in {"played", "won"}  -> "GameClosed"
    [] deed = "setup"              -> "SetupClosed"
    [] OTHER                       -> "none"

\* getDomainEventsTriggers of the handlers, as far as the listeners subscribe
\* to the events: nobody does to those of a session.
Triggers(p) ==
  CASE p \in {"ENRICH_PROFILE", "CONNECT_WITH_X", "DISCORD_CHALLENGE",
              "COMMUNITY_CHALLENGE", "SHARE_CHALLENGE"} -> {"UserUpdated"}
    [] p \in {"CONNECT_WALLET_CHALLENGE", "SOCIAL_TRIBE_CHALLENGE"}
                                    -> {"UserCreated", "UserUpdated"}
    [] p = "INVITE_USERS"           -> {"ReferralCreated"}
    [] p = "CREATE_CHAT_MESSAGES"   -> {"MessageCreated"}
    [] p \in {"PLAY_ANY_GAME", "WON_GAMES", "WHALE_SQUAD"}
                                    -> {"GameClosed", "SetupClosed"}
    [] p = "PLAY_SETUP_GAMES"       -> {"SetupClosed"}
    [] p = "SHAROOOORS_CHALLENGE"   -> {}

Events ==
  [kind : {"UserCreated", "UserUpdated", "ReferralCreated", "MessageCreated",
           "GameClosed", "SetupClosed"}, deed : STRING, seen : SUBSET Account]
  \cup [kind : {"TaskUpdated"}, task : Tasks,
       status : Done \cup {"NOT_COMPLETED"}]

TypeOK ==
  /\ pattern \in {start.pattern : start \in Starts}
  /\ challenge \in {start.challenge : start \in Starts}
  /\ did \subseteq UNION {Needs(pattern[t]) : t \in Tasks} \cup Account
  /\ status \in [Tasks -> Done \cup {"NONE", "NOT_COMPLETED"}]
  /\ active \subseteq Tasks
  /\ offset \in Thresholds \cup {0}
  /\ bonuses \in Nat
  /\ earned \in [Tasks -> Nat]
  /\ BagToSet(owed) \subseteq Events
  /\ current \in Runs
  /\ event \in [Runs -> Events \cup {None}]
  /\ running \in [Runs -> SUBSET {"create", "close", "refused", "activate",
                                  "bonus", "pay"}]
  /\ closing \in [Runs \cup {"call"} -> SUBSET Tasks]
  /\ activating \in [Runs -> [at : {"idle", "read", "updated"},
                              tasks : SUBSET Tasks]]
  /\ paying \in [Runs -> SUBSET Thresholds]
  /\ claiming \in [Tasks -> 0..MaxCalls]
  /\ since \subseteq did
  /\ suspect \subseteq Tasks
  /\ untold \subseteq Tasks
  /\ overlapped \in BOOLEAN /\ forgotten \in BOOLEAN
  /\ lost \subseteq {"progress", "activation", "bonus"}
  /\ failures \in 0..MaxFailures

Created(seen) == [kind |-> "UserCreated", deed |-> "sign up", seen |-> seen]

TaskUpdated(t, s) == [kind |-> "TaskUpdated", task |-> t, status |-> s]

Init ==
  /\ \E start \in Starts : /\ pattern = start.pattern
                          /\ challenge = start.challenge
                          /\ did = start.brought
  /\ status = [t \in Tasks |-> "NONE"]
  /\ active = {}
  /\ offset = 0
  /\ bonuses = 0
  /\ earned = [t \in Tasks |-> 0]
  /\ owed = SetToBag({Created(did)})
  /\ current = "one"
  /\ event = [w \in Runs |-> None]
  /\ running = [w \in Runs |-> {}]
  /\ closing = [w \in Runs \cup {"call"} |-> {}]
  /\ activating = [w \in Runs |-> Idle]
  /\ paying = [w \in Runs |-> {}]
  /\ claiming = [t \in Tasks |-> 0]
  /\ since = {}
  /\ suspect = {}
  /\ untold = {}
  /\ overlapped = FALSE /\ forgotten = FALSE
  /\ lost = {}
  /\ failures = 0

Exist == \A t \in Tasks : status[t] # "NONE"

\* The other services: the deed is in the database, then it is told.
Do(deed) ==
  /\ BagCardinality(owed) < MaxOwed
  /\ deed \in Deeds \ did
  /\ did' = did \cup {deed}
  /\ since' = IF Exist THEN since \cup {deed} ELSE since
  /\ owed' = IF EventOf(deed) = "none" THEN owed
             ELSE owed (+) SetToBag({[kind |-> EventOf(deed), deed |-> deed,
                                      seen |-> did' \cap Account]})
  /\ UNCHANGED <<season, tables, consumer, closing, claiming, history>>

-----------------------------------------------------------------------------
(* The pattern handlers *)

\* From the user row of the event or of the call.
ConnectWallet(seen) == "wallet" \in seen
EnrichProfile(seen) == "profile" \in seen
DiscordChallenge(seen) == "discord" \in seen

\* From the user row and from what another service answers now, which may also
\* fail (Refused): X has no account that is not there.
ConnectWithX(seen) == "twitter" \in seen
CommunityChallenge(seen) == "discord" \in seen /\ "guild" \in did
ShareChallenge(seen) == "twitter" \in seen /\ "retweet" \in did
SocialTribeChallenge(seen) == "twitter" \in seen /\ "logins" \in did
SharoooorsChallenge(seen) == "twitter" \in seen /\ "tweets" \in did

\* From what is in the database now.
InviteUsers == "invited" \in did
CreateChatMessages == "message" \in did
PlayAnyGames == "played" \in did
WonGames == "won" \in did
WhaleSquad == "played" \in did /\ "won" \in did
PlaySetupGames == "setup" \in did

IsTaskPassed(t, seen) ==
  CASE pattern[t] = "CONNECT_WALLET_CHALLENGE" -> ConnectWallet(seen)
    [] pattern[t] = "ENRICH_PROFILE"           -> EnrichProfile(seen)
    [] pattern[t] = "CONNECT_WITH_X"           -> ConnectWithX(seen)
    [] pattern[t] = "DISCORD_CHALLENGE"        -> DiscordChallenge(seen)
    [] pattern[t] = "COMMUNITY_CHALLENGE"      -> CommunityChallenge(seen)
    [] pattern[t] = "SHARE_CHALLENGE"          -> ShareChallenge(seen)
    [] pattern[t] = "SOCIAL_TRIBE_CHALLENGE"   -> SocialTribeChallenge(seen)
    [] pattern[t] = "SHAROOOORS_CHALLENGE"     -> SharoooorsChallenge(seen)
    [] pattern[t] = "INVITE_USERS"             -> InviteUsers
    [] pattern[t] = "CREATE_CHAT_MESSAGES"     -> CreateChatMessages
    [] pattern[t] = "PLAY_ANY_GAME"            -> PlayAnyGames
    [] pattern[t] = "WON_GAMES"                -> WonGames
    [] pattern[t] = "WHALE_SQUAD"              -> WhaleSquad
    [] pattern[t] = "PLAY_SETUP_GAMES"         -> PlaySetupGames

\* MUTANT of ToBeClosed: only active tasks are looked at.
ActiveToBeClosed(ps, seen) ==
  {t \in active : /\ status[t] = "NOT_COMPLETED"
                  /\ pattern[t] \in ps
                  /\ IsTaskPassed(t, seen)}

\* The tasks of a pattern that are not completed and have been passed; that
\* they are active is not asked for.
ToBeClosed(ps, seen) ==
  {t \in Tasks : /\ status[t] = "NOT_COMPLETED"
                 /\ pattern[t] \in ps
                 /\ IsTaskPassed(t, seen)}

\* A call or handler that is at the task now.
Busy(t) ==
  Cardinality({w \in DOMAIN closing : t \in closing[w]}) + claiming[t]

Overlap(ts) == suspect' = suspect \cup {t \in ts : Busy(t) > 0}

\* Handlers that take a service that does not answer for "not passed".  The
\* others throw, and so does a handler whose query fails.
Swallows == {"CONNECT_WITH_X", "SHARE_CHALLENGE", "SOCIAL_TRIBE_CHALLENGE",
             "SHAROOOORS_CHALLENGE"}

\* Tasks whose handler fails: among the open ones, if the user row has what it
\* takes to ask.
Refused(ps, seen) ==
  LET asked == {t \in Tasks : /\ status[t] = "NOT_COMPLETED"
                             /\ pattern[t] \in ps
                             /\ Needs(pattern[t]) \cap Account \subseteq seen}
  IN {cut \in SUBSET asked : cut # {} => MayFail}

-----------------------------------------------------------------------------
(* The consumer *)

\* Run w is at event e, these handlers are still to get through, and these
\* events have been told.  When all are, the event is acknowledged.
GoOn(w, e, handlers, told) ==
  /\ running' = [running EXCEPT ![w] = handlers]
  /\ event' = [event EXCEPT ![w] = IF handlers = {} THEN None ELSE e]
  /\ owed' = (IF handlers = {} /\ w = current THEN owed (-) SetToBag({e})
             ELSE owed) (+) told
  /\ UNCHANGED current

\* A handler of the run fails, and this is lost unless it is tried again.  The
\* consumer gives the event up or gets it once more, and leaves the other
\* handlers to themselves.
FailAt(w, e, others, told, what) ==
  /\ running' = [running EXCEPT ![w] = others]
  /\ event' = [event EXCEPT ![w] = IF others = {} THEN None ELSE e]
  /\ \/ /\ w = current
        /\ owed' = owed (+) told
        /\ UNCHANGED lost
     \/ /\ w = current
        /\ owed' = (owed (-) SetToBag({e})) (+) told
        /\ lost' = lost \cup what
     \/ /\ w # current
        /\ owed' = owed (+) told
        /\ lost' = lost \cup what
  /\ IF w = current /\ others # {}
     THEN event[Other(w)] = None /\ current' = Other(w)
     ELSE UNCHANGED current

TakeUserCreated ==
  /\ event[current] = None
  /\ \E e \in BagToSet(owed) : /\ e.kind = "UserCreated"
                              /\ GoOn(current, e, {"create", "close"}, EmptyBag)
  /\ UNCHANGED <<season, did, tables, closing, activating, paying, claiming,
                 since, suspect, untold, overlapped, forgotten, lost, failures>>

\* All rows in one transaction; a second run fails on the first of them, which
\* is taken for success.
OnUserCreated(w) ==
  /\ "create" \in running[w]
  /\ GoOn(w, event[w], running[w] \ {"create"}, EmptyBag)
  /\ IF Exist
     THEN UNCHANGED <<status, active>>
     ELSE /\ status' = [t \in Tasks |-> "NOT_COMPLETED"]
          /\ active' = {t \in Tasks : BlockedBy[t] = NoTask}
  /\ UNCHANGED <<season, did, offset, bonuses, earned, closing, activating,
                 paying, claiming, since, suspect, untold, overlapped,
                 forgotten, lost, failures>>

\* The event handleByEvent is called for: the next one, or the one of the sign
\* up, whose other handler runs at the same time.
ToBeChecked(w) ==
  IF event[w] = None
  THEN {e \in BagToSet(owed) : /\ w = current
                               /\ e.kind \notin {"UserCreated", "TaskUpdated"}}
  ELSE {e \in {event[w]} : "close" \in running[w] /\ closing[w] = {}}

\* handleByEvent: the handlers of all patterns the event triggers.  When one has
\* thrown, it throws as well, after it has closed what the others found.
FindByEvent(w) ==
  /\ \E e \in ToBeChecked(w) :
       LET ps == {p \in {pattern[t] : t \in Tasks} : e.kind \in Triggers(p)}
           others == running[w] \ {"close"}
       IN \E cut \in Refused(ps, e.seen) :
            LET found == ToBeClosed(ps, e.seen) \ cut
                thrown == {t \in cut : pattern[t] \notin Swallows}
            IN /\ closing' = [closing EXCEPT ![w] = found]
               /\ \/ /\ thrown = {}
                     /\ GoOn(w, e, IF found = {} THEN others
                                   ELSE others \cup {"close"}, EmptyBag)
                     /\ lost' = lost \cup {l \in {"progress"} : cut # {}}
                  \/ /\ thrown # {} /\ found # {}
                     /\ GoOn(w, e, others \cup {"refused"}, EmptyBag)
                     /\ lost' = lost \cup {l \in {"progress"} : cut # thrown}
                  \/ /\ thrown # {} /\ found = {}
                     /\ FailAt(w, e, others, EmptyBag, {"progress"})
               /\ failures' = IF cut = {} THEN failures ELSE failures + 1
               /\ Overlap(found)
  /\ UNCHANGED <<season, did, tables, activating, paying, claiming, since,
                 untold, overlapped, forgotten>>

\* checkChallengeTaskCompletion: the user asks for a task, and all tasks of
\* its pattern are looked at.  A call that fails changes nothing; a service that
\* does not answer may be asked for each of the tasks.
FindByCall(t) ==
  /\ MayCall(t)
  /\ status[t] # "NONE"
  /\ closing["call"] = {}
  /\ LET all == ToBeClosed({pattern[t]}, did \cap Account)
     IN \E found \in SUBSET all :
          /\ found # {}
          /\ found = all \/ pattern[t] \in Swallows
          /\ Overlap(found)
          /\ closing' = [closing EXCEPT !["call"] = found]
  /\ UNCHANGED <<season, did, tables, owed, consumer, claiming, since, untold,
                 overlapped, forgotten, lost, failures>>

\* MUTANT of Closed: the rows are told as they were read.
ClosedAsRead(ts) == SetToBag({TaskUpdated(t, "NOT_COMPLETED") : t \in ts})

\* The rows are told as they are after the update.
Closed(ts) == SetToBag({TaskUpdated(t, "COMPLETED") : t \in ts})

\* closeChallengeTasks: by the ids, whatever their status is by now.
CloseTasks(w) ==
  /\ closing[w] # {}
  /\ status' = [t \in Tasks |-> IF t \in closing[w] THEN "COMPLETED"
                                ELSE status[t]]
  /\ closing' = [closing EXCEPT ![w] = {}]
  /\ \/ /\ w = "call"
        /\ owed' = owed (+) Closed(closing[w])
        /\ UNCHANGED <<current, event, running, lost>>
     \/ /\ w \in Runs /\ "refused" \notin running[w]
        /\ GoOn(w, event[w], running[w] \ {"close"}, Closed(closing[w]))
        /\ UNCHANGED lost
     \/ /\ w \in Runs /\ "refused" \in running[w]
        /\ FailAt(w, event[w], running[w] \ {"refused"}, Closed(closing[w]),
                  {"progress"})
  /\ UNCHANGED <<season, did, active, offset, bonuses, earned, activating,
                 paying, claiming, since, suspect, untold, overlapped,
                 forgotten, failures>>

-----------------------------------------------------------------------------
(* A task was updated: activation and the bonus, at the same time *)

\* MUTANT of ToBeActivated: the reward of the blocker has to be claimed.
ToBeActivatedOnceClaimed ==
  {t \in Tasks \ active :
     BlockedBy[t] \in active /\ status[BlockedBy[t]] = "CLAIMED"}

ToBeActivated ==
  {t \in Tasks \ active :
     BlockedBy[t] \in active /\ status[BlockedBy[t]] \in Done}

\* Only an event that says COMPLETED is one for the bonus.
TakeTaskUpdated ==
  /\ event[current] = None
  /\ \E e \in BagToSet(owed) :
       /\ e.kind = "TaskUpdated"
       /\ activating' = [activating EXCEPT ![current] =
                            IF ToBeActivated = {} THEN Idle
                            ELSE [at |-> "read", tasks |-> ToBeActivated]]
       /\ GoOn(current, e, {h \in {"activate", "bonus"} :
                             IF h = "activate" THEN ToBeActivated # {}
                             ELSE e.status = "COMPLETED"}, EmptyBag)
  /\ UNCHANGED <<season, did, tables, closing, paying, claiming, since, suspect,
                 untold, overlapped, forgotten, lost, failures>>

\* The task is activated, and that is not told.
Activated(t, w) == activating[w].at = "updated" /\ t \in activating[w].tasks

Activate(w) ==
  /\ activating[w].at = "read"
  /\ active' = active \cup activating[w].tasks
  /\ activating' = [activating EXCEPT ![w].at = "updated"]
  /\ UNCHANGED <<season, did, status, offset, bonuses, earned, owed, current,
                 event, running, closing, paying, claiming, since, history>>

\* The rows are read once more and told with the status they have by then.
TellActivated(w) ==
  /\ activating[w].at = "updated"
  /\ activating' = [activating EXCEPT ![w] = Idle]
  /\ GoOn(w, event[w], running[w] \ {"activate"},
          SetToBag({TaskUpdated(t, status[t]) : t \in activating[w].tasks}))
  /\ UNCHANGED <<season, did, tables, closing, paying, claiming, since, suspect,
                 untold, overlapped, forgotten, lost, failures>>

\* A challenge is complete when all its tasks are active and done.
CompleteChallenges ==
  {c \in {challenge[t] : t \in Tasks} :
     \A t \in Tasks : challenge[t] = c => t \in active /\ status[t] \in Done}

BonusesDue ==
  {b \in Thresholds : offset < b /\ b <= Cardinality(CompleteChallenges)}

\* getBonusForCompletedChallenges begins with an offset of 0 and keeps it when
\* nothing is due.
NewOffset(due) == IF due = {} THEN 0 ELSE Max(due)

\* The job reads the challenges and the offset.  With as many challenges as were
\* paid for it is through, and with an offset that stays the same.
ReadBonus(w) ==
  /\ "bonus" \in running[w]
  /\ IF \/ Cardinality(CompleteChallenges) <= offset
        \/ NewOffset(BonusesDue) = offset
     THEN /\ GoOn(w, event[w], running[w] \ {"bonus"}, EmptyBag)
          /\ UNCHANGED <<paying, overlapped>>
     ELSE /\ GoOn(w, event[w], (running[w] \ {"bonus"}) \cup {"pay"}, EmptyBag)
          /\ paying' = [paying EXCEPT ![w] = BonusesDue]
          /\ overlapped' = (overlapped \/ "pay" \in running[Other(w)])
  /\ UNCHANGED <<season, did, tables, closing, activating, claiming, since,
                 suspect, untold, forgotten, lost, failures>>

\* MUTANT of ApplyBonus: the money is paid, the offset is not written.
ApplyBonusUnmarked(w) ==
  /\ "pay" \in running[w]
  /\ bonuses' = bonuses + Cardinality(paying[w])
  /\ paying' = [paying EXCEPT ![w] = {}]
  /\ GoOn(w, event[w], running[w] \ {"pay"}, EmptyBag)
  /\ UNCHANGED <<season, did, status, active, offset, earned, closing,
                 activating, claiming, since, history>>

\* applyBonus writes the offset by the id, whatever it is by now.
ApplyBonus(w) ==
  /\ "pay" \in running[w]
  /\ bonuses' = bonuses + Cardinality(paying[w])
  /\ offset' = NewOffset(paying[w])
  /\ forgotten' = (forgotten \/ paying[w] = {})
  /\ paying' = [paying EXCEPT ![w] = {}]
  /\ GoOn(w, event[w], running[w] \ {"pay"}, EmptyBag)
  /\ UNCHANGED <<season, did, status, active, earned, closing, activating,
                 claiming, since, suspect, untold, overlapped, lost, failures>>

-----------------------------------------------------------------------------
(* Claims, and what goes wrong *)

\* MUTANT of MayBeClaimed: the task was completed at some time.
MayBeClaimedAgain(t) == status[t] \in Done

MayBeClaimed(t) == status[t] = "COMPLETED"

\* claimReward reads before its transaction; it does not ask for isActive.
FindClaimed(t) ==
  /\ MayCall(t)
  /\ MayBeClaimed(t)
  /\ claiming' = [claiming EXCEPT ![t] = @ + 1]
  /\ Overlap({t})
  /\ UNCHANGED <<season, did, tables, owed, consumer, closing, since, untold,
                 overlapped, forgotten, lost, failures>>

\* The transaction writes by the id, whatever the status is by now.
ClaimReward(t) ==
  /\ claiming[t] > 0
  /\ claiming' = [claiming EXCEPT ![t] = @ - 1]
  /\ earned' = [earned EXCEPT ![t] = @ + 1]
  /\ status' = [status EXCEPT ![t] = "CLAIMED"]
  /\ owed' = owed (+) SetToBag({TaskUpdated(t, "CLAIMED")})
  /\ untold' = IF t \in active \ UNION {activating[w].tasks : w \in Runs}
              THEN untold ELSE untold \cup {t}
  /\ UNCHANGED <<season, did, active, offset, bonuses, consumer, closing,
                 since, suspect, overlapped, forgotten, lost, failures>>

\* What nobody looks for any more when a handler was given up.
WhatIsLost(h) ==
  CASE h \in {"create", "close", "refused"} -> {"progress"}
    [] h \in {"bonus", "pay"}               -> {"bonus"}
    [] h = "activate"                       -> {"activation", "bonus"}

\* The ledger or the database does not answer, a transaction is rolled back:
\* that of closeChallengeTasks is REPEATABLE READ and fails when one of its rows
\* was written meanwhile.
HandlerFails(w) ==
  /\ MayFail
  /\ failures' = failures + 1
  /\ \E h \in running[w] :
       /\ h \in {"close", "refused"} => closing[w] # {}
       /\ FailAt(w, event[w], running[w] \ {h}, EmptyBag, WhatIsLost(h))
       /\ closing' = [closing EXCEPT ![w] =
                         IF h \in {"close", "refused"} THEN {} ELSE @]
       /\ activating' = [activating EXCEPT ![w] =
                            IF h = "activate" THEN Idle ELSE @]
       /\ paying' = [paying EXCEPT ![w] = IF h = "pay" THEN {} ELSE @]
       /\ untold' = IF h = "activate"
                    THEN untold \cup {t \in Tasks : Activated(t, w)}
                    ELSE untold
  /\ UNCHANGED <<season, did, tables, claiming, since, suspect, overlapped,
                 forgotten>>

\* So may the transaction of a call.
CallFails ==
  /\ MayFail
  /\ failures' = failures + 1
  /\ \/ /\ closing["call"] # {}
        /\ closing' = [closing EXCEPT !["call"] = {}]
        /\ UNCHANGED claiming
     \/ /\ \E t \in Tasks : /\ claiming[t] > 0
                           /\ claiming' = [claiming EXCEPT ![t] = @ - 1]
        /\ UNCHANGED closing
  /\ UNCHANGED <<season, did, tables, owed, consumer, since, suspect, untold,
                 overlapped, forgotten, lost>>

\* The event that was not acknowledged is delivered again; what nobody waited
\* for is lost, and so are the events of tasks that have just been activated.
Crash ==
  /\ MayFail
  /\ failures' = failures + 1
  /\ event' = [w \in Runs |-> None]
  /\ running' = [w \in Runs |-> {}]
  /\ activating' = [w \in Runs |-> Idle]
  /\ paying' = [w \in Runs |-> {}]
  /\ closing' = [w \in DOMAIN closing |-> {}]
  /\ claiming' = [t \in Tasks |-> 0]
  /\ lost' = lost \cup UNION {WhatIsLost(h) : h \in running[Other(current)]}
  /\ untold' = untold \cup {t \in Tasks : \E w \in Runs : Activated(t, w)}
  /\ UNCHANGED <<season, did, tables, owed, current, since, suspect,
                 overlapped, forgotten>>

\* Kafka delivers an event once more.
DeliverAgain ==
  /\ MayFail
  /\ failures' = failures + 1
  /\ event[current] # None
  /\ owed' = owed (+) SetToBag({event[current]})
  /\ UNCHANGED <<season, did, tables, consumer, closing, claiming, since,
                 suspect, untold, overlapped, forgotten, lost>>

\* A service stops, or Kafka does not answer, after the commit: the event is
\* never published.
LosePublication ==
  /\ MayFail
  /\ failures' = failures + 1
  /\ \E e \in BagToSet(owed) \ {event[current]} :
       /\ owed' = owed (-) SetToBag({e})
       /\ lost' = lost \cup IF e.kind = "TaskUpdated"
                         THEN {"activation", "bonus"} ELSE {"progress"}
  /\ UNCHANGED <<season, did, tables, consumer, closing, claiming, since,
                 suspect, untold, overlapped, forgotten>>

\* Kafka delivers an event, or a run of handlers goes on.
Work(w) ==
  \/ w = current /\ (TakeUserCreated \/ TakeTaskUpdated)
  \/ OnUserCreated(w) \/ FindByEvent(w) \/ CloseTasks(w)
  \/ Activate(w) \/ TellActivated(w)
  \/ ReadBonus(w) \/ ApplyBonus(w)

\* A call of the user that has begun goes on.
Answer == CloseTasks("call") \/ \E t \in Tasks : ClaimReward(t)

Next ==
  \/ \E deed \in Deeds : Do(deed)
  \/ \E t \in Tasks : FindByCall(t) \/ FindClaimed(t)
  \/ \E w \in Runs : Work(w) \/ HandlerFails(w)
  \/ Answer
  \/ CallFails
  \/ Crash
  \/ DeliverAgain
  \/ LosePublication

\* The consumer and a run of handlers do not stand still, nor does a call that
\* was made; what users do, they need not do.
Fairness == (\A w \in Runs : WF_vars(Work(w))) /\ WF_vars(Answer)

Spec == Init /\ [][Next]_vars /\ Fairness

-----------------------------------------------------------------------------
(* Properties *)

\* The reward of a task is paid more than once only when two calls were at
\* the task at the same time: two claims, or a claim and a handler that found
\* the task open and closed it late.  A redelivered event, a crash and a check
\* of the user after the claim never pay it again.
ClaimedOnce == \A t \in Tasks : earned[t] > 1 => t \in suspect

\* A bonus is paid for every threshold up to challengeBonusOffset, and that is
\* one for which challenges are complete.  It is paid once, whatever is
\* delivered again or found twice, but for two cases: a job that began while
\* another was between its read and its write (one of a failed event), and the
\* offset that was put back to 0 by a job with more challenges than the offset
\* and no bonus to pay for them.
BonusIsEarned ==
  LET paid == Cardinality({b \in Thresholds : b <= offset})
  IN /\ offset <= Cardinality(CompleteChallenges)
     /\ bonuses >= paid
     /\ overlapped \/ forgotten \/ bonuses = paid

StillBlocked ==
  {t \in {u \in Tasks : BlockedBy[u] \in active} :
     status[BlockedBy[t]] # "NOT_COMPLETED" /\ t \notin active}

\* A task whose blocker is active and done is activated sometime, unless the
\* event that would tell of it, or the job, is given up: nothing looks for it
\* later.
NothingStaysBlocked ==
  StillBlocked # {} ~>
    StillBlocked = {} \/ "activation" \in lost

\* The bonus for so many complete challenges is paid sometime, unless an event
\* or a job is given up, or a task was claimed before its activation was told:
\* then the event of the activation says CLAIMED and the bonus job passes over
\* it.  What the job forgets it pays again only when another event comes.
BonusArrives ==
  BonusesDue # {} ~>
    BonusesDue = {} \/ untold # {} \/ forgotten \/ "bonus" \in lost

Unnoticed ==
  {t \in Tasks :
     /\ status[t] \notin Done
     /\ Needs(pattern[t]) \subseteq since
     /\ \A deed \in Needs(pattern[t]) : EventOf(deed) \in Triggers(pattern[t])}

\* What a user does once the tasks exist completes the task it is for, also
\* one that is not active yet, if all of it is told by events its pattern is
\* triggered by, and neither an event nor a check of it is given up; a service
\* that does not answer counts as one.
ProgressIsNoticed == Unnoticed # {} ~> Unnoticed = {} \/ "progress" \in lost
=============================================================================

-------------------------- MODULE Matching_proofs --------------------------
(***************************************************************************)
(* Proofs of the safety properties of Matching, for any users, visits,     *)
(* servers and bounds.                                                      *)
(***************************************************************************)
EXTENDS Matching, TLAPS

USE ConstantsAssumption

-----------------------------------------------------------------------------
(* The inductive invariant.                                                 *)

\* Ids in use have been drawn, and a hub visits only sessions of the pair.
DrawnAndFiltered ==
  /\ \A r \in results : r.chan <= lastID
  /\ \A v \in Servers : \A h \in hub[v] : UserOf[h[2]] \in Pair(h[1])

\* x has been popped by t, whose handler has made no channel for the two yet.
PoppedBy(x, t) == pc[t] = "creating" /\ peer[t] = x

\* Until its handler is past Match a visit has no part in anything, and a visit
\* that is listed, popped or matched is that once.
OneRole ==
  \A x \in Visits \ struck :
    /\ pc[x] \in {"new", "registered", "keyed", "creating"} =>
         /\ x \notin waitList
         /\ \A t \in Visits : ~PoppedBy(x, t)
         /\ \A r \in results : x \notin {r.user, r.peer}
    /\ x \in waitList => \A t \in Visits : ~PoppedBy(x, t)
    /\ \A t, u \in Visits : PoppedBy(x, t) /\ PoppedBy(x, u) => t = u
    /\ \A t \in Visits, r \in results : PoppedBy(x, t) => x \notin {r.user, r.peer}

\* A handler makes one result, after it has popped.
OneResultPerHandler ==
  /\ \A r \in results : pc[r.user] \notin {"new", "registered", "keyed", "creating"}
  /\ \A r1, r2 \in results : r1.user = r2.user => r1 = r2

IInv ==
  /\ TypeOK /\ OneWaiter /\ NeverMatchedWithSelf
  /\ DrawnAndFiltered /\ ChannelIsForOnePair /\ TokenMeansMember
  /\ OneRole /\ VisitConsumedOnce
  /\ OneResultPerHandler /\ EveryWaiterAccountedFor
  /\ NoGhostListed
-----------------------------------------------------------------------------
(* Types.                                                                   *)

\* The types, at first
LEMMA InitType == Init => TypeOK
BY DEF Init, TypeOK, Locations

\* and after every step.
LEMMA NextType == TypeOK /\ [Next]_vars => TypeOK'
<1> SUFFICES ASSUME TypeOK, [Next]_vars PROVE TypeOK'
  OBVIOUS
<1> USE DEF TypeOK, Locations, MatchResult
<1>1. ASSUME NEW s \in Visits, Refuse(s) PROVE TypeOK'
  BY <1>1 DEF Refuse
<1>2. ASSUME NEW s \in Visits, Connect(s) PROVE TypeOK'
  BY <1>2 DEF Connect
<1>3. ASSUME NEW s \in Visits, SetUid(s) PROVE TypeOK'
  BY <1>3 DEF SetUid
<1>4. ASSUME NEW s \in Visits, PopOrPushWaitList(s) PROVE TypeOK'
  BY <1>4 DEF PopOrPushWaitList, ZPopMinOrAddOne
<1>5. ASSUME NEW s \in Visits, CreateChannel(s) PROVE TypeOK'
  BY <1>5 DEF CreateChannel
<1>6. ASSUME NEW s \in Visits, PublishMatchResult(s) PROVE TypeOK'
  <2>1. PICK r \in results : r.user = s /\ DeliverToSubscribers(r)
    BY <1>6 DEF PublishMatchResult
  <2>2. inbox' \in [Servers -> SUBSET results'] /\ struck' \subseteq Visits
    BY <1>6, <2>1 DEF PublishMatchResult, DeliverToSubscribers, AttachedOf
  <2> QED
    BY <1>6, <2>2 DEF PublishMatchResult
<1>7. ASSUME NEW s \in Visits, HandleMatchOnClose(s) PROVE TypeOK'
  BY <1>7 DEF HandleMatchOnClose, RemoveFromWaitList
<1>8. ASSUME NEW s \in Visits, ReadDeadline(s) PROVE TypeOK'
  BY <1>8 DEF ReadDeadline
<1>9. ASSUME NEW s \in Visits, Unregister(s) PROVE TypeOK'
  BY <1>9 DEF Unregister
<1>10. ASSUME NEW s \in Visits, Receive(s) PROVE TypeOK'
  BY <1>10 DEF Receive
<1>11. ASSUME NEW s \in Visits, CloseTab(s) PROVE TypeOK'
  BY <1>11 DEF CloseTab, Leave
<1>12. ASSUME NEW s \in Visits, Drop(s) PROVE TypeOK'
  BY <1>12 DEF Drop, Leave
<1>13. ASSUME NEW s \in Visits, PopOrPushFails(s) PROVE TypeOK'
  BY <1>13 DEF PopOrPushFails, Fault, ZPopMinOrAddOne, SharingEntry
<1>14. ASSUME NEW s \in Visits, CreateChannelFails(s) PROVE TypeOK'
  BY <1>14 DEF CreateChannelFails, Fault, SharingEntry
<1>15. ASSUME NEW s \in Visits, PublishFails(s) PROVE TypeOK'
  BY <1>15 DEF PublishFails, Fault, DeliverToSubscribers, AttachedOf
<1>16. ASSUME NEW s \in Visits, RemoveFails(s) PROVE TypeOK'
  BY <1>16 DEF RemoveFails, Fault, RemoveFromWaitList
<1>17. ASSUME NEW v \in Servers, Subscribe(v) PROVE TypeOK'
  BY <1>17 DEF Subscribe
<1>18. ASSUME NEW v \in Servers, BroadcastFilter(v) PROVE TypeOK'
  BY <1>18 DEF BroadcastFilter, AttachedOf
<1>19. ASSUME NEW v \in Servers, VisitSession(v) PROVE TypeOK'
  BY <1>19 DEF VisitSession, AddUserToChannel
<1>20. ASSUME NEW v \in Servers, LoseMessage(v) PROVE TypeOK'
  BY <1>20 DEF LoseMessage, Fault, AttachedOf
<1>21. ASSUME NEW v \in Servers, VisitSessionFails(v) PROVE TypeOK'
  BY <1>21 DEF VisitSessionFails, Fault, AddUserToChannel
<1>22. ASSUME NEW v \in Servers, Crash(v) PROVE TypeOK'
  <2>1. struck' \subseteq Visits
    BY <1>22, Z3 DEF Crash, AttachedOf, SharingEntry
  <2>2. /\ pc' \in [Visits -> Locations]
        /\ conn' \in [Visits -> {"up", "closing", "dropped"}]
        /\ \A s \in Visits : pc'[s] = "creating" => peer'[s] \in Visits
    BY <1>22 DEF Crash
  <2>3. faults' \in 0..MaxFaults
    BY <1>22 DEF Crash, Fault
  <2>4. /\ inbox' \in [Servers -> SUBSET results']
        /\ hub' \in [Servers -> SUBSET (results' \X Visits)]
        /\ subscribed' \subseteq Servers
    BY <1>22 DEF Crash
  <2> QED
    BY <1>22, <2>1, <2>2, <2>3, <2>4 DEF Crash
<1>23. CASE UNCHANGED vars
  BY <1>23 DEF vars
<1> QED
  BY <1>1, <1>2, <1>3, <1>4, <1>5, <1>6, <1>7, <1>8, <1>9, <1>10, <1>11,
     <1>12, <1>13, <1>14, <1>15, <1>16, <1>17, <1>18, <1>19, <1>20, <1>21, <1>22, <1>23
   DEF Next, VisitStep, ServerStep, FaultStep
-----------------------------------------------------------------------------
(* Pairs and channels.                                                      *)

\* The script adds only to an empty list.
LEMMA OneWaiterStep ==
  ASSUME TypeOK, OneWaiter, [Next]_vars
  PROVE  OneWaiter'
<1> USE DEF TypeOK, OneWaiter
<1>1. ASSUME NEW s \in Visits, PopOrPushWaitList(s) PROVE OneWaiter'
  BY <1>1 DEF PopOrPushWaitList, ZPopMinOrAddOne
<1>2. ASSUME NEW s \in Visits, HandleMatchOnClose(s) PROVE OneWaiter'
  BY <1>2 DEF HandleMatchOnClose, RemoveFromWaitList
<1>3. ASSUME NEW s \in Visits, PopOrPushFails(s) PROVE OneWaiter'
  BY <1>3 DEF PopOrPushFails, ZPopMinOrAddOne
<1>4. ASSUME NEW s \in Visits, RemoveFails(s) PROVE OneWaiter'
  BY <1>4 DEF RemoveFails, RemoveFromWaitList
<1>5. ASSUME NEW s \in Visits,
             Refuse(s) \/ Connect(s) \/ SetUid(s) \/ CreateChannel(s) \/
             PublishMatchResult(s) \/ ReadDeadline(s) \/ Unregister(s) \/
             Receive(s) \/ CloseTab(s) \/ Drop(s) \/ CreateChannelFails(s) \/
             PublishFails(s)
     PROVE  OneWaiter'
  BY <1>5 DEF Refuse, Connect, SetUid, CreateChannel, PublishMatchResult,
     DeliverToSubscribers, ReadDeadline, Unregister, Receive, CloseTab, Leave,
     Drop, CreateChannelFails, PublishFails
<1>6. ASSUME NEW v \in Servers,
             Subscribe(v) \/ BroadcastFilter(v) \/ VisitSession(v) \/
             LoseMessage(v) \/ VisitSessionFails(v) \/ Crash(v)
     PROVE  OneWaiter'
  BY <1>6 DEF Subscribe, BroadcastFilter, VisitSession, AddUserToChannel,
     LoseMessage, VisitSessionFails, Crash
<1>7. CASE UNCHANGED vars
  BY <1>7 DEF vars
<1> QED
  BY <1>1, <1>2, <1>3, <1>4, <1>5, <1>6, <1>7 DEF Next, VisitStep, ServerStep,
     FaultStep

\* The script pops nothing while the user is listed.
LEMMA NeverSelfStep ==
  ASSUME TypeOK, NeverMatchedWithSelf, [Next]_vars
  PROVE  NeverMatchedWithSelf'
<1> USE DEF TypeOK, NeverMatchedWithSelf, MatchResult, Listed
<1>1. ASSUME NEW s \in Visits, PopOrPushWaitList(s) PROVE NeverMatchedWithSelf'
  BY <1>1 DEF PopOrPushWaitList, ZPopMinOrAddOne
<1>2. ASSUME NEW s \in Visits, CreateChannel(s) PROVE NeverMatchedWithSelf'
  BY <1>2 DEF CreateChannel
<1>3. ASSUME NEW s \in Visits, HandleMatchOnClose(s) PROVE NeverMatchedWithSelf'
  BY <1>3 DEF HandleMatchOnClose, RemoveFromWaitList
<1>4. ASSUME NEW s \in Visits, PopOrPushFails(s) PROVE NeverMatchedWithSelf'
  BY <1>4 DEF PopOrPushFails, ZPopMinOrAddOne
<1>5. ASSUME NEW s \in Visits, RemoveFails(s) PROVE NeverMatchedWithSelf'
  BY <1>5 DEF RemoveFails, RemoveFromWaitList
<1>6. ASSUME NEW s \in Visits,
             Refuse(s) \/ Connect(s) \/ SetUid(s) \/ PublishMatchResult(s) \/
             ReadDeadline(s) \/ Unregister(s) \/ Receive(s) \/ CloseTab(s) \/
             Drop(s) \/ CreateChannelFails(s) \/ PublishFails(s)
     PROVE  NeverMatchedWithSelf'
  BY <1>6 DEF Refuse, Connect, SetUid, PublishMatchResult,
     DeliverToSubscribers, ReadDeadline, Unregister, Receive, CloseTab, Leave,
     Drop, CreateChannelFails, PublishFails
<1>7. ASSUME NEW v \in Servers,
             Subscribe(v) \/ BroadcastFilter(v) \/ VisitSession(v) \/
             LoseMessage(v) \/ VisitSessionFails(v) \/ Crash(v)
     PROVE  NeverMatchedWithSelf'
  BY <1>7 DEF Subscribe, BroadcastFilter, VisitSession, AddUserToChannel,
     LoseMessage, VisitSessionFails, Crash
<1>8. CASE UNCHANGED vars
  BY <1>8 DEF vars
<1> QED
  BY <1>1, <1>2, <1>3, <1>4, <1>5, <1>6, <1>7, <1>8 DEF Next, VisitStep,
     ServerStep, FaultStep

\* The envelope of a broadcast is for the sessions of its pair.
LEMMA FilteredStep ==
  ASSUME TypeOK, DrawnAndFiltered, [Next]_vars
  PROVE  DrawnAndFiltered'
<1> USE DEF TypeOK, DrawnAndFiltered, MatchResult, AttachedOf, Pair
<1>0. ASSUME results' = results, hub' = hub, lastID <= lastID', lastID' \in Nat
     PROVE  DrawnAndFiltered'
  BY <1>0
<1>1. ASSUME NEW s \in Visits, CreateChannel(s) PROVE DrawnAndFiltered'
  BY <1>1 DEF CreateChannel
<1>2. ASSUME NEW s \in Visits,
             Refuse(s) \/ Connect(s) \/ SetUid(s) \/ PopOrPushWaitList(s) \/
             PublishMatchResult(s) \/ HandleMatchOnClose(s) \/ ReadDeadline(s)
             \/ Unregister(s) \/ Receive(s) \/ CloseTab(s) \/ Drop(s) \/
             PopOrPushFails(s) \/ PublishFails(s) \/ RemoveFails(s)
     PROVE  DrawnAndFiltered'
  <2>1. results' = results /\ hub' = hub /\ lastID' = lastID
    BY <1>2 DEF Refuse, Connect, SetUid, PopOrPushWaitList,
       PublishMatchResult, HandleMatchOnClose, ReadDeadline, Unregister,
       Receive, CloseTab, Leave, Drop, PopOrPushFails, PublishFails,
       RemoveFails
  <2> QED
    BY <1>0, <2>1
<1>10. ASSUME NEW s \in Visits, CreateChannelFails(s) PROVE DrawnAndFiltered'
  <2>1. results' = results /\ hub' = hub /\ lastID <= lastID' /\ lastID' \in Nat
    BY <1>10, ConstantsAssumption DEF CreateChannelFails
  <2> QED
    BY <1>0, <2>1
<1>3. ASSUME NEW v \in Servers, BroadcastFilter(v) PROVE DrawnAndFiltered'
  BY <1>3 DEF BroadcastFilter
<1>4. ASSUME NEW v \in Servers, VisitSession(v) PROVE DrawnAndFiltered'
  BY <1>4 DEF VisitSession, AddUserToChannel
<1>5. ASSUME NEW v \in Servers, VisitSessionFails(v) PROVE DrawnAndFiltered'
  BY <1>5 DEF VisitSessionFails, AddUserToChannel
<1>6. ASSUME NEW v \in Servers, Crash(v) PROVE DrawnAndFiltered'
  BY <1>6 DEF Crash
<1>7. ASSUME NEW v \in Servers,
             Subscribe(v) \/ LoseMessage(v)
     PROVE  DrawnAndFiltered'
  BY <1>7 DEF Subscribe, LoseMessage
<1>8. CASE UNCHANGED vars
  BY <1>0, <1>8, ConstantsAssumption DEF vars
<1> QED
  BY <1>1, <1>2, <1>10, <1>3, <1>4, <1>5, <1>6, <1>7, <1>8 DEF Next, VisitStep,
     ServerStep, FaultStep

\* A new channel has an id above all that are used, and a filter adds no stranger.
LEMMA OnePairStep ==
  ASSUME TypeOK, DrawnAndFiltered, ChannelIsForOnePair, [Next]_vars
  PROVE  ChannelIsForOnePair'
<1> USE DEF TypeOK, DrawnAndFiltered, ChannelIsForOnePair, MatchResult, Pair
<1>1. ASSUME NEW s \in Visits, CreateChannel(s) PROVE ChannelIsForOnePair'
  BY <1>1 DEF CreateChannel
<1>2. ASSUME NEW s \in Visits, Receive(s) PROVE ChannelIsForOnePair'
  BY <1>2 DEF Receive
<1>3. ASSUME NEW s \in Visits,
             Refuse(s) \/ Connect(s) \/ SetUid(s) \/ PopOrPushWaitList(s) \/
             PublishMatchResult(s) \/ HandleMatchOnClose(s) \/ ReadDeadline(s)
             \/ Unregister(s) \/ CloseTab(s) \/ Drop(s) \/ PopOrPushFails(s) \/
             CreateChannelFails(s) \/ PublishFails(s) \/ RemoveFails(s)
     PROVE  ChannelIsForOnePair'
  BY <1>3 DEF Refuse, Connect, SetUid, PopOrPushWaitList, ZPopMinOrAddOne,
     PublishMatchResult, DeliverToSubscribers, HandleMatchOnClose,
     RemoveFromWaitList, ReadDeadline, Unregister, CloseTab, Leave, Drop,
     PopOrPushFails, CreateChannelFails, PublishFails, RemoveFails
<1>4. ASSUME NEW v \in Servers, BroadcastFilter(v) PROVE ChannelIsForOnePair'
  BY <1>4 DEF BroadcastFilter
<1>5. ASSUME NEW v \in Servers, VisitSession(v) PROVE ChannelIsForOnePair'
  BY <1>5 DEF VisitSession, AddUserToChannel
<1>6. ASSUME NEW v \in Servers, VisitSessionFails(v) PROVE ChannelIsForOnePair'
  BY <1>6 DEF VisitSessionFails, AddUserToChannel
<1>7. ASSUME NEW v \in Servers, Crash(v) PROVE ChannelIsForOnePair'
  BY <1>7 DEF Crash
<1>8. ASSUME NEW v \in Servers,
             Subscribe(v) \/ LoseMessage(v)
     PROVE  ChannelIsForOnePair'
  BY <1>8 DEF Subscribe, LoseMessage
<1>9. CASE UNCHANGED vars
  BY <1>9 DEF vars
<1> QED
  BY <1>1, <1>2, <1>3, <1>4, <1>5, <1>6, <1>7, <1>8, <1>9 DEF Next, VisitStep,
     ServerStep, FaultStep

\* The filter adds the member and writes the token in this order.
LEMMA MemberStep ==
  ASSUME TypeOK, TokenMeansMember, [Next]_vars
  PROVE  TokenMeansMember'
<1> USE DEF TypeOK, TokenMeansMember, MatchResult
<1>1. ASSUME NEW s \in Visits, Receive(s) PROVE TokenMeansMember'
  BY <1>1 DEF Receive
<1>2. ASSUME NEW s \in Visits,
             Refuse(s) \/ Connect(s) \/ SetUid(s) \/ PopOrPushWaitList(s) \/
             CreateChannel(s) \/ PublishMatchResult(s) \/ HandleMatchOnClose(s)
             \/ ReadDeadline(s) \/ Unregister(s) \/ CloseTab(s) \/ Drop(s) \/
             PopOrPushFails(s) \/ CreateChannelFails(s) \/ PublishFails(s) \/
             RemoveFails(s)
     PROVE  TokenMeansMember'
  BY <1>2 DEF Refuse, Connect, SetUid, PopOrPushWaitList, ZPopMinOrAddOne,
     CreateChannel, PublishMatchResult, DeliverToSubscribers,
     HandleMatchOnClose, RemoveFromWaitList, ReadDeadline, Unregister,
     CloseTab, Leave, Drop, PopOrPushFails, CreateChannelFails, PublishFails,
     RemoveFails
<1>3. ASSUME NEW v \in Servers, BroadcastFilter(v) PROVE TokenMeansMember'
  BY <1>3 DEF BroadcastFilter
<1>4. ASSUME NEW v \in Servers, VisitSession(v) PROVE TokenMeansMember'
  <2>1. PICK r \in results, s \in Visits :
          IF pc[s] = "registered" THEN UNCHANGED <<members, outbox>>
          ELSE /\ members' = members \cup {<<r.chan, UserOf[s]>>}
               /\ outbox' = [outbox EXCEPT ![s] = @ \cup {r}]
    BY <1>4 DEF VisitSession, AddUserToChannel
  <2>2. token' = token
    BY <1>4 DEF VisitSession
  <2>3. CASE pc[s] = "registered"
    BY <2>1, <2>2, <2>3
  <2>4. CASE pc[s] # "registered"
    <3>1. \A t \in Visits : outbox'[t] \subseteq outbox[t] \cup (IF t = s THEN {r} ELSE {})
      BY <2>1, <2>4
    <3>2. members \subseteq members' /\ <<r.chan, UserOf[s]>> \in members'
      BY <2>1, <2>4
    <3> QED
      BY <2>2, <3>1, <3>2
  <2> QED
    BY <2>3, <2>4
<1>5. ASSUME NEW v \in Servers, VisitSessionFails(v) PROVE TokenMeansMember'
  BY <1>5 DEF VisitSessionFails, AddUserToChannel
<1>6. ASSUME NEW v \in Servers, Crash(v) PROVE TokenMeansMember'
  BY <1>6 DEF Crash
<1>7. ASSUME NEW v \in Servers,
             Subscribe(v) \/ LoseMessage(v)
     PROVE  TokenMeansMember'
  BY <1>7 DEF Subscribe, LoseMessage
<1>8. CASE UNCHANGED vars
  BY <1>8 DEF vars
<1> QED
  BY <1>1, <1>2, <1>3, <1>4, <1>5, <1>6, <1>7, <1>8 DEF Next, VisitStep,
     ServerStep, FaultStep

-----------------------------------------------------------------------------
(* One visit, one match.                                                    *)

\* The script and CreateChannel hand a visit from one role to the next.
LEMMA OneRoleStep ==
  ASSUME TypeOK, OneRole, VisitConsumedOnce, [Next]_vars
  PROVE  OneRole'
<1> USE DEF TypeOK, OneRole, VisitConsumedOnce, PoppedBy, Listed, MatchResult,
        SharingEntry, Attached
<1>0. ASSUME pc' = pc, waitList' = waitList, peer' = peer, results' = results,
             struck \subseteq struck'
     PROVE  OneRole'
  BY <1>0
<1>1. ASSUME NEW s \in Visits, Refuse(s) PROVE OneRole'
  BY <1>1 DEF Refuse
<1>2. ASSUME NEW s \in Visits, Connect(s) PROVE OneRole'
  BY <1>2 DEF Connect
<1>3. ASSUME NEW s \in Visits, SetUid(s) PROVE OneRole'
  BY <1>3 DEF SetUid
<1>4. ASSUME NEW s \in Visits, PopOrPushWaitList(s) PROVE OneRole'
  BY <1>4 DEF PopOrPushWaitList, ZPopMinOrAddOne
<1>5. ASSUME NEW s \in Visits, CreateChannel(s) PROVE OneRole'
  BY <1>5 DEF CreateChannel
<1>6. ASSUME NEW s \in Visits, PublishMatchResult(s) PROVE OneRole'
  BY <1>6 DEF PublishMatchResult, DeliverToSubscribers
<1>7. ASSUME NEW s \in Visits, HandleMatchOnClose(s) PROVE OneRole'
  BY <1>7 DEF HandleMatchOnClose, RemoveFromWaitList
<1>8. ASSUME NEW s \in Visits, ReadDeadline(s) PROVE OneRole'
  BY <1>8 DEF ReadDeadline
<1>9. ASSUME NEW s \in Visits, Unregister(s) PROVE OneRole'
  BY <1>9 DEF Unregister
<1>10. ASSUME NEW s \in Visits, PopOrPushFails(s) PROVE OneRole'
  BY <1>10 DEF PopOrPushFails, ZPopMinOrAddOne
<1>11. ASSUME NEW s \in Visits, CreateChannelFails(s) PROVE OneRole'
  BY <1>11 DEF CreateChannelFails
<1>12. ASSUME NEW s \in Visits, PublishFails(s) PROVE OneRole'
  BY <1>12 DEF PublishFails, DeliverToSubscribers
<1>13. ASSUME NEW s \in Visits, RemoveFails(s) PROVE OneRole'
  BY <1>13 DEF RemoveFails, RemoveFromWaitList
<1>14. ASSUME NEW s \in Visits,
             Receive(s) \/ CloseTab(s) \/ Drop(s)
     PROVE  OneRole'
  BY <1>0, <1>14 DEF Receive, CloseTab, Leave, Drop
<1>15. ASSUME NEW v \in Servers, Crash(v) PROVE OneRole'
  BY <1>15 DEF Crash
<1>16. ASSUME NEW v \in Servers,
             Subscribe(v) \/ BroadcastFilter(v) \/ VisitSession(v) \/
             LoseMessage(v) \/ VisitSessionFails(v)
     PROVE  OneRole'
  <2>1. /\ pc' = pc /\ waitList' = waitList /\ peer' = peer /\ results' = results
        /\ struck \subseteq struck'
    BY <1>16 DEF Subscribe, BroadcastFilter, VisitSession, LoseMessage,
       VisitSessionFails
  <2> QED
    BY <1>0, <2>1
<1>17. CASE UNCHANGED vars
  BY <1>0, <1>17 DEF vars
<1> QED
  BY <1>1, <1>2, <1>3, <1>4, <1>5, <1>6, <1>7, <1>8, <1>9, <1>10, <1>11, <1>12,
     <1>13, <1>14, <1>15, <1>16, <1>17 DEF Next, VisitStep, ServerStep,
     FaultStep

\* Only a visit that is in no result yet enters one.
LEMMA ConsumedStep ==
  ASSUME TypeOK, OneRole, VisitConsumedOnce, [Next]_vars
  PROVE  VisitConsumedOnce'
<1> USE DEF TypeOK, OneRole, VisitConsumedOnce, PoppedBy, MatchResult,
        SharingEntry, Attached
<1>0. ASSUME waitList' = waitList, results' = results, struck \subseteq struck'
     PROVE  VisitConsumedOnce'
  BY <1>0
<1>1. ASSUME NEW s \in Visits, PopOrPushWaitList(s) PROVE VisitConsumedOnce'
  BY <1>1 DEF PopOrPushWaitList, ZPopMinOrAddOne
<1>2. ASSUME NEW s \in Visits, CreateChannel(s) PROVE VisitConsumedOnce'
  BY <1>2 DEF CreateChannel
<1>3. ASSUME NEW s \in Visits, HandleMatchOnClose(s) PROVE VisitConsumedOnce'
  BY <1>3 DEF HandleMatchOnClose, RemoveFromWaitList
<1>4. ASSUME NEW s \in Visits, PopOrPushFails(s) PROVE VisitConsumedOnce'
  BY <1>4 DEF PopOrPushFails, ZPopMinOrAddOne
<1>5. ASSUME NEW s \in Visits, RemoveFails(s) PROVE VisitConsumedOnce'
  BY <1>5 DEF RemoveFails, RemoveFromWaitList
<1>6. ASSUME NEW s \in Visits,
             Refuse(s) \/ Connect(s) \/ SetUid(s) \/ PublishMatchResult(s) \/
             ReadDeadline(s) \/ Unregister(s) \/ Receive(s) \/ CloseTab(s) \/
             Drop(s) \/ CreateChannelFails(s) \/ PublishFails(s)
     PROVE  VisitConsumedOnce'
  <2>1. waitList' = waitList /\ results' = results /\ struck \subseteq struck'
    BY <1>6 DEF Refuse, Connect, SetUid, PublishMatchResult,
       DeliverToSubscribers, ReadDeadline, Unregister, Receive, CloseTab, Leave,
       Drop, CreateChannelFails, PublishFails
  <2> QED
    BY <1>0, <2>1
<1>7. ASSUME NEW v \in Servers,
             Subscribe(v) \/ BroadcastFilter(v) \/ VisitSession(v) \/
             LoseMessage(v) \/ VisitSessionFails(v) \/ Crash(v)
     PROVE  VisitConsumedOnce'
  <2>1. waitList' = waitList /\ results' = results /\ struck \subseteq struck'
    BY <1>7 DEF Subscribe, BroadcastFilter, VisitSession, AddUserToChannel,
       LoseMessage, VisitSessionFails, Crash
  <2> QED
    BY <1>0, <2>1
<1>8. CASE UNCHANGED vars
  BY <1>0, <1>8 DEF vars
<1> QED
  BY <1>1, <1>2, <1>3, <1>4, <1>5, <1>6, <1>7, <1>8 DEF Next, VisitStep,
     ServerStep, FaultStep

\* A handler never comes back before CreateChannel.
LEMMA OneResultStep ==
  ASSUME TypeOK, OneResultPerHandler, [Next]_vars
  PROVE  OneResultPerHandler'
<1> USE DEF TypeOK, OneResultPerHandler, MatchResult, Attached
<1>1. ASSUME NEW s \in Visits, Refuse(s) PROVE OneResultPerHandler'
  BY <1>1 DEF Refuse
<1>2. ASSUME NEW s \in Visits, Connect(s) PROVE OneResultPerHandler'
  BY <1>2 DEF Connect
<1>3. ASSUME NEW s \in Visits, SetUid(s) PROVE OneResultPerHandler'
  BY <1>3 DEF SetUid
<1>4. ASSUME NEW s \in Visits, PopOrPushWaitList(s) PROVE OneResultPerHandler'
  BY <1>4 DEF PopOrPushWaitList, ZPopMinOrAddOne
<1>5. ASSUME NEW s \in Visits, CreateChannel(s) PROVE OneResultPerHandler'
  BY <1>5 DEF CreateChannel
<1>6. ASSUME NEW s \in Visits, PublishMatchResult(s) PROVE OneResultPerHandler'
  BY <1>6 DEF PublishMatchResult, DeliverToSubscribers
<1>7. ASSUME NEW s \in Visits, HandleMatchOnClose(s) PROVE OneResultPerHandler'
  BY <1>7 DEF HandleMatchOnClose, RemoveFromWaitList
<1>8. ASSUME NEW s \in Visits, ReadDeadline(s) PROVE OneResultPerHandler'
  BY <1>8 DEF ReadDeadline
<1>9. ASSUME NEW s \in Visits, Unregister(s) PROVE OneResultPerHandler'
  BY <1>9 DEF Unregister
<1>10. ASSUME NEW s \in Visits, PopOrPushFails(s) PROVE OneResultPerHandler'
  BY <1>10 DEF PopOrPushFails, ZPopMinOrAddOne
<1>11. ASSUME NEW s \in Visits, CreateChannelFails(s) PROVE OneResultPerHandler'
  BY <1>11 DEF CreateChannelFails
<1>12. ASSUME NEW s \in Visits, PublishFails(s) PROVE OneResultPerHandler'
  BY <1>12 DEF PublishFails, DeliverToSubscribers
<1>13. ASSUME NEW s \in Visits, RemoveFails(s) PROVE OneResultPerHandler'
  BY <1>13 DEF RemoveFails, RemoveFromWaitList
<1>14. ASSUME NEW s \in Visits,
             Receive(s) \/ CloseTab(s) \/ Drop(s)
     PROVE  OneResultPerHandler'
  BY <1>14 DEF Receive, CloseTab, Leave, Drop
<1>15. ASSUME NEW v \in Servers, Crash(v) PROVE OneResultPerHandler'
  BY <1>15 DEF Crash
<1>16. ASSUME NEW v \in Servers,
             Subscribe(v) \/ BroadcastFilter(v) \/ VisitSession(v) \/
             LoseMessage(v) \/ VisitSessionFails(v)
     PROVE  OneResultPerHandler'
  BY <1>16 DEF Subscribe, BroadcastFilter, VisitSession, AddUserToChannel,
     LoseMessage, VisitSessionFails
<1>17. CASE UNCHANGED vars
  BY <1>17 DEF vars
<1> QED
  BY <1>1, <1>2, <1>3, <1>4, <1>5, <1>6, <1>7, <1>8, <1>9, <1>10, <1>11, <1>12,
     <1>13, <1>14, <1>15, <1>16, <1>17 DEF Next, VisitStep, ServerStep,
     FaultStep

\* A read loop ends after ZREM, a failure of it, or a connection that vanished.
LEMMA NoGhostStep ==
  ASSUME TypeOK, OneRole, NoGhostListed, [Next]_vars
  PROVE  NoGhostListed'
<1> USE DEF TypeOK, OneRole, NoGhostListed, Attached
<1>1. ASSUME NEW s \in Visits, Refuse(s) PROVE NoGhostListed'
  BY <1>1 DEF Refuse
<1>2. ASSUME NEW s \in Visits, Connect(s) PROVE NoGhostListed'
  BY <1>2 DEF Connect
<1>3. ASSUME NEW s \in Visits, SetUid(s) PROVE NoGhostListed'
  BY <1>3 DEF SetUid
<1>4. ASSUME NEW s \in Visits, PopOrPushWaitList(s) PROVE NoGhostListed'
  BY <1>4 DEF PopOrPushWaitList, ZPopMinOrAddOne
<1>5. ASSUME NEW s \in Visits, CreateChannel(s) PROVE NoGhostListed'
  BY <1>5 DEF CreateChannel
<1>6. ASSUME NEW s \in Visits, PublishMatchResult(s) PROVE NoGhostListed'
  BY <1>6 DEF PublishMatchResult, DeliverToSubscribers
<1>7. ASSUME NEW s \in Visits, HandleMatchOnClose(s) PROVE NoGhostListed'
  BY <1>7 DEF HandleMatchOnClose, RemoveFromWaitList
<1>8. ASSUME NEW s \in Visits, ReadDeadline(s) PROVE NoGhostListed'
  BY <1>8 DEF ReadDeadline
<1>9. ASSUME NEW s \in Visits, Unregister(s) PROVE NoGhostListed'
  BY <1>9 DEF Unregister
<1>10. ASSUME NEW s \in Visits, CloseTab(s) PROVE NoGhostListed'
  BY <1>10 DEF CloseTab, Leave
<1>11. ASSUME NEW s \in Visits, Drop(s) PROVE NoGhostListed'
  BY <1>11 DEF Drop, Leave
<1>12. ASSUME NEW s \in Visits, PopOrPushFails(s) PROVE NoGhostListed'
  BY <1>12 DEF PopOrPushFails, ZPopMinOrAddOne
<1>13. ASSUME NEW s \in Visits, CreateChannelFails(s) PROVE NoGhostListed'
  BY <1>13 DEF CreateChannelFails
<1>14. ASSUME NEW s \in Visits, PublishFails(s) PROVE NoGhostListed'
  BY <1>14 DEF PublishFails, DeliverToSubscribers
<1>15. ASSUME NEW s \in Visits, RemoveFails(s) PROVE NoGhostListed'
  BY <1>15 DEF RemoveFails, RemoveFromWaitList
<1>16. ASSUME NEW s \in Visits,
             Receive(s)
     PROVE  NoGhostListed'
  BY <1>16 DEF Receive
<1>17. ASSUME NEW v \in Servers, Crash(v) PROVE NoGhostListed'
  BY <1>17 DEF Crash
<1>18. ASSUME NEW v \in Servers,
             Subscribe(v) \/ BroadcastFilter(v) \/ VisitSession(v) \/
             LoseMessage(v) \/ VisitSessionFails(v)
     PROVE  NoGhostListed'
  BY <1>18 DEF Subscribe, BroadcastFilter, VisitSession, AddUserToChannel,
     LoseMessage, VisitSessionFails
<1>19. CASE UNCHANGED vars
  BY <1>19 DEF vars
<1> QED
  BY <1>1, <1>2, <1>3, <1>4, <1>5, <1>6, <1>7, <1>8, <1>9, <1>10, <1>11, <1>12,
     <1>13, <1>14, <1>15, <1>16, <1>17, <1>18, <1>19 DEF Next, VisitStep,
     ServerStep, FaultStep

-----------------------------------------------------------------------------
(* Waiters.                                                                 *)

AccountedFor(w) == Listed(UserOf[w]) \/ Promised(w)

\* What keeps a waiter w accounted for: its user's entry stays, whoever popped it
\* is still making the channel, and a result on its way stays on its way.
LEMMA StillAccountedFor ==
  ASSUME NEW w \in Visits, AccountedFor(w),
         \A x \in waitList : UserOf[x] = UserOf[w] => x \in waitList',
         \A t \in Visits : pc[t] = "creating" /\ UserOf[peer[t]] = UserOf[w]
            => pc'[t] = "creating" /\ peer'[t] = peer[t],
         results \subseteq results',
         \A r \in results : UserOf[w] \in Pair(r) /\ OnItsWay(r, w) => OnItsWay(r, w)'
  PROVE  AccountedFor(w)'
<1>1. CASE Listed(UserOf[w])
  BY <1>1 DEF Listed, AccountedFor
<1>2. CASE \E t \in Visits : pc[t] = "creating" /\ UserOf[peer[t]] = UserOf[w]
  BY <1>2 DEF Promised, AccountedFor
<1>3. CASE \E r \in results : UserOf[w] \in Pair(r) /\ OnItsWay(r, w)
  BY <1>3 DEF Promised, AccountedFor, Pair
<1> QED
  BY <1>1, <1>2, <1>3 DEF AccountedFor, Promised

\* No step leaves a waiter behind: whatever takes a user off the list, a result
\* out of a queue or a session out of a broadcast passes the promise on.
LEMMA AccountedStep ==
  ASSUME TypeOK, OneResultPerHandler, EveryWaiterAccountedFor, [Next]_vars PROVE EveryWaiterAccountedFor'
<1> SUFFICES ASSUME NEW w \in Visits, Waiting(w)' PROVE AccountedFor(w)'
  BY DEF EveryWaiterAccountedFor, AccountedFor
<1>w. Waiting(w) => AccountedFor(w)
  BY DEF EveryWaiterAccountedFor, AccountedFor
<1> USE DEF TypeOK, MatchResult
<1>1. ASSUME NEW s \in Visits, Refuse(s) PROVE AccountedFor(w)'
  <2>1. Waiting(w)
    BY <1>1 DEF Refuse, Waiting
  <2>2. \A t \in Visits : pc[t] \in {"creating", "publishing"} => pc'[t] = pc[t]
    BY <1>1 DEF Refuse
  <2>3. \A r \in results : OnItsWay(r, w) => OnItsWay(r, w)'
    BY <1>1, <2>2 DEF Refuse, OnItsWay
  <2> QED
    BY <1>1, <2>1, <2>2, <2>3, <1>w, StillAccountedFor DEF Refuse
<1>2. ASSUME NEW s \in Visits, Connect(s) PROVE AccountedFor(w)'
  <2>1. Waiting(w)
    BY <1>2 DEF Connect, Waiting
  <2>2. \A t \in Visits : pc[t] \in {"creating", "publishing"} => pc'[t] = pc[t]
    BY <1>2 DEF Connect
  <2>3. \A r \in results : OnItsWay(r, w) => OnItsWay(r, w)'
    BY <1>2, <2>2 DEF Connect, OnItsWay
  <2> QED
    BY <1>2, <2>1, <2>2, <2>3, <1>w, StillAccountedFor DEF Connect
<1>3. ASSUME NEW s \in Visits, SetUid(s) PROVE AccountedFor(w)'
  <2>1. Waiting(w)
    BY <1>3 DEF SetUid, Waiting
  <2>2. \A t \in Visits : pc[t] \in {"creating", "publishing"} => pc'[t] = pc[t]
    BY <1>3 DEF SetUid
  <2>3. \A r \in results : OnItsWay(r, w) => OnItsWay(r, w)'
    BY <1>3, <2>2 DEF SetUid, OnItsWay
  <2> QED
    BY <1>3, <2>1, <2>2, <2>3, <1>w, StillAccountedFor DEF SetUid
<1>4. ASSUME NEW s \in Visits, PopOrPushWaitList(s) PROVE AccountedFor(w)'
  <2>1. PICK popped \in Visits \cup {None} :
          /\ ZPopMinOrAddOne(s, popped)
          /\ pc' = [pc EXCEPT ![s] = IF popped = None THEN "open" ELSE "creating"]
          /\ peer' = [peer EXCEPT ![s] = popped]
    BY <1>4 DEF PopOrPushWaitList
  <2>2. CASE w = s
    <3>1. popped = None
      BY <2>1, <2>2 DEF Waiting
    <3> QED
      BY <1>4, <2>1, <2>2, <3>1 DEF ZPopMinOrAddOne, AccountedFor, Listed
  <2>3. CASE w # s
    <3>1. Waiting(w)
      BY <1>4, <2>1, <2>3 DEF PopOrPushWaitList, Waiting
    <3>2. \A r \in results : OnItsWay(r, w) => OnItsWay(r, w)'
      BY <1>4, <2>1 DEF PopOrPushWaitList, OnItsWay
    <3>3. CASE popped \in waitList /\ UserOf[popped] = UserOf[w]
      BY <1>4, <2>1, <3>3 DEF AccountedFor, Promised, PopOrPushWaitList
    <3>4. CASE ~(popped \in waitList /\ UserOf[popped] = UserOf[w])
      <4>1. \A x \in waitList : UserOf[x] = UserOf[w] => x \in waitList'
        BY <2>1, <3>4 DEF ZPopMinOrAddOne
      <4> QED
        BY <1>4, <2>1, <3>1, <3>2, <4>1, <1>w, StillAccountedFor DEF PopOrPushWaitList
    <3> QED
      BY <3>3, <3>4
  <2> QED
    BY <2>2, <2>3
<1>5. ASSUME NEW s \in Visits, CreateChannel(s) PROVE AccountedFor(w)'
  <2>1. Waiting(w) /\ w # s
    BY <1>5 DEF CreateChannel, Waiting
  <2>2. \A r \in results : OnItsWay(r, w) => OnItsWay(r, w)'
    BY <1>5 DEF CreateChannel, OnItsWay
  <2>3. CASE UserOf[peer[s]] = UserOf[w]
    <3>1. PICK r : r = [user |-> s, peer |-> peer[s], chan |-> lastID + 1]
      OBVIOUS
    <3>2. r \in results' /\ r.user = s /\ r.peer = peer[s]
      BY <1>5, <3>1 DEF CreateChannel
    <3>3. UserOf[w] \in Pair(r) /\ OnItsWay(r, w)'
      BY <1>5, <2>3, <3>2 DEF CreateChannel, Pair, OnItsWay
    <3> QED
      BY <3>2, <3>3 DEF AccountedFor, Promised, Pair
  <2>4. CASE UserOf[peer[s]] # UserOf[w]
    BY <1>5, <2>1, <2>2, <2>4, <1>w, StillAccountedFor DEF CreateChannel
  <2> QED
    BY <2>3, <2>4
<1>6. ASSUME NEW s \in Visits, PublishMatchResult(s) PROVE AccountedFor(w)'
  <2>1. PICK r0 \in results : r0.user = s /\ DeliverToSubscribers(r0)
    BY <1>6 DEF PublishMatchResult
  <2>2. /\ pc'[w] = "open" /\ conn[w] = "up" /\ w \notin struck
        /\ pc[w] \in Attached
    BY <1>6, <2>1 DEF PublishMatchResult, DeliverToSubscribers, Waiting, Attached
  <2>3. UserOf[w] \in Pair(r0) => OnItsWay(r0, w)'
    BY <1>6, <2>1, <2>2 DEF DeliverToSubscribers, AttachedOf, OnItsWay, Waiting
  <2>4. CASE w = s
    BY <1>6, <2>1, <2>3, <2>4 DEF PublishMatchResult, AccountedFor, Promised, Pair
  <2>5. CASE w # s
    <3>1. Waiting(w)
      BY <1>6, <2>2, <2>5 DEF PublishMatchResult, Waiting
    <3>2. \A r \in results : r.user = s => r = r0
      BY <2>1 DEF OneResultPerHandler
    <3>3. ASSUME NEW r \in results, UserOf[w] \in Pair(r), OnItsWay(r, w)
          PROVE  OnItsWay(r, w)'
      <4>1. CASE r.user = s
        BY <2>3, <3>2, <3>3, <4>1
      <4>2. CASE r.user # s
        BY <1>6, <2>1, <3>3, <4>2 DEF PublishMatchResult, DeliverToSubscribers, OnItsWay
      <4> QED
        BY <4>1, <4>2
    <3> QED
      BY <1>6, <3>1, <3>3, <1>w, StillAccountedFor DEF PublishMatchResult
  <2> QED
    BY <2>4, <2>5
<1>7. ASSUME NEW s \in Visits, HandleMatchOnClose(s) PROVE AccountedFor(w)'
  <2>1. Waiting(w) /\ w # s
    BY <1>7 DEF HandleMatchOnClose, RemoveFromWaitList, Waiting
  <2>2. \A x \in waitList : UserOf[x] = UserOf[w] => x \in waitList'
    BY <1>7, <2>1 DEF HandleMatchOnClose, RemoveFromWaitList, Listed, Waiting
  <2>3. \A r \in results : OnItsWay(r, w) => OnItsWay(r, w)'
    BY <1>7 DEF HandleMatchOnClose, OnItsWay
  <2> QED
    BY <1>7, <2>1, <2>2, <2>3, <1>w, StillAccountedFor DEF HandleMatchOnClose
<1>8. ASSUME NEW s \in Visits, ReadDeadline(s) PROVE AccountedFor(w)'
  <2>1. Waiting(w)
    BY <1>8 DEF ReadDeadline, Waiting
  <2>2. \A t \in Visits : pc[t] \in {"creating", "publishing"} => pc'[t] = pc[t]
    BY <1>8 DEF ReadDeadline
  <2>3. \A r \in results : OnItsWay(r, w) => OnItsWay(r, w)'
    BY <1>8, <2>2 DEF ReadDeadline, OnItsWay
  <2> QED
    BY <1>8, <2>1, <2>2, <2>3, <1>w, StillAccountedFor DEF ReadDeadline
<1>9. ASSUME NEW s \in Visits, Unregister(s) PROVE AccountedFor(w)'
  <2>1. Waiting(w)
    BY <1>9 DEF Unregister, Waiting
  <2>2. \A t \in Visits : pc[t] \in {"creating", "publishing"} => pc'[t] = pc[t]
    BY <1>9 DEF Unregister
  <2>3. \A r \in results : OnItsWay(r, w) => OnItsWay(r, w)'
    BY <1>9, <2>2 DEF Unregister, OnItsWay
  <2> QED
    BY <1>9, <2>1, <2>2, <2>3, <1>w, StillAccountedFor DEF Unregister
<1>10. ASSUME NEW s \in Visits, Receive(s) PROVE AccountedFor(w)'
  <2>1. Waiting(w)
    BY <1>10 DEF Receive, Waiting
  <2>2. \A t \in Visits : pc[t] \in {"creating", "publishing"} => pc'[t] = pc[t]
    BY <1>10 DEF Receive
  <2>3. \A r \in results : OnItsWay(r, w) => OnItsWay(r, w)'
    BY <1>10, <2>2 DEF Receive, OnItsWay
  <2> QED
    BY <1>10, <2>1, <2>2, <2>3, <1>w, StillAccountedFor DEF Receive
<1>11. ASSUME NEW s \in Visits, CloseTab(s) PROVE AccountedFor(w)'
  <2>1. Waiting(w)
    BY <1>11 DEF CloseTab, Waiting, Leave
  <2>2. \A t \in Visits : pc[t] \in {"creating", "publishing"} => pc'[t] = pc[t]
    BY <1>11 DEF CloseTab, Leave
  <2>3. \A r \in results : OnItsWay(r, w) => OnItsWay(r, w)'
    BY <1>11, <2>2 DEF CloseTab, OnItsWay, Leave
  <2> QED
    BY <1>11, <2>1, <2>2, <2>3, <1>w, StillAccountedFor DEF CloseTab, Leave
<1>12. ASSUME NEW s \in Visits, Drop(s) PROVE AccountedFor(w)'
  <2>1. Waiting(w)
    BY <1>12 DEF Drop, Waiting, Leave
  <2>2. \A t \in Visits : pc[t] \in {"creating", "publishing"} => pc'[t] = pc[t]
    BY <1>12 DEF Drop, Leave
  <2>3. \A r \in results : OnItsWay(r, w) => OnItsWay(r, w)'
    BY <1>12, <2>2 DEF Drop, OnItsWay, Leave
  <2> QED
    BY <1>12, <2>1, <2>2, <2>3, <1>w, StillAccountedFor DEF Drop, Leave
<1>13. ASSUME NEW s \in Visits, PopOrPushFails(s) PROVE AccountedFor(w)'
  <2>1. w # s /\ Waiting(w)
    BY <1>13 DEF PopOrPushFails, Waiting
  <2>2. \A x \in waitList : UserOf[x] = UserOf[w] => x \in waitList'
    BY <1>13, <2>1 DEF PopOrPushFails, ZPopMinOrAddOne, SharingEntry, Waiting, Attached
  <2>3. \A t \in Visits : pc[t] \in {"creating", "publishing"} => pc'[t] = pc[t]
    BY <1>13 DEF PopOrPushFails
  <2>4. \A r \in results : OnItsWay(r, w) => OnItsWay(r, w)'
    BY <1>13, <2>3 DEF PopOrPushFails, OnItsWay
  <2> QED
    BY <1>13, <2>1, <2>2, <2>3, <2>4, <1>w, StillAccountedFor DEF PopOrPushFails
<1>14. ASSUME NEW s \in Visits, CreateChannelFails(s) PROVE AccountedFor(w)'
  <2>1. Waiting(w)
    BY <1>14 DEF CreateChannelFails, Waiting
  <2>2. pc'[s] = "creating" \/ UserOf[peer[s]] # UserOf[w]
    BY <1>14, <2>1 DEF CreateChannelFails, SharingEntry, Waiting, Attached
  <2>3. \A r \in results : OnItsWay(r, w) => OnItsWay(r, w)'
    BY <1>14 DEF CreateChannelFails, OnItsWay
  <2> QED
    BY <1>14, <2>1, <2>2, <2>3, <1>w, StillAccountedFor DEF CreateChannelFails
<1>15. ASSUME NEW s \in Visits, PublishFails(s) PROVE AccountedFor(w)'
  <2>1. PICK r0 \in results :
          /\ r0.user = s
          /\ \/ /\ inbox' = inbox
                /\ struck' = struck \cup AttachedOf(r0) \cup {r0.user, r0.peer}
                /\ pc' = [pc EXCEPT ![s] = "open"]
             \/ DeliverToSubscribers(r0) /\ pc' = pc
    BY <1>15 DEF PublishFails
  <2>2. Waiting(w)
    BY <1>15, <2>1 DEF PublishFails, DeliverToSubscribers, Waiting
  <2>3. \A r \in results : r.user = s => r = r0
    BY <2>1 DEF OneResultPerHandler
  <2>4. ASSUME NEW r \in results, UserOf[w] \in Pair(r), OnItsWay(r, w)
        PROVE  OnItsWay(r, w)'
    <3>1. CASE DeliverToSubscribers(r0) /\ pc' = pc
      BY <1>15, <2>4, <3>1 DEF PublishFails, DeliverToSubscribers, OnItsWay
    <3>2. CASE /\ inbox' = inbox
               /\ struck' = struck \cup AttachedOf(r0) \cup {r0.user, r0.peer}
               /\ pc' = [pc EXCEPT ![s] = "open"]
      <4>1. r # r0
        BY <2>2, <2>4, <3>2 DEF AttachedOf, Attached, Waiting
      <4> QED
        BY <1>15, <2>3, <2>4, <3>2, <4>1 DEF PublishFails, OnItsWay
    <3> QED
      BY <2>1, <3>1, <3>2
  <2>5. \A t \in Visits : pc[t] = "creating" => pc'[t] = "creating"
    BY <1>15, <2>1 DEF PublishFails
  <2> QED
    BY <1>15, <2>2, <2>4, <2>5, <1>w, StillAccountedFor DEF PublishFails
<1>16. ASSUME NEW s \in Visits, RemoveFails(s) PROVE AccountedFor(w)'
  <2>1. Waiting(w) /\ w # s
    BY <1>16 DEF RemoveFails, RemoveFromWaitList, Waiting
  <2>2. \A x \in waitList : UserOf[x] = UserOf[w] => x \in waitList'
    BY <1>16, <2>1 DEF RemoveFails, RemoveFromWaitList, Listed, Waiting
  <2>3. \A r \in results : OnItsWay(r, w) => OnItsWay(r, w)'
    BY <1>16 DEF RemoveFails, OnItsWay
  <2> QED
    BY <1>16, <2>1, <2>2, <2>3, <1>w, StillAccountedFor DEF RemoveFails
<1>17. ASSUME NEW v \in Servers, Subscribe(v) PROVE AccountedFor(w)'
  <2>1. Waiting(w)
    BY <1>17 DEF Subscribe, Waiting
  <2>2. \A t \in Visits : pc[t] \in {"creating", "publishing"} => pc'[t] = pc[t]
    BY <1>17 DEF Subscribe
  <2>3. \A r \in results : OnItsWay(r, w) => OnItsWay(r, w)'
    BY <1>17, <2>2 DEF Subscribe, OnItsWay
  <2> QED
    BY <1>17, <2>1, <2>2, <2>3, <1>w, StillAccountedFor DEF Subscribe
<1>18. ASSUME NEW v \in Servers, BroadcastFilter(v) PROVE AccountedFor(w)'
  <2>1. Waiting(w)
    BY <1>18 DEF BroadcastFilter, Waiting
  <2>2. \A r \in results : UserOf[w] \in Pair(r) /\ OnItsWay(r, w) => OnItsWay(r, w)'
    BY <1>18, <2>1 DEF BroadcastFilter, OnItsWay, Waiting, AttachedOf, Attached, HubIdle
  <2> QED
    BY <1>18, <2>1, <2>2, <1>w, StillAccountedFor DEF BroadcastFilter
<1>19. ASSUME NEW v \in Servers, VisitSession(v) PROVE AccountedFor(w)'
  <2>1. Waiting(w)
    BY <1>19 DEF VisitSession, Waiting
  <2>2. \A r \in results : UserOf[w] \in Pair(r) /\ OnItsWay(r, w) => OnItsWay(r, w)'
    BY <1>19, <2>1 DEF VisitSession, OnItsWay, Waiting
  <2> QED
    BY <1>19, <2>1, <2>2, <1>w, StillAccountedFor DEF VisitSession
<1>20. ASSUME NEW v \in Servers, LoseMessage(v) PROVE AccountedFor(w)'
  <2>1. Waiting(w)
    BY <1>20 DEF LoseMessage, Waiting
  <2>2. \A r \in results : UserOf[w] \in Pair(r) /\ OnItsWay(r, w) => OnItsWay(r, w)'
    BY <1>20, <2>1 DEF LoseMessage, OnItsWay, Waiting, AttachedOf, Attached
  <2> QED
    BY <1>20, <2>1, <2>2, <1>w, StillAccountedFor DEF LoseMessage
<1>21. ASSUME NEW v \in Servers, VisitSessionFails(v) PROVE AccountedFor(w)'
  <2>1. Waiting(w)
    BY <1>21 DEF VisitSessionFails, Waiting
  <2>2. \A r \in results : UserOf[w] \in Pair(r) /\ OnItsWay(r, w) => OnItsWay(r, w)'
    BY <1>21, <2>1 DEF VisitSessionFails, OnItsWay, Waiting
  <2> QED
    BY <1>21, <2>1, <2>2, <1>w, StillAccountedFor DEF VisitSessionFails
<1>22. ASSUME NEW v \in Servers, Crash(v) PROVE AccountedFor(w)'
  <2>1. ServerOf[w] # v /\ Waiting(w)
    BY <1>22 DEF Crash, Waiting, Attached
  <2>2. ASSUME NEW t \in Visits, pc[t] = "creating", UserOf[peer[t]] = UserOf[w]
        PROVE  ServerOf[t] # v
    <3>1. w \in SharingEntry(peer[t])
      BY <2>1, <2>2 DEF SharingEntry, Waiting, Attached
    <3>2. ServerOf[t] = v => w \in struck'
      BY <1>22, <2>2, <3>1 DEF Crash, Attached
    <3> QED
      BY <3>2 DEF Waiting
  <2>3. ASSUME NEW r \in results, UserOf[w] \in Pair(r), pc[r.user] = "publishing"
        PROVE  ServerOf[r.user] # v
    <3>1. w \in AttachedOf(r)
      BY <2>1, <2>3 DEF AttachedOf, Waiting, Attached
    <3>2. ServerOf[r.user] = v => w \in struck'
      BY <1>22, <2>3, <3>1 DEF Crash, Attached
    <3> QED
      BY <3>2 DEF Waiting
  <2>4. \A t \in Visits : ServerOf[t] # v => pc'[t] = pc[t]
    BY <1>22 DEF Crash
  <2>5. \A r \in results : UserOf[w] \in Pair(r) /\ OnItsWay(r, w) => OnItsWay(r, w)'
    BY <1>22, <2>1, <2>3, <2>4 DEF Crash, OnItsWay
  <2> QED
    BY <1>22, <2>1, <2>2, <2>4, <2>5, <1>w, StillAccountedFor DEF Crash
<1>23. CASE UNCHANGED vars
  <2>1. Waiting(w)
    BY <1>23 DEF vars, Waiting
  <2>2. \A r \in results : OnItsWay(r, w) => OnItsWay(r, w)'
    BY <1>23 DEF vars, OnItsWay
  <2> QED
    BY <1>23, <2>1, <2>2, <1>w, StillAccountedFor DEF vars
<1> QED
  BY <1>1, <1>2, <1>3, <1>4, <1>5, <1>6, <1>7, <1>8, <1>9, <1>10, <1>11,
     <1>12, <1>13, <1>14, <1>15, <1>16, <1>17, <1>18, <1>19, <1>20, <1>21,
     <1>22, <1>23 DEF Next, VisitStep, ServerStep, FaultStep

-----------------------------------------------------------------------------
(* Theorems.                                                                *)

\* The properties below hold together, on the strength of one another.
THEOREM Invariance == Spec => []IInv
<1>1. Init => IInv
  <2>1. Init => TypeOK
    BY InitType
  <2>2. Init => OneWaiter /\ NeverMatchedWithSelf /\ DrawnAndFiltered
    BY DEF Init, OneWaiter, NeverMatchedWithSelf, DrawnAndFiltered
  <2>3. Init => ChannelIsForOnePair /\ TokenMeansMember
    BY DEF Init, ChannelIsForOnePair, TokenMeansMember
  <2>4. Init => OneRole /\ VisitConsumedOnce /\ OneResultPerHandler
    BY DEF Init, OneRole, PoppedBy, VisitConsumedOnce, OneResultPerHandler
  <2>5. Init => EveryWaiterAccountedFor /\ NoGhostListed
    BY DEF Init, EveryWaiterAccountedFor, Waiting, NoGhostListed
  <2> QED
    BY <2>1, <2>2, <2>3, <2>4, <2>5 DEF IInv
<1>2. IInv /\ [Next]_vars => IInv'
  <2> SUFFICES ASSUME IInv, [Next]_vars PROVE IInv'
    OBVIOUS
  <2> QED
    BY NextType, OneWaiterStep, NeverSelfStep, FilteredStep, OnePairStep,
       MemberStep, OneRoleStep, ConsumedStep, OneResultStep, NoGhostStep,
       AccountedStep DEF IInv
<1> QED
  BY <1>1, <1>2, PTL DEF Spec

\* Every variable stays in its type.
THEOREM TypeCorrect == Spec => []TypeOK
BY Invariance, PTL DEF IInv

\* The wait list never holds two users, so the arrival times that the script
\* stores as scores never decide who is popped.
THEOREM AtMostOneWaits == Spec => []OneWaiter
BY Invariance, PTL DEF IInv

\* No user is paired with themselves, however many tabs they open.
THEOREM NoSelfMatch == Spec => []NeverMatchedWithSelf
BY Invariance, PTL DEF IInv

\* A channel has no member, and shows its token to nobody, but the two users it
\* was made for.
THEOREM ChannelsArePrivate == Spec => []ChannelIsForOnePair
BY Invariance, PTL DEF IInv

\* A token that a page is shown opens the channel, whatever fails.
THEOREM TokensWork == Spec => []TokenMeansMember
BY Invariance, PTL DEF IInv

\* A visit that no failure hits is consumed by one match.
THEOREM ConsumedOnce == Spec => []VisitConsumedOnce
BY Invariance, PTL DEF IInv

\* Whoever waits is listed, or popped by a handler at work, or has a result on
\* its way, with any number of failures that hit others.
THEOREM NobodyForgotten == Spec => []EveryWaiterAccountedFor
BY Invariance, PTL DEF IInv

\* Of two strangers who wait one at least is already promised a channel.
THEOREM StrangersNeverIdle == Spec => []NoTwoStrangersIdle
<1>1. IInv => NoTwoStrangersIdle
  BY DEF IInv, OneWaiter, EveryWaiterAccountedFor, NoTwoStrangersIdle, Listed
<1> QED
  BY <1>1, Invariance, PTL

\* Entries of visits that are over come from vanished connections or failures.
THEOREM NoGhosts == Spec => []NoGhostListed
BY Invariance, PTL DEF IInv
=============================================================================

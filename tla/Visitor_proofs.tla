--------------------------- MODULE Visitor_proofs ---------------------------
(***************************************************************************)
(* Proofs of Visitor's safety properties for any number of tabs, ids and   *)
(* channels, whatever fails.                                               *)
(*                                                                         *)
(* TokenIsHisOwn is not inductive: what a tab stores is the token that its *)
(* socket was sent, so the invariant follows a token from the match to the *)
(* mail of a tab (its owner is who waits there), and from there to the     *)
(* storage (he is who is stored, if nothing was stored in between).        *)
(***************************************************************************)
EXTENDS Visitor, TLAPS

\* Whoever has a token got it from a channel that was made for somebody.
Made ==
  /\ \A c \in Channels : room[c] # "none" => owner[c] # None
  /\ token # None => room[token] # "none"

\* A token on its way is for the user who waits, and only chat pages hold one.
Held(t) ==
  /\ mail[t] # None => /\ at[t] = "waiting"
                       /\ room[mail[t]] # "none"
                       /\ owner[mail[t]] = me[t]
  /\ mine[t] # None => /\ at[t] \in {"connecting", "inside", "cut", "dropped", "leaving"}
                       /\ room[mine[t]] # "none"

\* Who asks for a match is who is stored.
AsksAsStored ==
  ~rival => \A t \in Tabs : at[t] \in {"dialling", "waiting"} => me[t] = uid

HolderInv ==
  /\ TypeOK
  /\ Made
  /\ \A t \in Tabs : Held(t)
  /\ AsksAsStored
  /\ TokenIsHisOwn

-----------------------------------------------------------------------------

\* At first nothing is stored.
LEMMA InitHolds == Init => HolderInv
<1> SUFFICES ASSUME Init PROVE HolderInv
  OBVIOUS
<1>1. TypeOK
  <2>1. 0 \in 0..MaxPosts /\ 0 \in 0..MaxFaults /\ 0 \in 0..MaxWhims
    BY VisitorAssumption
  <2>2. /\ at \in [Tabs -> Home \cup Chat \cup {"off"}]
        /\ room \in [Channels -> {"none", "there", "expired", "deleted"}]
        /\ \A t \in Tabs : at[t] # "waiting"
    BY DEF Init
  <2> QED
    BY <2>1, <2>2 DEF Init, TypeOK
<1>2. Made /\ (\A t \in Tabs : Held(t)) /\ AsksAsStored /\ TokenIsHisOwn
  BY DEF Init, Made, Held, AsksAsStored, TokenIsHisOwn
<1> QED
  BY <1>1, <1>2 DEF HolderInv

LEMMA OpenKeeps ==
  ASSUME HolderInv, NEW t \in Tabs, Open(t)
  PROVE  HolderInv'
<1>1. TypeOK'
  BY VisitorAssumption DEF Open, Navigate, HolderInv, TypeOK, Home, Chat, storage,
     services, bounds
<1>2. Made'
  BY DEF Open, Navigate, HolderInv, Made, TypeOK, storage, services, bounds
<1>3. (\A s \in Tabs : Held(s))'
  BY DEF Open, Navigate, HolderInv, Held, TypeOK, storage, services, bounds
<1>4. AsksAsStored'
  BY DEF Open, Navigate, HolderInv, AsksAsStored, TypeOK, storage, services, bounds
<1>5. TokenIsHisOwn'
  BY DEF Open, Navigate, HolderInv, TokenIsHisOwn, TypeOK, storage, services, bounds
<1> QED
  BY <1>1, <1>2, <1>3, <1>4, <1>5 DEF HolderInv

LEMMA CloseKeeps ==
  ASSUME HolderInv, NEW t \in Tabs, Close(t)
  PROVE  HolderInv'
<1>1. TypeOK'
  BY VisitorAssumption DEF Close, Navigate, Whim, HolderInv, TypeOK, Home, Chat,
     storage, services
<1>2. Made'
  BY DEF Close, Navigate, Whim, HolderInv, Made, TypeOK, storage, services
<1>3. (\A s \in Tabs : Held(s))'
  BY DEF Close, Navigate, Whim, HolderInv, Held, TypeOK, storage, services
<1>4. AsksAsStored'
  BY DEF Close, Navigate, Whim, HolderInv, AsksAsStored, TypeOK, storage, services
<1>5. TokenIsHisOwn'
  BY DEF Close, Navigate, Whim, HolderInv, TokenIsHisOwn, TypeOK, storage, services
<1> QED
  BY <1>1, <1>2, <1>3, <1>4, <1>5 DEF HolderInv

LEMMA LoadHomeKeeps ==
  ASSUME HolderInv, NEW t \in Tabs, LoadHome(t)
  PROVE  HolderInv'
<1>1. TypeOK'
  BY VisitorAssumption DEF LoadHome, Navigate, Goto, HolderInv, TypeOK, Home, Chat,
     storage, services, bounds
<1>2. Made'
  BY DEF LoadHome, Navigate, Goto, HolderInv, Made, TypeOK, storage, services,
     bounds
<1>3. (\A s \in Tabs : Held(s))'
  BY DEF LoadHome, Navigate, Goto, HolderInv, Held, TypeOK, storage, services,
     bounds
<1>4. AsksAsStored'
  BY DEF LoadHome, Navigate, Goto, HolderInv, AsksAsStored, TypeOK, storage,
     services, bounds
<1>5. TokenIsHisOwn'
  BY DEF LoadHome, Navigate, Goto, HolderInv, TokenIsHisOwn, TypeOK, storage,
     services, bounds
<1> QED
  BY <1>1, <1>2, <1>3, <1>4, <1>5 DEF HolderInv

LEMMA LoadChatKeeps ==
  ASSUME HolderInv, NEW t \in Tabs, LoadChat(t)
  PROVE  HolderInv'
<1>1. TypeOK'
  BY VisitorAssumption DEF LoadChat, Navigate, HolderInv, TypeOK, Home, Chat,
     storage, services, bounds
<1>2. Made'
  BY DEF LoadChat, Navigate, HolderInv, Made, TypeOK, storage, services, bounds
<1>3. (\A s \in Tabs : Held(s))'
  BY VisitorAssumption DEF LoadChat, Navigate, HolderInv, TypeOK, Made, Held,
     AsksAsStored, TokenIsHisOwn, storage, services, bounds
<1>4. AsksAsStored'
  BY DEF LoadChat, Navigate, HolderInv, AsksAsStored, TypeOK, storage, services,
     bounds
<1>5. TokenIsHisOwn'
  BY DEF LoadChat, Navigate, HolderInv, TokenIsHisOwn, TypeOK, storage, services,
     bounds
<1> QED
  BY <1>1, <1>2, <1>3, <1>4, <1>5 DEF HolderInv

LEMMA SubmitKeeps ==
  ASSUME HolderInv, NEW t \in Tabs, Submit(t)
  PROVE  HolderInv'
<1>1. TypeOK'
  BY VisitorAssumption DEF Submit, HolderInv, TypeOK, Home, Chat, storage, services,
     bounds
<1>2. Made'
  BY DEF Submit, HolderInv, Made, TypeOK, storage, services, bounds
<1>3. (\A s \in Tabs : Held(s))'
  BY DEF Submit, HolderInv, Held, TypeOK, storage, services, bounds
<1>4. AsksAsStored'
  BY DEF Submit, HolderInv, AsksAsStored, TypeOK, storage, services, bounds
<1>5. TokenIsHisOwn'
  BY DEF Submit, HolderInv, TokenIsHisOwn, TypeOK, storage, services, bounds
<1> QED
  BY <1>1, <1>2, <1>3, <1>4, <1>5 DEF HolderInv

LEMMA CreateUserKeeps ==
  ASSUME HolderInv, NEW t \in Tabs, CreateUser(t)
  PROVE  HolderInv'
<1>1. TypeOK'
  BY VisitorAssumption DEF CreateUser, Answered, StoreUid, Matching, HolderInv,
     TypeOK, Home, Chat, bounds
<1>2. Made'
  BY DEF CreateUser, Answered, StoreUid, Matching, HolderInv, Made, TypeOK, bounds
<1>3. (\A s \in Tabs : Held(s))'
  BY DEF CreateUser, Answered, StoreUid, Matching, HolderInv, Held, TypeOK, bounds
<1>4. AsksAsStored'
  BY DEF CreateUser, Answered, StoreUid, Matching, HolderInv, AsksAsStored, TypeOK,
     bounds
<1>5. TokenIsHisOwn'
  BY VisitorAssumption DEF CreateUser, Answered, StoreUid, Matching, HolderInv,
     TypeOK, Made, Held, AsksAsStored, TokenIsHisOwn, bounds
<1> QED
  BY <1>1, <1>2, <1>3, <1>4, <1>5 DEF HolderInv

LEMMA CreateUserFailsKeeps ==
  ASSUME HolderInv, NEW t \in Tabs, CreateUserFails(t)
  PROVE  HolderInv'
<1>1. CASE StoreUid(Bad)
  <2>1. TypeOK'
    BY <1>1, VisitorAssumption DEF CreateUserFails, Answered, Fault, StoreUid,
       Matching, HolderInv, TypeOK, Home, Chat, storage, services
  <2>2. Made'
    BY <1>1 DEF CreateUserFails, Answered, Fault, StoreUid, Matching, HolderInv,
       Made, TypeOK, storage, services
  <2>3. (\A s \in Tabs : Held(s))'
    BY <1>1 DEF CreateUserFails, Answered, Fault, StoreUid, Matching, HolderInv,
       Held, TypeOK, storage, services
  <2>4. AsksAsStored'
    BY <1>1 DEF CreateUserFails, Answered, Fault, StoreUid, Matching, HolderInv,
       AsksAsStored, TypeOK, storage, services
  <2>5. TokenIsHisOwn'
    BY <1>1, VisitorAssumption DEF CreateUserFails, Answered, Fault, StoreUid,
       Matching, HolderInv, TypeOK, Made, Held, AsksAsStored, TokenIsHisOwn,
       storage, services
  <2> QED
    BY <2>1, <2>2, <2>3, <2>4, <2>5 DEF HolderInv
<1>2. CASE UNCHANGED <<storage, rival>>
  <2>1. TypeOK'
    BY <1>2, VisitorAssumption DEF CreateUserFails, Answered, Fault, HolderInv,
       TypeOK, Home, Chat, storage, services
  <2>2. Made'
    BY <1>2 DEF CreateUserFails, Answered, Fault, HolderInv, Made, TypeOK, storage,
       services
  <2>3. (\A s \in Tabs : Held(s))'
    BY <1>2 DEF CreateUserFails, Answered, Fault, HolderInv, Held, TypeOK, storage,
       services
  <2>4. AsksAsStored'
    BY <1>2 DEF CreateUserFails, Answered, Fault, HolderInv, AsksAsStored, TypeOK,
       storage, services
  <2>5. TokenIsHisOwn'
    BY <1>2, VisitorAssumption DEF CreateUserFails, Answered, Fault, HolderInv,
       TypeOK, Made, Held, AsksAsStored, TokenIsHisOwn, storage, services
  <2> QED
    BY <2>1, <2>2, <2>3, <2>4, <2>5 DEF HolderInv
<1> QED
  BY <1>1, <1>2 DEF CreateUserFails

LEMMA StartKeeps ==
  ASSUME HolderInv, NEW t \in Tabs, Start(t)
  PROVE  HolderInv'
<1>1. TypeOK'
  BY DEF Start, GotoAs, HolderInv, TypeOK, Home, Chat, storage, services, bounds
<1>2. Made'
  BY DEF Start, GotoAs, HolderInv, Made, TypeOK, storage, services, bounds
<1>3. (\A s \in Tabs : Held(s))'
  BY DEF Start, GotoAs, HolderInv, Held, TypeOK, storage, services, bounds
<1>4. AsksAsStored'
  BY DEF Start, GotoAs, HolderInv, AsksAsStored, TypeOK, storage, services, bounds
<1>5. TokenIsHisOwn'
  BY VisitorAssumption DEF Start, GotoAs, HolderInv, TypeOK, Made, Held,
     AsksAsStored, TokenIsHisOwn, storage, services, bounds
<1> QED
  BY <1>1, <1>2, <1>3, <1>4, <1>5 DEF HolderInv

LEMMA NameFoundKeeps ==
  ASSUME HolderInv, NEW t \in Tabs, NameFound(t)
  PROVE  HolderInv'
<1>1. TypeOK'
  BY DEF NameFound, GotoAs, HolderInv, TypeOK, Home, Chat, storage, services, bounds
<1>2. Made'
  BY DEF NameFound, GotoAs, HolderInv, Made, TypeOK, storage, services, bounds
<1>3. (\A s \in Tabs : Held(s))'
  BY DEF NameFound, GotoAs, HolderInv, Held, TypeOK, storage, services, bounds
<1>4. AsksAsStored'
  BY DEF NameFound, GotoAs, HolderInv, AsksAsStored, TypeOK, storage, services,
     bounds
<1>5. TokenIsHisOwn'
  BY VisitorAssumption DEF NameFound, GotoAs, HolderInv, TypeOK, Made, Held,
     AsksAsStored, TokenIsHisOwn, storage, services, bounds
<1> QED
  BY <1>1, <1>2, <1>3, <1>4, <1>5 DEF HolderInv

LEMMA NameNotFoundKeeps ==
  ASSUME HolderInv, NEW t \in Tabs, NameNotFound(t)
  PROVE  HolderInv'
<1>1. TypeOK'
  BY VisitorAssumption DEF NameNotFound, Forget, Matching, Navigate, HolderInv,
     TypeOK, Home, Chat, services, bounds
<1>2. Made'
  BY DEF NameNotFound, Forget, Matching, Navigate, HolderInv, Made, TypeOK,
     services, bounds
<1>3. (\A s \in Tabs : Held(s))'
  BY DEF NameNotFound, Forget, Matching, Navigate, HolderInv, Held, TypeOK,
     services, bounds
<1>4. AsksAsStored'
  BY DEF NameNotFound, Forget, Matching, Navigate, HolderInv, AsksAsStored, TypeOK,
     services, bounds
<1>5. TokenIsHisOwn'
  BY DEF NameNotFound, Forget, Matching, Navigate, HolderInv, TokenIsHisOwn, TypeOK,
     services, bounds
<1> QED
  BY <1>1, <1>2, <1>3, <1>4, <1>5 DEF HolderInv

LEMMA CheckFailsKeeps ==
  ASSUME HolderInv, NEW t \in Tabs, CheckFails(t)
  PROVE  HolderInv'
<1>1. CASE Forget(t)
  <2>1. TypeOK'
    BY <1>1, VisitorAssumption DEF CheckFails, GotoAs, Fault, Forget, Matching,
       Navigate, HolderInv, TypeOK, Home, Chat, storage, services
  <2>2. Made'
    BY <1>1 DEF CheckFails, GotoAs, Fault, Forget, Matching, Navigate, HolderInv,
       Made, TypeOK, storage, services
  <2>3. (\A s \in Tabs : Held(s))'
    BY <1>1 DEF CheckFails, GotoAs, Fault, Forget, Matching, Navigate, HolderInv,
       Held, TypeOK, storage, services
  <2>4. AsksAsStored'
    BY <1>1 DEF CheckFails, GotoAs, Fault, Forget, Matching, Navigate, HolderInv,
       AsksAsStored, TypeOK, storage, services
  <2>5. TokenIsHisOwn'
    BY <1>1, VisitorAssumption DEF CheckFails, GotoAs, Fault, Forget, Matching,
       Navigate, HolderInv, TypeOK, Made, Held, AsksAsStored, TokenIsHisOwn,
       storage, services
  <2> QED
    BY <2>1, <2>2, <2>3, <2>4, <2>5 DEF HolderInv
<1>2. CASE GotoAs(t, "stuck", None) /\ UNCHANGED <<storage, rival>>
  <2>1. TypeOK'
    BY <1>2, VisitorAssumption DEF CheckFails, GotoAs, Fault, HolderInv, TypeOK,
       Home, Chat, storage, services
  <2>2. Made'
    BY <1>2 DEF CheckFails, GotoAs, Fault, HolderInv, Made, TypeOK, storage,
       services
  <2>3. (\A s \in Tabs : Held(s))'
    BY <1>2 DEF CheckFails, GotoAs, Fault, HolderInv, Held, TypeOK, storage,
       services
  <2>4. AsksAsStored'
    BY <1>2 DEF CheckFails, GotoAs, Fault, HolderInv, AsksAsStored, TypeOK, storage,
       services
  <2>5. TokenIsHisOwn'
    BY <1>2, VisitorAssumption DEF CheckFails, GotoAs, Fault, HolderInv, TypeOK,
       Made, Held, AsksAsStored, TokenIsHisOwn, storage, services
  <2> QED
    BY <2>1, <2>2, <2>3, <2>4, <2>5 DEF HolderInv
<1> QED
  BY <1>1, <1>2 DEF CheckFails

LEMMA MatchKeeps ==
  ASSUME HolderInv, NEW t \in Tabs, Match(t)
  PROVE  HolderInv'
<1>1. TypeOK'
  BY DEF Match, Goto, HolderInv, TypeOK, Home, Chat, storage, services, bounds
<1>2. Made'
  BY DEF Match, Goto, HolderInv, Made, TypeOK, storage, services, bounds
<1>3. (\A s \in Tabs : Held(s))'
  BY DEF Match, Goto, HolderInv, Held, TypeOK, storage, services, bounds
<1>4. AsksAsStored'
  BY DEF Match, Goto, HolderInv, AsksAsStored, TypeOK, storage, services, bounds
<1>5. TokenIsHisOwn'
  BY DEF Match, Goto, HolderInv, TokenIsHisOwn, TypeOK, storage, services, bounds
<1> QED
  BY <1>1, <1>2, <1>3, <1>4, <1>5 DEF HolderInv

LEMMA MatchRefusesKeeps ==
  ASSUME HolderInv, NEW t \in Tabs, MatchRefuses(t)
  PROVE  HolderInv'
<1>1. TypeOK'
  BY VisitorAssumption DEF MatchRefuses, GotoAs, Fault, HolderInv, TypeOK, Home,
     Chat, storage, services, bounds
<1>2. Made'
  BY DEF MatchRefuses, GotoAs, Fault, HolderInv, Made, TypeOK, storage, services,
     bounds
<1>3. (\A s \in Tabs : Held(s))'
  BY DEF MatchRefuses, GotoAs, Fault, HolderInv, Held, TypeOK, storage, services,
     bounds
<1>4. AsksAsStored'
  BY DEF MatchRefuses, GotoAs, Fault, HolderInv, AsksAsStored, TypeOK, storage,
     services, bounds
<1>5. TokenIsHisOwn'
  BY VisitorAssumption DEF MatchRefuses, GotoAs, Fault, HolderInv, TypeOK, Made,
     Held, AsksAsStored, TokenIsHisOwn, storage, services, bounds
<1> QED
  BY <1>1, <1>2, <1>3, <1>4, <1>5 DEF HolderInv

LEMMA MatchSocketEndsKeeps ==
  ASSUME HolderInv, NEW t \in Tabs, MatchSocketEnds(t)
  PROVE  HolderInv'
<1>1. TypeOK'
  BY VisitorAssumption DEF MatchSocketEnds, Fault, HolderInv, TypeOK, Home, Chat,
     storage, services
<1>2. Made'
  BY DEF MatchSocketEnds, Fault, HolderInv, Made, TypeOK, storage, services
<1>3. (\A s \in Tabs : Held(s))'
  BY DEF MatchSocketEnds, Fault, HolderInv, Held, TypeOK, storage, services
<1>4. AsksAsStored'
  BY DEF MatchSocketEnds, Fault, HolderInv, AsksAsStored, TypeOK, storage, services
<1>5. TokenIsHisOwn'
  BY VisitorAssumption DEF MatchSocketEnds, Fault, HolderInv, TypeOK, Made, Held,
     AsksAsStored, TokenIsHisOwn, storage, services
<1> QED
  BY <1>1, <1>2, <1>3, <1>4, <1>5 DEF HolderInv

LEMMA MatchedKeeps ==
  ASSUME HolderInv, NEW u \in Ids, NEW c \in Channels, Matched(u, c)
  PROVE  HolderInv'
<1>1. TypeOK'
  BY DEF Matched, HolderInv, TypeOK, Home, Chat, storage, bounds
<1>2. Made'
  BY VisitorAssumption DEF Matched, HolderInv, Made, TypeOK, storage, bounds
<1>3. (\A s \in Tabs : Held(s))'
  BY DEF Matched, HolderInv, Held, TypeOK, storage, bounds
<1>4. AsksAsStored'
  BY DEF Matched, HolderInv, AsksAsStored, TypeOK, storage, bounds
<1>5. TokenIsHisOwn'
  BY VisitorAssumption DEF Matched, HolderInv, TypeOK, Made, Held, AsksAsStored,
     TokenIsHisOwn, storage, bounds
<1> QED
  BY <1>1, <1>2, <1>3, <1>4, <1>5 DEF HolderInv

LEMMA ReceiveKeeps ==
  ASSUME HolderInv, NEW t \in Tabs, Receive(t)
  PROVE  HolderInv'
<1>1. TypeOK'
  BY VisitorAssumption DEF Receive, Navigate, HolderInv, TypeOK, Home, Chat,
     services, bounds
<1>2. Made'
  BY VisitorAssumption DEF Receive, Navigate, HolderInv, TypeOK, Made, Held,
     AsksAsStored, TokenIsHisOwn, services, bounds
<1>3. (\A s \in Tabs : Held(s))'
  BY DEF Receive, Navigate, HolderInv, Held, TypeOK, services, bounds
<1>4. AsksAsStored'
  BY DEF Receive, Navigate, HolderInv, AsksAsStored, TypeOK, services, bounds
<1>5. TokenIsHisOwn'
  BY VisitorAssumption DEF Receive, Navigate, HolderInv, TypeOK, Made, Held,
     AsksAsStored, TokenIsHisOwn, services, bounds
<1> QED
  BY <1>1, <1>2, <1>3, <1>4, <1>5 DEF HolderInv

LEMMA ReloadKeeps ==
  ASSUME HolderInv, NEW t \in Tabs, Reload(t),
         faults' = faults, whims' \in 0..MaxWhims
  PROVE  HolderInv'
<1>1. TypeOK'
  BY VisitorAssumption DEF Reload, Navigate, HolderInv, TypeOK, Home, Chat, storage,
     services
<1>2. Made'
  BY DEF Reload, Navigate, HolderInv, Made, TypeOK, storage, services
<1>3. (\A s \in Tabs : Held(s))'
  BY DEF Reload, Navigate, HolderInv, Held, TypeOK, storage, services
<1>4. AsksAsStored'
  BY DEF Reload, Navigate, HolderInv, AsksAsStored, TypeOK, storage, services
<1>5. TokenIsHisOwn'
  BY DEF Reload, Navigate, HolderInv, TokenIsHisOwn, TypeOK, storage, services
<1> QED
  BY <1>1, <1>2, <1>3, <1>4, <1>5 DEF HolderInv

LEMMA StartChatKeeps ==
  ASSUME HolderInv, NEW t \in Tabs, StartChat(t)
  PROVE  HolderInv'
<1>1. TypeOK'
  BY DEF StartChat, Goto, HolderInv, TypeOK, Home, Chat, storage, services, bounds
<1>2. Made'
  BY DEF StartChat, Goto, HolderInv, Made, TypeOK, storage, services, bounds
<1>3. (\A s \in Tabs : Held(s))'
  BY DEF StartChat, Goto, HolderInv, Held, TypeOK, storage, services, bounds
<1>4. AsksAsStored'
  BY DEF StartChat, Goto, HolderInv, AsksAsStored, TypeOK, storage, services, bounds
<1>5. TokenIsHisOwn'
  BY DEF StartChat, Goto, HolderInv, TokenIsHisOwn, TypeOK, storage, services,
     bounds
<1> QED
  BY <1>1, <1>2, <1>3, <1>4, <1>5 DEF HolderInv

LEMMA StartChatRefusesKeeps ==
  ASSUME HolderInv, NEW t \in Tabs, StartChatRefuses(t)
  PROVE  HolderInv'
<1>1. TypeOK'
  BY VisitorAssumption DEF StartChatRefuses, SocketEnds, Goto, Fault, HolderInv,
     TypeOK, Home, Chat, storage, services, bounds
<1>2. Made'
  BY DEF StartChatRefuses, SocketEnds, Goto, Fault, HolderInv, Made, TypeOK,
     storage, services, bounds
<1>3. (\A s \in Tabs : Held(s))'
  BY DEF StartChatRefuses, SocketEnds, Goto, Fault, HolderInv, Held, TypeOK,
     storage, services, bounds
<1>4. AsksAsStored'
  BY DEF StartChatRefuses, SocketEnds, Goto, Fault, HolderInv, AsksAsStored, TypeOK,
     storage, services, bounds
<1>5. TokenIsHisOwn'
  BY DEF StartChatRefuses, SocketEnds, Goto, Fault, HolderInv, TokenIsHisOwn,
     TypeOK, storage, services, bounds
<1> QED
  BY <1>1, <1>2, <1>3, <1>4, <1>5 DEF HolderInv

LEMMA CutKeeps ==
  ASSUME HolderInv, NEW t \in Tabs, Cut(t)
  PROVE  HolderInv'
<1>1. TypeOK'
  BY VisitorAssumption DEF Cut, SocketEnds, Goto, Fault, HolderInv, TypeOK, Home,
     Chat, storage, services
<1>2. Made'
  BY DEF Cut, SocketEnds, Goto, Fault, HolderInv, Made, TypeOK, storage, services
<1>3. (\A s \in Tabs : Held(s))'
  BY DEF Cut, SocketEnds, Goto, Fault, HolderInv, Held, TypeOK, storage, services
<1>4. AsksAsStored'
  BY DEF Cut, SocketEnds, Goto, Fault, HolderInv, AsksAsStored, TypeOK, storage,
     services
<1>5. TokenIsHisOwn'
  BY DEF Cut, SocketEnds, Goto, Fault, HolderInv, TokenIsHisOwn, TypeOK, storage,
     services
<1> QED
  BY <1>1, <1>2, <1>3, <1>4, <1>5 DEF HolderInv

LEMMA ReconnectKeeps ==
  ASSUME HolderInv, NEW t \in Tabs, Reconnect(t)
  PROVE  HolderInv'
<1>1. TypeOK'
  BY DEF Reconnect, Goto, HolderInv, TypeOK, Home, Chat, storage, services, bounds
<1>2. Made'
  BY DEF Reconnect, Goto, HolderInv, Made, TypeOK, storage, services, bounds
<1>3. (\A s \in Tabs : Held(s))'
  BY DEF Reconnect, Goto, HolderInv, Held, TypeOK, storage, services, bounds
<1>4. AsksAsStored'
  BY DEF Reconnect, Goto, HolderInv, AsksAsStored, TypeOK, storage, services, bounds
<1>5. TokenIsHisOwn'
  BY DEF Reconnect, Goto, HolderInv, TokenIsHisOwn, TypeOK, storage, services,
     bounds
<1> QED
  BY <1>1, <1>2, <1>3, <1>4, <1>5 DEF HolderInv

LEMMA LeaveKeeps ==
  ASSUME HolderInv, NEW t \in Tabs, Leave(t)
  PROVE  HolderInv'
<1>1. TypeOK'
  BY DEF Leave, DELETE, Delete, Goto, HolderInv, TypeOK, Home, Chat, storage, bounds
<1>2. Made'
  BY VisitorAssumption DEF Leave, DELETE, Delete, Goto, HolderInv, TypeOK, Made,
     Held, AsksAsStored, TokenIsHisOwn, storage, bounds
<1>3. (\A s \in Tabs : Held(s))'
  BY DEF Leave, DELETE, Delete, Goto, HolderInv, Held, TypeOK, storage, bounds
<1>4. AsksAsStored'
  BY DEF Leave, DELETE, Delete, Goto, HolderInv, AsksAsStored, TypeOK, storage,
     bounds
<1>5. TokenIsHisOwn'
  BY DEF Leave, DELETE, Delete, Goto, HolderInv, TokenIsHisOwn, TypeOK, storage,
     bounds
<1> QED
  BY <1>1, <1>2, <1>3, <1>4, <1>5 DEF HolderInv

LEMMA LeaveFailsKeeps ==
  ASSUME HolderInv, NEW t \in Tabs, LeaveFails(t)
  PROVE  HolderInv'
<1>1. TypeOK'
  BY VisitorAssumption DEF LeaveFails, DELETE, Delete, Goto, Fault, HolderInv,
     TypeOK, Home, Chat, storage, pages
<1>2. Made'
  BY VisitorAssumption DEF LeaveFails, DELETE, Delete, Goto, Fault, HolderInv,
     TypeOK, Made, Held, AsksAsStored, TokenIsHisOwn, storage, pages
<1>3. (\A s \in Tabs : Held(s))'
  BY DEF LeaveFails, DELETE, Delete, Goto, Fault, HolderInv, Held, TypeOK, storage,
     pages
<1>4. AsksAsStored'
  BY DEF LeaveFails, DELETE, Delete, Goto, Fault, HolderInv, AsksAsStored, TypeOK,
     storage, pages
<1>5. TokenIsHisOwn'
  BY DEF LeaveFails, DELETE, Delete, Goto, Fault, HolderInv, TokenIsHisOwn, TypeOK,
     storage, pages
<1> QED
  BY <1>1, <1>2, <1>3, <1>4, <1>5 DEF HolderInv

LEMMA LeaveDoneKeeps ==
  ASSUME HolderInv, NEW t \in Tabs, LeaveDone(t)
  PROVE  HolderInv'
<1>1. TypeOK'
  BY VisitorAssumption DEF LeaveDone, RemoveToken, Navigate, HolderInv, TypeOK,
     Home, Chat, services, bounds
<1>2. Made'
  BY DEF LeaveDone, RemoveToken, Navigate, HolderInv, Made, TypeOK, services, bounds
<1>3. (\A s \in Tabs : Held(s))'
  BY DEF LeaveDone, RemoveToken, Navigate, HolderInv, Held, TypeOK, services, bounds
<1>4. AsksAsStored'
  BY DEF LeaveDone, RemoveToken, Navigate, HolderInv, AsksAsStored, TypeOK,
     services, bounds
<1>5. TokenIsHisOwn'
  BY DEF LeaveDone, RemoveToken, Navigate, HolderInv, TokenIsHisOwn, TypeOK,
     services, bounds
<1> QED
  BY <1>1, <1>2, <1>3, <1>4, <1>5 DEF HolderInv

LEMMA LeavedKeeps ==
  ASSUME HolderInv, NEW t \in Tabs, Leaved(t)
  PROVE  HolderInv'
<1>1. TypeOK'
  BY DEF Leaved, RemoveToken, HolderInv, TypeOK, Home, Chat, services, bounds
<1>2. Made'
  BY DEF Leaved, RemoveToken, HolderInv, Made, TypeOK, services, bounds
<1>3. (\A s \in Tabs : Held(s))'
  BY DEF Leaved, RemoveToken, HolderInv, Held, TypeOK, services, bounds
<1>4. AsksAsStored'
  BY DEF Leaved, RemoveToken, HolderInv, AsksAsStored, TypeOK, services, bounds
<1>5. TokenIsHisOwn'
  BY DEF Leaved, RemoveToken, HolderInv, TokenIsHisOwn, TypeOK, services, bounds
<1> QED
  BY <1>1, <1>2, <1>3, <1>4, <1>5 DEF HolderInv

LEMMA BackKeeps ==
  ASSUME HolderInv, NEW t \in Tabs, Back(t)
  PROVE  HolderInv'
<1>1. TypeOK'
  BY VisitorAssumption DEF Back, Navigate, HolderInv, TypeOK, Home, Chat, storage,
     services, bounds
<1>2. Made'
  BY DEF Back, Navigate, HolderInv, Made, TypeOK, storage, services, bounds
<1>3. (\A s \in Tabs : Held(s))'
  BY DEF Back, Navigate, HolderInv, Held, TypeOK, storage, services, bounds
<1>4. AsksAsStored'
  BY DEF Back, Navigate, HolderInv, AsksAsStored, TypeOK, storage, services, bounds
<1>5. TokenIsHisOwn'
  BY DEF Back, Navigate, HolderInv, TokenIsHisOwn, TypeOK, storage, services, bounds
<1> QED
  BY <1>1, <1>2, <1>3, <1>4, <1>5 DEF HolderInv

LEMMA StrangerLeavesKeeps ==
  ASSUME HolderInv, NEW c \in Channels, StrangerLeaves(c)
  PROVE  HolderInv'
<1>1. TypeOK'
  BY DEF StrangerLeaves, Delete, HolderInv, TypeOK, Home, Chat, storage, pages,
     bounds
<1>2. Made'
  BY DEF StrangerLeaves, Delete, HolderInv, Made, TypeOK, storage, pages, bounds
<1>3. (\A s \in Tabs : Held(s))'
  BY DEF StrangerLeaves, Delete, HolderInv, Held, TypeOK, storage, pages, bounds
<1>4. AsksAsStored'
  BY DEF StrangerLeaves, Delete, HolderInv, AsksAsStored, TypeOK, storage, pages,
     bounds
<1>5. TokenIsHisOwn'
  BY DEF StrangerLeaves, Delete, HolderInv, TokenIsHisOwn, TypeOK, storage, pages,
     bounds
<1> QED
  BY <1>1, <1>2, <1>3, <1>4, <1>5 DEF HolderInv

LEMMA ExpireUserKeeps ==
  ASSUME HolderInv, NEW u \in Ids, ExpireUser(u)
  PROVE  HolderInv'
<1>1. TypeOK'
  BY DEF ExpireUser, HolderInv, TypeOK, Home, Chat, storage, pages, bounds
<1>2. Made'
  BY DEF ExpireUser, HolderInv, Made, TypeOK, storage, pages, bounds
<1>3. (\A s \in Tabs : Held(s))'
  BY DEF ExpireUser, HolderInv, Held, TypeOK, storage, pages, bounds
<1>4. AsksAsStored'
  BY DEF ExpireUser, HolderInv, AsksAsStored, TypeOK, storage, pages, bounds
<1>5. TokenIsHisOwn'
  BY DEF ExpireUser, HolderInv, TokenIsHisOwn, TypeOK, storage, pages, bounds
<1> QED
  BY <1>1, <1>2, <1>3, <1>4, <1>5 DEF HolderInv

LEMMA ExpireTokenKeeps ==
  ASSUME HolderInv, NEW c \in Channels, ExpireToken(c)
  PROVE  HolderInv'
<1>1. TypeOK'
  BY DEF ExpireToken, HolderInv, TypeOK, Home, Chat, storage, pages, bounds
<1>2. Made'
  BY DEF ExpireToken, HolderInv, Made, TypeOK, storage, pages, bounds
<1>3. (\A s \in Tabs : Held(s))'
  BY DEF ExpireToken, HolderInv, Held, TypeOK, storage, pages, bounds
<1>4. AsksAsStored'
  BY DEF ExpireToken, HolderInv, AsksAsStored, TypeOK, storage, pages, bounds
<1>5. TokenIsHisOwn'
  BY DEF ExpireToken, HolderInv, TokenIsHisOwn, TypeOK, storage, pages, bounds
<1> QED
  BY <1>1, <1>2, <1>3, <1>4, <1>5 DEF HolderInv

-----------------------------------------------------------------------------
LEMMA ProceedKeeps ==
  ASSUME HolderInv, NEW t \in Tabs, Proceed(t)
  PROVE  HolderInv'
BY LoadHomeKeeps, LoadChatKeeps, CreateUserKeeps, NameFoundKeeps,
   NameNotFoundKeeps, MatchKeeps, MatchRefusesKeeps, ReceiveKeeps, StartChatKeeps,
   StartChatRefusesKeeps, ReconnectKeeps, LeaveDoneKeeps, LeavedKeeps
DEF Proceed

LEMMA RespondKeeps ==
  ASSUME HolderInv, NEW t \in Tabs, Respond(t)
  PROVE  HolderInv'
<1>1. CASE ReloadStuck(t)
  <2>1. faults' = faults /\ whims' = whims /\ whims \in 0..MaxWhims
    BY <1>1 DEF ReloadStuck, bounds, HolderInv, TypeOK
  <2> QED
    BY <1>1, <2>1, ReloadKeeps DEF ReloadStuck
<1> QED
  BY <1>1, OpenKeeps, SubmitKeeps, StartKeeps, BackKeeps DEF Respond

LEMMA ReloadOnAWhimKeeps ==
  ASSUME HolderInv, NEW t \in Tabs, ReloadOnAWhim(t)
  PROVE  HolderInv'
<1>1. faults' = faults /\ whims' \in 0..MaxWhims
  BY VisitorAssumption DEF ReloadOnAWhim, Whim, HolderInv, TypeOK
<1> QED
  BY <1>1, ReloadKeeps DEF ReloadOnAWhim

\* Every step keeps it: one lemma for each action.
LEMMA StepKeeps == HolderInv /\ [Next]_vars => HolderInv'
<1> SUFFICES ASSUME HolderInv, [Next]_vars PROVE HolderInv'
  OBVIOUS
<1>1. ASSUME NEW t \in Tabs, Proceed(t) \/ Respond(t) \/ Leave(t)
      PROVE  HolderInv'
  BY <1>1, ProceedKeeps, RespondKeeps, LeaveKeeps
<1>2. ASSUME NEW t \in Tabs,
             \/ Close(t) \/ ReloadOnAWhim(t)
             \/ CreateUserFails(t) \/ CheckFails(t) \/ MatchSocketEnds(t)
             \/ Cut(t) \/ LeaveFails(t)
      PROVE  HolderInv'
  BY <1>2, CloseKeeps, ReloadOnAWhimKeeps, CreateUserFailsKeeps, CheckFailsKeeps,
     MatchSocketEndsKeeps, CutKeeps, LeaveFailsKeeps
<1>3. ASSUME NEW u \in Ids, ExpireUser(u) \/ \E c \in Channels : Matched(u, c)
      PROVE  HolderInv'
  BY <1>3, ExpireUserKeeps, MatchedKeeps
<1>4. ASSUME NEW c \in Channels, StrangerLeaves(c) \/ ExpireToken(c)
      PROVE  HolderInv'
  BY <1>4, StrangerLeavesKeeps, ExpireTokenKeeps
<1>5. CASE UNCHANGED vars
  BY <1>5 DEF vars, storage, pages, services, bounds, HolderInv, TypeOK, Made, Held,
              AsksAsStored, TokenIsHisOwn
<1> QED
  BY <1>1, <1>2, <1>3, <1>4, <1>5 DEF Next

\* HolderInv holds throughout.
LEMMA Inductive == Spec => []HolderInv
BY InitHolds, StepKeeps, PTL DEF Spec

\* The state of browser and services is always one of those that TypeOK describes:
\* so nobody waits for a match whose id was never drawn.
THEOREM TypeCorrect == Spec => []TypeOK
<1>1. HolderInv => TypeOK
  BY DEF HolderInv
<1> QED
  BY <1>1, Inductive, PTL

\* However many tabs there are, and whatever fails: as long as no id was stored over
\* another and none was changed behind a waiting socket, home.js stores a token for
\* the stored id only, and chat.js enters a room only with a token of its own.
THEOREM TokensAreOnesOwn == Spec => []TokenIsHisOwn
<1>1. HolderInv => TokenIsHisOwn
  BY DEF HolderInv
<1> QED
  BY <1>1, Inductive, PTL
=============================================================================

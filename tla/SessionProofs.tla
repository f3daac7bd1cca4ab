---------------------------- MODULE SessionProofs ----------------------------
(***************************************************************************)
(* An ended session stays ended, and a session nothing disturbed keeps what *)
(* its responses reported, for every number of ids and of requests.  And    *)
(* between any number of instances, first copies keep their sender's order. *)
(***************************************************************************)
EXTENDS Session, SessionParts, Integers, Sequences, SequenceTheorems, WellFoundedInduction,
        TLAPS

Some == Sid \cup {None}
Phases == {"new", "sent", "handler", "regenerating", "saving", "saved", "done"}

\* The types of what the argument is about.
Types ==
  /\ entry \in [Sid -> {"absent", "live", "lapsed"}]
  /\ phase \in [Request -> Phases]
  /\ sid \in [Request -> Some] /\ old \in [Request -> Some]
  /\ cookie \in [Request -> Some] /\ jar \in Some
  /\ DOMAIN destroyed = Request
  /\ used \subseteq Sid

\* Only ids that were handed out have an entry, have ended or are held.
OnlyUsed ==
  /\ ended \subseteq used
  /\ \A s \in Sid : entry[s] # "absent" => s \in used
  /\ \A r \in Request, s \in Sid : Holds(r, s) => s \in used

\* A request holds its id, and between the two steps of regenerate() also the
\* one it is leaving, which is another one.
HoldsIts ==
  \A r \in Request :
    /\ phase[r] \in {"handler", "regenerating", "saving", "saved"} => sid[r] \in Sid
    /\ IF phase[r] = "regenerating"
       THEN old[r] \in Sid /\ old[r] # sid[r] ELSE old[r] = None

\* An id that two requests hold was noted when the second one loaded it.
SharedIsDisturbed ==
  \A q, r \in Request, s \in Sid :
    q # r /\ Holds(q, s) /\ Holds(r, s) => s \in disturbed

\* The only request that still has an ended id is the one that destroyed it,
\* and its save() does nothing.
EndedIsDestroyed ==
  \A r \in Request :
    phase[r] \in {"handler", "regenerating"} /\ sid[r] \in ended \ disturbed
      => destroyed[r]

EndedInv ==
  Types /\ OnlyUsed /\ HoldsIts /\ SharedIsDisturbed /\ EndedIsDestroyed /\ EndedStays

\* An id not yet handed out is nobody's.
LEMMA FreshIsNew ==
  ASSUME EndedInv, Unused # {}
  PROVE  /\ FreshSid \in Sid /\ FreshSid \notin used /\ FreshSid # None
         /\ FreshSid \notin ended /\ entry[FreshSid] = "absent"
         /\ \A r \in Request : ~ Holds(r, FreshSid)
<1>1. FreshSid \in Unused
  BY DEF FreshSid
<1>2. FreshSid \in Sid /\ FreshSid \notin used /\ FreshSid # None
  BY <1>1, SessionAssumption DEF Unused, SessionAssumption
<1> QED
  BY <1>2 DEF EndedInv, OnlyUsed

\* save() never brings an ended id back, and creates entries only for the id
\* its request holds.
LEMMA SaveKeepsEnded ==
  ASSUME EndedInv, NEW r \in Request, phase[r] = "handler", Save(r)
  PROVE  /\ entry' \in [Sid -> {"absent", "live", "lapsed"}]
         /\ \A s \in Sid : entry'[s] # "absent" => entry[s] # "absent" \/ s = sid[r]
         /\ \A s \in ended \ disturbed : entry'[s] = "absent"
         /\ disturbed \subseteq disturbed'
<1>1. sid[r] \in Sid /\ entry \in [Sid -> {"absent", "live", "lapsed"}]
  BY DEF EndedInv, HoldsIts, Types
<1>2. ended \subseteq Sid
  BY DEF EndedInv, OnlyUsed, Types
<1>3. \A s \in ended \ disturbed : entry[s] = "absent"
  BY DEF EndedInv, EndedStays
<1>4. CASE destroyed[r]
  BY <1>1, <1>3, <1>4 DEF Save, storeVars
<1>5. CASE ~ destroyed[r]
  <2>1. sid[r] \notin ended \ disturbed
    BY <1>5 DEF EndedInv, EndedIsDestroyed
  <2>2. \/ entry' = [entry EXCEPT ![sid[r]] = "live"]
        \/ entry' = [entry EXCEPT ![sid[r]] = IF @ = "absent" THEN @ ELSE "live"]
        \/ entry' = entry
    BY <1>5 DEF Save, Put, Touch, Fails, storeVars
  <2>3. disturbed \subseteq disturbed'
    BY <1>5 DEF Save, Fails
  <2> QED
    BY <1>1, <1>2, <1>3, <2>1, <2>2, <2>3
<1> QED
  BY <1>4, <1>5

-----------------------------------------------------------------------------
(***************************************************************************)
(* Steps that move no request between ids: what they do to the store must  *)
(* not bring an ended id back, and phases only leave the handler.          *)
(***************************************************************************)
LEMMA QuietStep ==
  ASSUME EndedInv,
         UNCHANGED <<sid, old, cookie, ended, used, destroyed>>,
         jar' \in Some,
         phase' \in [Request -> Phases],
         \A r \in Request :
           \/ phase'[r] = phase[r]
           \/ phase[r] \in {"handler", "saving", "saved"} /\ phase'[r] \in {"saving", "saved", "done"},
         entry' \in [Sid -> {"absent", "live", "lapsed"}],
         \A s \in Sid : entry'[s] # "absent" => s \in used,
         disturbed \subseteq disturbed',
         \A s \in ended \ disturbed' : entry'[s] = "absent"
  PROVE  EndedInv'
<1> USE DEF EndedInv
<1>1. Types'
  BY DEF Types, Phases
<1>2. \A r \in Request, s \in Sid : Holds(r, s)' => Holds(r, s)
  BY DEF Holds
<1>3. OnlyUsed'
  BY <1>2 DEF OnlyUsed
<1>4. HoldsIts'
  BY DEF HoldsIts
<1>5. SharedIsDisturbed'
  BY <1>2 DEF SharedIsDisturbed
<1>6. EndedIsDestroyed'
  BY DEF EndedIsDestroyed
<1>7. EndedStays'
  BY DEF EndedStays
<1> QED
  BY <1>1, <1>3, <1>4, <1>5, <1>6, <1>7

-----------------------------------------------------------------------------
(***************************************************************************)
(* Steps that change which ids a request holds, one lemma each.            *)
(***************************************************************************)
\* A request that carries a cookie holds nothing yet.
LEMMA SendStep == ASSUME EndedInv, NEW r \in Request, Send(r) PROVE EndedInv'
<1> USE DEF EndedInv
<1>1. /\ phase[r] = "new" /\ phase' = [phase EXCEPT ![r] = "sent"]
      /\ sid' = [sid EXCEPT ![r] = jar]
      /\ UNCHANGED <<entry, used, jar, old, cookie, destroyed, disturbed, ended>>
  BY DEF Send, storeVars, ownVars, historyVars
<1>2. Types'
  BY <1>1 DEF Types, Phases
<1>3. \A q \in Request : /\ q # r => phase'[q] = phase[q] /\ sid'[q] = sid[q]
                         /\ phase'[r] = "sent"
  BY <1>1 DEF Types
<1>4. \A q \in Request, s \in Sid : Holds(q, s)' => Holds(q, s)
  BY <1>1, <1>3 DEF Holds
<1>5. OnlyUsed'
  BY <1>1, <1>4 DEF OnlyUsed
<1>6. HoldsIts'
  BY <1>1, <1>3 DEF HoldsIts
<1>7. SharedIsDisturbed'
  BY <1>1, <1>4 DEF SharedIsDisturbed
<1>8. EndedIsDestroyed'
  BY <1>1, <1>3 DEF EndedIsDestroyed
<1>9. EndedStays'
  BY <1>1 DEF EndedStays
<1> QED
  BY <1>2, <1>5, <1>6, <1>7, <1>8, <1>9

\* What a request loads is live, so it has not ended unless it is disturbed.
LEMMA LoadStep == ASSUME EndedInv, NEW r \in Request, Load(r) PROVE EndedInv'
<1> USE DEF EndedInv
<1> DEFINE s == sid[r]
<1>1. /\ phase[r] = "sent" /\ s # None /\ entry[s] = "live"
      /\ phase' = [phase EXCEPT ![r] = "handler"]
      /\ cookie' = [cookie EXCEPT ![r] = s]
      /\ UNCHANGED <<entry, used, jar, sid, old, destroyed, ended>>
  BY DEF Load, storeVars
<1>2. disturbed' = IF \E q \in Request : Holds(q, s) THEN disturbed \cup {s} ELSE disturbed
  BY DEF Load
<1>3. s \in Sid /\ s \in used /\ old[r] = None
  BY <1>1 DEF Types, Some, OnlyUsed, HoldsIts
<1>4. s \notin ended \ disturbed
  BY <1>1 DEF EndedStays
<1>5. Types'
  BY <1>1, <1>3 DEF Types, Phases, Some
<1>6. /\ phase'[r] = "handler"
      /\ \A q \in Request : q # r => phase'[q] = phase[q]
  BY <1>1 DEF Types
<1> HIDE DEF s
<1>7. \A t \in Sid : Holds(r, t)' => t = s
  BY <1>1, <1>3, SessionAssumption DEF Holds, SessionAssumption, s
<1>8. \A q \in Request, t \in Sid : q # r => (Holds(q, t)' => Holds(q, t))
  BY <1>1, <1>6 DEF Holds
<1>9. OnlyUsed'
  BY <1>1, <1>3, <1>7, <1>8 DEF OnlyUsed
<1>10. HoldsIts'
  BY <1>1, <1>3, <1>6 DEF HoldsIts, s
<1>11. SharedIsDisturbed'
  BY <1>2, <1>7, <1>8 DEF SharedIsDisturbed
<1>12. EndedIsDestroyed'
  BY <1>1, <1>2, <1>4, <1>6 DEF EndedIsDestroyed, s
<1>13. EndedStays'
  BY <1>1, <1>2 DEF EndedStays
<1> QED
  BY <1>5, <1>9, <1>10, <1>11, <1>12, <1>13

\* A request that starts a session gets an id nobody has had.
LEMMA LoadNothingStep ==
  ASSUME EndedInv, NEW r \in Request, LoadNothing(r) \/ LoadFails(r)
  PROVE  EndedInv'
<1> USE DEF EndedInv
<1> DEFINE f == FreshSid
<1>1. /\ phase[r] = "sent" /\ Unused # {}
      /\ phase' = [phase EXCEPT ![r] = "handler"]
      /\ sid' = [sid EXCEPT ![r] = f] /\ cookie' = [cookie EXCEPT ![r] = f]
      /\ used' = used \cup {f}
      /\ disturbed \subseteq disturbed'
      /\ UNCHANGED <<jar, old, destroyed, ended>>
  BY DEF LoadNothing, LoadFails, Fails, ownVars, callVars, pastVars, historyVars
<1>2. /\ f \in Sid /\ f \notin used /\ f # None /\ f \notin ended
      /\ \A q \in Request : ~ Holds(q, f)
  BY <1>1, FreshIsNew
<1>3. UNCHANGED entry \/ (sid[r] # None /\ entry' = [entry EXCEPT ![sid[r]] = "absent"])
  BY DEF LoadNothing, LoadFails, Fails, Erase, storeVars
<1> HIDE DEF f
<1>4. /\ entry' \in [Sid -> {"absent", "live", "lapsed"}]
      /\ \A t \in Sid : entry'[t] = entry[t] \/ entry'[t] = "absent"
  BY <1>3 DEF Types
<1>5. Types'
  BY <1>1, <1>2, <1>4 DEF Types, Phases, Some
<1>6. /\ phase'[r] = "handler" /\ sid'[r] = f /\ old[r] = None
      /\ \A q \in Request : q # r => phase'[q] = phase[q] /\ sid'[q] = sid[q]
  BY <1>1 DEF Types, HoldsIts
<1>7. \A t \in Sid : Holds(r, t)' => t = f
  BY <1>1, <1>6, SessionAssumption DEF Holds, SessionAssumption
<1>8. \A q \in Request, t \in Sid : q # r => (Holds(q, t)' => Holds(q, t))
  BY <1>1, <1>6 DEF Holds
<1>9. OnlyUsed'
  BY <1>1, <1>4, <1>7, <1>8 DEF OnlyUsed
<1>10. HoldsIts'
  BY <1>1, <1>2, <1>6 DEF HoldsIts
<1>11. SharedIsDisturbed'
  BY <1>1, <1>2, <1>7, <1>8 DEF SharedIsDisturbed
<1>12. EndedIsDestroyed'
  BY <1>1, <1>2, <1>6 DEF EndedIsDestroyed
<1>13. EndedStays'
  BY <1>1, <1>4 DEF EndedStays, Types, OnlyUsed
<1> QED
  BY <1>5, <1>9, <1>10, <1>11, <1>12, <1>13

\* regenerate() moves the request to a new id and still holds the old one.
LEMMA RegenerateStep == ASSUME EndedInv, NEW r \in Request, Regenerate(r) PROVE EndedInv'
<1> USE DEF EndedInv
<1> DEFINE f == FreshSid
<1>1. /\ phase[r] = "handler" /\ Unused # {}
      /\ phase' = [phase EXCEPT ![r] = "regenerating"]
      /\ sid' = [sid EXCEPT ![r] = f] /\ old' = [old EXCEPT ![r] = sid[r]]
      /\ used' = used \cup {f}
      /\ entry' = [entry EXCEPT ![f] = "live"] \/ entry' = entry
      /\ disturbed \subseteq disturbed'
      /\ UNCHANGED <<jar, cookie, destroyed, ended>>
  BY DEF Regenerate, Put, Fails, storeVars, ownVars
<1>2. /\ f \in Sid /\ f \notin used /\ f # None /\ f \notin ended
      /\ \A q \in Request : ~ Holds(q, f)
  BY <1>1, FreshIsNew
<1> HIDE DEF f
<1>3. sid[r] \in Sid /\ sid[r] # f /\ Holds(r, sid[r])
  BY <1>1, <1>2 DEF HoldsIts, Holds
<1>4. Types'
  BY <1>1, <1>2 DEF Types, Phases, Some
<1>5. /\ phase'[r] = "regenerating" /\ sid'[r] = f /\ old'[r] = sid[r]
      /\ \A q \in Request : q # r =>
           phase'[q] = phase[q] /\ sid'[q] = sid[q] /\ old'[q] = old[q]
  BY <1>1 DEF Types
<1>6. \A t \in Sid : Holds(r, t)' => t = f \/ Holds(r, t)
  BY <1>3, <1>5 DEF Holds
<1>7. \A q \in Request, t \in Sid : q # r => (Holds(q, t)' => Holds(q, t))
  BY <1>5 DEF Holds
<1>8. OnlyUsed'
  BY <1>1, <1>2, <1>6, <1>7 DEF OnlyUsed, Types
<1>9. HoldsIts'
  BY <1>2, <1>3, <1>5 DEF HoldsIts
<1>10. SharedIsDisturbed'
  BY <1>1, <1>2, <1>6, <1>7 DEF SharedIsDisturbed
<1>11. EndedIsDestroyed'
  BY <1>1, <1>2, <1>5 DEF EndedIsDestroyed
<1>12. EndedStays'
  BY <1>1, <1>2 DEF EndedStays, Types, OnlyUsed
<1> QED
  BY <1>4, <1>8, <1>9, <1>10, <1>11, <1>12

\* An entry is removed, or it stays and its id is noted.
LEMMA RemovedKeeps ==
  ASSUME NEW s, Removed(s)
  PROVE  /\ disturbed \subseteq disturbed'
         /\ \/ entry' = [entry EXCEPT ![s] = "absent"]
            \/ entry' = entry /\ s \in disturbed'
BY DEF Removed, Erase, Fails, storeVars

\* The id regenerate() leaves has ended; whoever else holds it is disturbed.
LEMMA RegeneratedStep == ASSUME EndedInv, NEW r \in Request, Regenerated(r) PROVE EndedInv'
<1> USE DEF EndedInv
<1> DEFINE s == old[r]
<1>1. /\ phase[r] = "regenerating" /\ phase' = [phase EXCEPT ![r] = "handler"]
      /\ ended' = ended \cup {s} /\ old' = [old EXCEPT ![r] = None]
      /\ UNCHANGED <<used, jar, sid, cookie, destroyed>>
  BY DEF Regenerated
<1>0. /\ disturbed \subseteq disturbed'
      /\ \/ entry' = [entry EXCEPT ![s] = "absent"]
         \/ entry' = entry /\ s \in disturbed'
  BY RemovedKeeps DEF Regenerated
<1>2. s \in Sid /\ s # sid[r] /\ sid[r] \in Sid /\ Holds(r, s) /\ s \in used
  BY <1>1 DEF HoldsIts, Holds, OnlyUsed
<1> HIDE DEF s
<1>3. Types'
  BY <1>0, <1>1, <1>2 DEF Types, Phases, Some
<1>4. /\ phase'[r] = "handler" /\ old'[r] = None
      /\ \A q \in Request : q # r => phase'[q] = phase[q] /\ old'[q] = old[q]
  BY <1>0, <1>1 DEF Types
<1>5. \A q \in Request, t \in Sid : Holds(q, t)' => Holds(q, t)
  BY <1>1, <1>4, SessionAssumption DEF Holds, SessionAssumption
<1>6. OnlyUsed'
  BY <1>0, <1>1, <1>2, <1>5 DEF OnlyUsed, Types
<1>7. HoldsIts'
  BY <1>1, <1>2, <1>4 DEF HoldsIts
<1>8. SharedIsDisturbed'
  BY <1>0, <1>1, <1>5 DEF SharedIsDisturbed
<1>9. \A q \in Request :
        phase[q] \in {"handler", "regenerating"} /\ q # r /\ sid[q] = s => s \in disturbed
  BY <1>2 DEF SharedIsDisturbed, Holds
<1>10. EndedIsDestroyed'
  BY <1>0, <1>1, <1>2, <1>4, <1>9 DEF EndedIsDestroyed
<1>11. EndedStays'
  BY <1>0, <1>1, <1>2 DEF EndedStays, Types, OnlyUsed
<1> QED
  BY <1>3, <1>6, <1>7, <1>8, <1>10, <1>11

\* destroy() ends the id and marks the request that did it.
LEMMA DestroyStep == ASSUME EndedInv, NEW r \in Request, Destroy(r) PROVE EndedInv'
<1> USE DEF EndedInv
<1> DEFINE s == sid[r]
<1>1. /\ phase[r] = "handler"
      /\ ended' = ended \cup {s} /\ destroyed' = [destroyed EXCEPT ![r] = TRUE]
      /\ UNCHANGED <<phase, used, jar, sid, old, cookie>>
  BY DEF Destroy
<1>0. /\ disturbed \subseteq disturbed'
      /\ \/ entry' = [entry EXCEPT ![s] = "absent"]
         \/ entry' = entry /\ s \in disturbed'
  BY RemovedKeeps DEF Destroy
<1>2. s \in Sid /\ Holds(r, s) /\ s \in used
  BY <1>1 DEF HoldsIts, Holds, OnlyUsed
<1>3. \A q \in Request :
        phase[q] \in {"handler", "regenerating"} /\ q # r /\ sid[q] = s => s \in disturbed
  BY <1>2 DEF SharedIsDisturbed, Holds
<1> HIDE DEF s
<1>4. Types'
  BY <1>0, <1>1 DEF Types, Phases
<1>5. \A q \in Request, t \in Sid : Holds(q, t)' => Holds(q, t)
  BY <1>1 DEF Holds
<1>6. OnlyUsed'
  BY <1>0, <1>1, <1>2, <1>5 DEF OnlyUsed, Types
<1>7. HoldsIts'
  BY <1>1 DEF HoldsIts
<1>8. SharedIsDisturbed'
  BY <1>0, <1>1, <1>5 DEF SharedIsDisturbed
<1>9. destroyed'[r] /\ \A q \in Request : q # r => destroyed'[q] = destroyed[q]
  BY <1>1 DEF Types
<1>10. EndedIsDestroyed'
  <2> SUFFICES ASSUME NEW q \in Request, phase[q] \in {"handler", "regenerating"},
                      sid[q] \in (ended \cup {s}) \ disturbed
               PROVE  destroyed'[q]
    BY <1>0, <1>1 DEF EndedIsDestroyed
  <2>1. q # r => destroyed[q]
    BY <1>3 DEF EndedIsDestroyed
  <2> QED
    BY <1>9, <2>1
<1>11. EndedStays'
  BY <1>0, <1>1, <1>2 DEF EndedStays, Types, OnlyUsed
<1> QED
  BY <1>4, <1>6, <1>7, <1>8, <1>10, <1>11

-----------------------------------------------------------------------------
(***************************************************************************)
(* Every step keeps the invariant.                                         *)
(***************************************************************************)
\* The steps that read and write the session but hold the same ids.
LEMMA SameIdsStep ==
  ASSUME EndedInv,
         \/ Cleanup \/ \E s \in Sid : Lapse(s)
         \/ \E r \in Request : \/ Set(r) \/ Delete(r) \/ HandlerSaves(r) \/ SaveEnds(r)
                               \/ HandlerReturns(r) \/ Saved(r)
                               \/ HandlerThrows(r) \/ Respond(r)
         \/ UNCHANGED vars
  PROVE  EndedInv'
<1>0. /\ entry \in [Sid -> {"absent", "live", "lapsed"}]
      /\ phase \in [Request -> Phases]
      /\ jar \in Some /\ cookie \in [Request -> Some] /\ sid \in [Request -> Some]
      /\ \A s \in Sid : entry[s] # "absent" => s \in used
      /\ \A s \in ended \ disturbed : entry[s] = "absent"
      /\ ended \subseteq Sid
  BY DEF EndedInv, Types, OnlyUsed, EndedStays
<1>1. CASE Cleanup
  <2>1. /\ UNCHANGED <<sid, old, cookie, ended, used, destroyed, jar, phase, disturbed>>
        /\ entry' = [s \in Sid |-> IF entry[s] = "lapsed" THEN "absent" ELSE entry[s]]
    BY <1>1 DEF Cleanup, ownVars, historyVars
  <2> QED
    BY <1>0, <2>1, QuietStep
<1>2. ASSUME NEW s \in Sid, Lapse(s) PROVE EndedInv'
  <2>1. /\ UNCHANGED <<sid, old, cookie, ended, used, destroyed, jar, phase>>
        /\ entry[s] = "live" /\ entry' = [entry EXCEPT ![s] = "lapsed"]
        /\ disturbed' = disturbed \cup {s}
    BY <1>2 DEF Lapse, ownVars
  <2> QED
    BY <1>0, <2>1, QuietStep
<1>3. ASSUME NEW r \in Request, Set(r) \/ Delete(r) PROVE EndedInv'
  <2>1. UNCHANGED <<sid, old, cookie, ended, used, destroyed, jar, phase, disturbed, entry>>
    BY <1>3 DEF Set, Written, Delete, storeVars
  <2> QED
    BY <1>0, <2>1, QuietStep
<1>4. ASSUME NEW r \in Request, HandlerSaves(r) \/ HandlerReturns(r) PROVE EndedInv'
  <2>1. /\ UNCHANGED <<sid, old, cookie, ended, used, destroyed, jar>>
        /\ phase[r] = "handler" /\ Save(r)
        /\ phase' = phase \/ phase' = [phase EXCEPT ![r] = "saving"]
    BY <1>4 DEF HandlerSaves, HandlerReturns, ownVars
  <2>2. sid[r] \in used
    BY <2>1 DEF EndedInv, OnlyUsed, HoldsIts, Holds
  <2>3. /\ phase' \in [Request -> Phases]
        /\ \A q \in Request : phase'[q] = phase[q]
                              \/ (phase[q] = "handler" /\ phase'[q] = "saving")
    BY <1>0, <2>1 DEF Phases
  <2>4. /\ entry' \in [Sid -> {"absent", "live", "lapsed"}]
        /\ \A s \in Sid : entry'[s] # "absent" => entry[s] # "absent" \/ s = sid[r]
        /\ \A s \in ended \ disturbed : entry'[s] = "absent"
        /\ disturbed \subseteq disturbed'
    BY <2>1, SaveKeepsEnded
  <2> QED
    BY <1>0, <2>1, <2>2, <2>3, <2>4, QuietStep
<1>5. ASSUME NEW r \in Request, HandlerThrows(r) \/ Respond(r) PROVE EndedInv'
  <2>1. /\ UNCHANGED <<sid, old, cookie, ended, used, destroyed, disturbed, entry>>
        /\ phase[r] \in {"handler", "saved"} /\ phase' = [phase EXCEPT ![r] = "done"]
        /\ jar' \in {jar, None, cookie[r], sid[r]}
    BY <1>5 DEF HandlerThrows, Respond, storeVars, ownVars, historyVars
  <2>2. jar' \in Some /\ phase' \in [Request -> Phases]
    BY <1>0, <2>1 DEF Some, Phases
  <2> QED
    BY <1>0, <2>1, <2>2, QuietStep
<1>7. ASSUME NEW r \in Request, SaveEnds(r) \/ Saved(r) PROVE EndedInv'
  <2>1. /\ UNCHANGED <<sid, old, cookie, ended, used, destroyed, jar, disturbed, entry>>
        /\ \/ phase' = phase
           \/ phase[r] = "saving" /\ phase' = [phase EXCEPT ![r] = "saved"]
    BY <1>7 DEF SaveEnds, Saved, storeVars, ownVars, historyVars
  <2>2. phase' \in [Request -> Phases]
    BY <1>0, <2>1 DEF Phases
  <2> QED
    BY <1>0, <2>1, <2>2, QuietStep
<1>6. CASE UNCHANGED vars
  <2>1. UNCHANGED <<sid, old, cookie, ended, used, destroyed, jar, phase, disturbed, entry>>
    BY <1>6 DEF vars, storeVars, ownVars, historyVars
  <2> QED
    BY <1>0, <2>1, QuietStep
<1> QED
  BY <1>1, <1>2, <1>3, <1>4, <1>5, <1>6, <1>7

LEMMA EndedInvHolds == Spec => []EndedInv
<1>1. Init => EndedInv
  <2> SUFFICES ASSUME Init PROVE EndedInv
    OBVIOUS
  <2> USE DEF Init
  <2>1. Types
    BY SessionAssumption DEF Types, Some, Phases, SessionAssumption
  <2>2. \A r \in Request, s \in Sid : ~ Holds(r, s)
    BY DEF Holds
  <2>3. OnlyUsed /\ HoldsIts /\ SharedIsDisturbed /\ EndedIsDestroyed /\ EndedStays
    BY <2>2 DEF OnlyUsed, HoldsIts, SharedIsDisturbed, EndedIsDestroyed, EndedStays
  <2> QED
    BY <2>1, <2>3 DEF EndedInv
<1>2. EndedInv /\ [Next]_vars => EndedInv'
  BY SendStep, LoadStep, LoadNothingStep, RegenerateStep, RegeneratedStep, DestroyStep,
     SameIdsStep DEF Next
<1> QED
  BY <1>1, <1>2, PTL DEF Spec

\* An id that was destroyed, or left by regenerate(), never comes back to the
\* store unless it was shared by requests at the time.
THEOREM EndedStaysHolds == Spec => []EndedStays
<1>1. EndedInv => EndedStays
  BY DEF EndedInv
<1> QED
  BY <1>1, EndedInvHolds, PTL

-----------------------------------------------------------------------------
(***************************************************************************)
(* Nothing acknowledged is lost.  The ids the argument is about are neither*)
(* disturbed nor ended: one request at a time holds such an id, and that   *)
(* request knows all that was ever acknowledged under it.                  *)
(***************************************************************************)
Sound(s) == s \notin disturbed \cup ended

DataTypes ==
  /\ DOMAIN kept = Sid /\ DOMAIN acked = Sid
  /\ DOMAIN data = Request /\ DOMAIN changed = Request /\ saves \in [Request -> Nat]

AbsentIsEmpty ==
  \A s \in Sid : /\ entry[s] = "absent" => kept[s] = {}
                 /\ entry[s] = "lapsed" => s \in disturbed

UnusedIsSilent == \A s \in Sid \ used : acked[s] = {}

\* What was acknowledged is in the data of the request that holds the id.
HolderKnows ==
  \A r \in Request :
    phase[r] \in {"handler", "regenerating"} /\ Sound(sid[r]) /\ ~ destroyed[r]
      => acked[sid[r]] \ Waived \subseteq data[r]

\* A session not marked changed is in the store but for what was waived, which is
\* why save() may only touch it.  So is one that is being stored, whatever its
\* mark: what is written meanwhile is waived, and the mark may go.
Kept(r) ==
  \/ phase[r] \in {"regenerating", "saving", "saved"}
  \/ phase[r] = "handler" /\ (~ changed[r] \/ saves[r] > 0)

UnchangedIsKept ==
  \A r \in Request :
    Kept(r) => (Sound(sid[r]) /\ ~ destroyed[r] => data[r] \ Waived \subseteq kept[sid[r]])

\* Before the store answered a request has no data and saves nothing.
NewIsEmpty == \A r \in Request : phase[r] \in {"new", "sent"} => data[r] = {} /\ saves[r] = 0

DataInv ==
  /\ DataTypes /\ AbsentIsEmpty /\ UnusedIsSilent /\ NewIsEmpty
  /\ HolderKnows /\ UnchangedIsKept /\ NothingLost

\* A step of the requests q that are not r, or of none: what they hold stays,
\* and of the sound ids it writes only what r alone holds or nobody has yet.
\* What is left to show is what it does to r.
LEMMA OthersKeep ==
  ASSUME EndedInv, DataInv, NEW r \in Request,
         DataTypes', AbsentIsEmpty', UnusedIsSilent',
         used' \subseteq Sid, disturbed \subseteq disturbed',
         ended \subseteq ended', Waived \subseteq Waived',
         \A s \in Sid :
           Sound(s)' =>
             \/ kept'[s] = kept[s] /\ acked'[s] = acked[s]
             \/ /\ Holds(r, s) \/ s \notin used
                /\ acked'[s] \ Waived' \subseteq kept'[s],
         \A q \in Request \ {r} :
           /\ phase'[q] = phase[q] /\ sid'[q] = sid[q] /\ data'[q] = data[q]
           /\ changed'[q] = changed[q] /\ destroyed'[q] = destroyed[q]
           /\ saves'[q] = saves[q],
         phase'[r] \notin {"new", "sent"},
         phase'[r] \in {"handler", "regenerating"} /\ Sound(sid[r])' /\ ~ destroyed'[r]
           => acked'[sid'[r]] \ Waived' \subseteq data'[r],
         Kept(r)' => (Sound(sid[r])' /\ ~ destroyed'[r] => data'[r] \ Waived' \subseteq kept'[sid'[r]])
  PROVE  DataInv'
<1> USE DEF DataInv
<1>1. \A s : Sound(s)' => Sound(s)
  BY DEF Sound
<1>2. ASSUME NEW q \in Request \ {r}, phase[q] \in {"handler", "regenerating", "saving", "saved"},
             Sound(sid[q])'
      PROVE  kept'[sid[q]] = kept[sid[q]] /\ acked'[sid[q]] = acked[sid[q]]
  <2>1. sid[q] \in Sid /\ Holds(q, sid[q]) /\ sid[q] \in used
    BY <1>2 DEF EndedInv, HoldsIts, Holds, OnlyUsed
  <2>2. ~ Holds(r, sid[q])
    BY <1>1, <1>2, <2>1 DEF EndedInv, SharedIsDisturbed, Sound
  <2> QED
    BY <1>2, <2>1, <2>2
<1>3. HolderKnows'
  <2> SUFFICES ASSUME NEW q \in Request, phase'[q] \in {"handler", "regenerating"},
                      Sound(sid[q])', ~ destroyed'[q]
               PROVE  acked'[sid'[q]] \ Waived' \subseteq data'[q]
    BY DEF HolderKnows, Sound
  <2>1. CASE q # r
    <3>1. acked[sid[q]] \ Waived \subseteq data[q]
      BY <2>1 DEF HolderKnows, Sound
    <3> QED
      BY <1>2, <2>1, <3>1 DEF Sound
  <2> QED
    BY <2>1 DEF Sound
<1>4. UnchangedIsKept'
  <2> SUFFICES ASSUME NEW q \in Request, Kept(q)', Sound(sid[q])', ~ destroyed'[q]
               PROVE  data'[q] \ Waived' \subseteq kept'[sid'[q]]
    BY DEF UnchangedIsKept, Sound
  <2>1. CASE q # r
    <3>1. Kept(q) /\ phase[q] \in {"handler", "regenerating", "saving", "saved"}
      BY <2>1 DEF Kept
    <3>2. data[q] \ Waived \subseteq kept[sid[q]]
      BY <2>1, <3>1 DEF UnchangedIsKept, Sound
    <3> QED
      BY <1>2, <2>1, <3>1, <3>2 DEF Sound
  <2> QED
    BY <2>1 DEF Sound
<1>5. NothingLost'
  <2> SUFFICES ASSUME NEW s \in Sid, Sound(s)'
               PROVE  acked'[s] \ Waived' \subseteq kept'[s]
    BY DEF NothingLost, Sound
  <2>1. acked[s] \ Waived \subseteq kept[s]
    BY <1>1 DEF NothingLost, UnusedIsSilent, Sound
  <2> QED
    BY <2>1
<1>6. NewIsEmpty'
  BY DEF NewIsEmpty
<1> QED
  BY <1>3, <1>4, <1>5, <1>6

\* A step that leaves every session, and of the store every sound id, as it was.
LEMMA StillStep ==
  ASSUME EndedInv, DataInv,
         UNCHANGED <<used, data, changed, destroyed, saves, acked, ended>>, Waived' = Waived,
         disturbed \subseteq disturbed', DOMAIN kept' = Sid,
         \A s \in Sid : /\ entry'[s] = "absent" => kept'[s] = {}
                        /\ entry'[s] = "lapsed" => s \in disturbed'
                        /\ Sound(s)' => kept'[s] = kept[s],
         \A r \in Request : \/ phase'[r] = phase[r] /\ sid'[r] = sid[r]
                            \/ phase[r] = "new" /\ phase'[r] = "sent"
                            \/ phase'[r] = "done"
  PROVE  DataInv'
<1> USE DEF DataInv
<1>1. \A s : Sound(s)' => Sound(s)
  BY DEF Sound
<1>2. \A r \in Request : phase'[r] \in {"handler", "regenerating", "saving", "saved"} =>
                           phase[r] = phase'[r] /\ sid'[r] = sid[r] /\ sid[r] \in Sid
  BY DEF EndedInv, HoldsIts
<1>3. DataTypes' /\ AbsentIsEmpty' /\ UnusedIsSilent' /\ NewIsEmpty'
  BY DEF DataTypes, AbsentIsEmpty, UnusedIsSilent, NewIsEmpty
<1>4. HolderKnows'
  BY <1>2 DEF HolderKnows, Sound
<1>5. UnchangedIsKept'
  <2> SUFFICES ASSUME NEW q \in Request, Kept(q)', Sound(sid[q])', ~ destroyed'[q]
               PROVE  data'[q] \ Waived' \subseteq kept'[sid'[q]]
    BY DEF UnchangedIsKept, Sound
  <2>1. /\ Kept(q) /\ sid'[q] = sid[q] /\ sid[q] \in Sid
    BY <1>2 DEF Kept
  <2>2. data[q] \ Waived \subseteq kept[sid[q]]
    BY <1>1, <2>1 DEF UnchangedIsKept, Sound
  <2> QED
    BY <2>1, <2>2 DEF Sound
<1>6. NothingLost'
  BY <1>1 DEF NothingLost, Sound, EndedInv, Types
<1> QED
  BY <1>3, <1>4, <1>5, <1>6

-----------------------------------------------------------------------------
(***************************************************************************)
(* One lemma for each step that changes what a request knows or keeps.     *)
(***************************************************************************)
\* What is loaded is all that was acknowledged; a request that shares the id
\* from here on disturbs it.
LEMMA LoadKnows == ASSUME EndedInv, DataInv, NEW r \in Request, Load(r) PROVE DataInv'
<1> DEFINE s == sid[r]
<1>1. /\ phase[r] = "sent" /\ s # None /\ entry[s] = "live"
      /\ data' = [data EXCEPT ![r] = kept[s]]
      /\ phase' = [phase EXCEPT ![r] = "handler"]
      /\ disturbed \subseteq disturbed'
      /\ UNCHANGED <<entry, kept, used, sid, changed, destroyed, saves, acked, ended>>
      /\ Waived' = Waived
  BY DEF Load, storeVars, callVars, pastVars, Waived
<1>2. s \in Sid /\ s \in used /\ used \subseteq Sid
  BY <1>1 DEF EndedInv, Types, Some, OnlyUsed
<1>3. data'[r] = kept[s] /\ phase'[r] = "handler"
  BY <1>1 DEF EndedInv, Types, DataInv, DataTypes
<1>4. DataTypes' /\ AbsentIsEmpty' /\ UnusedIsSilent'
  BY <1>1 DEF DataInv, DataTypes, AbsentIsEmpty, UnusedIsSilent
<1>5. Sound(s)' => acked[s] \ Waived \subseteq kept[s]
  BY <1>1, <1>2 DEF DataInv, NothingLost, Sound
<1>6. \A q \in Request \ {r} :
        /\ phase'[q] = phase[q] /\ sid'[q] = sid[q] /\ data'[q] = data[q]
        /\ changed'[q] = changed[q] /\ destroyed'[q] = destroyed[q]
        /\ saves'[q] = saves[q]
  BY <1>1 DEF EndedInv, Types
<1> QED
  BY <1>1, <1>2, <1>3, <1>4, <1>5, <1>6, OthersKeep DEF Sound

\* A new session holds nothing and nothing was acknowledged under its id; an
\* entry removed on the way held nothing or had lapsed.
LEMMA LoadNothingKnows ==
  ASSUME EndedInv, DataInv, NEW r \in Request, LoadNothing(r) \/ LoadFails(r)
  PROVE  DataInv'
<1> DEFINE f == FreshSid
           s == sid[r]
<1>1. /\ phase[r] = "sent" /\ Unused # {}
      /\ phase' = [phase EXCEPT ![r] = "handler"] /\ sid' = [sid EXCEPT ![r] = f]
      /\ used' = used \cup {f} /\ disturbed \subseteq disturbed'
      /\ UNCHANGED <<data, changed, destroyed, saves, acked, ended>> /\ Waived' = Waived
  BY DEF LoadNothing, LoadFails, Fails, ownVars, callVars, pastVars, historyVars, Waived
<1>2. f \in Sid /\ f \notin used
  BY <1>1, FreshIsNew
<1>3. \/ UNCHANGED <<entry, kept>>
      \/ /\ s \in Sid /\ entry[s] # "live" /\ entry' = [entry EXCEPT ![s] = "absent"]
         /\ kept' = [kept EXCEPT ![s] = {}]
  BY DEF LoadNothing, LoadFails, Fails, Erase, storeVars, EndedInv, Types, Some
<1>4. \A t \in Sid : Sound(t)' => kept'[t] = kept[t]
  BY <1>1, <1>3 DEF DataInv, AbsentIsEmpty, DataTypes, Sound, EndedInv, Types
<1>5. DataTypes' /\ AbsentIsEmpty' /\ UnusedIsSilent'
  BY <1>1, <1>3 DEF DataInv, DataTypes, AbsentIsEmpty, UnusedIsSilent, EndedInv, Types
<1>6. acked[f] = {} /\ data[r] = {}
  BY <1>1, <1>2 DEF DataInv, UnusedIsSilent, NewIsEmpty
<1>7. /\ phase'[r] = "handler" /\ sid'[r] = f /\ used' \subseteq Sid
      /\ \A q \in Request \ {r} :
           /\ phase'[q] = phase[q] /\ sid'[q] = sid[q] /\ data'[q] = data[q]
           /\ changed'[q] = changed[q] /\ destroyed'[q] = destroyed[q]
           /\ saves'[q] = saves[q]
  BY <1>1, <1>2 DEF EndedInv, Types
<1> QED
  BY <1>1, <1>4, <1>5, <1>6, <1>7, OthersKeep DEF Sound

\* set() adds to what the request knows and marks it, and is waived while the
\* session is being stored; delete() only takes away what counts as dropped.
LEMMA WriteKnows ==
  ASSUME EndedInv, DataInv, NEW r \in Request, Set(r) \/ Delete(r)
  PROVE  DataInv'
<1>1. /\ phase[r] \in {"handler", "regenerating", "saving"}
      /\ changed' = [changed EXCEPT ![r] = TRUE]
      /\ UNCHANGED <<entry, kept, used, phase, sid, destroyed, saves, acked, disturbed, ended>>
  BY DEF Set, Written, Delete, Running, storeVars, callVars
<1>2. \E d : /\ data' = [data EXCEPT ![r] = d] /\ data[r] \ Waived' \subseteq d
             /\ Waived \subseteq Waived'
             /\ phase[r] # "handler" \/ saves[r] > 0 => d \ Waived' \subseteq data[r]
  <2>1. CASE Delete(r)
    <3>1. PICK gone \in SUBSET data[r] :
            data' = [data EXCEPT ![r] = @ \ gone] /\ dropped' = dropped \cup gone
      BY <2>1 DEF Delete
    <3>2. raced' = raced
      BY <2>1 DEF Delete
    <3> QED
      BY <3>1, <3>2 DEF Waived, DataInv, DataTypes
  <2>2. CASE Set(r)
    <3> DEFINE w == <<r, writes'[r]>>
    <3>1. /\ data' = [data EXCEPT ![r] = @ \cup {w}] /\ dropped' = dropped
          /\ raced' = IF phase[r] # "handler" \/ saves[r] > 0 THEN raced \cup {w} ELSE raced
      BY <2>2 DEF Set, Written
    <3> HIDE DEF w
    <3> QED
      BY <3>1 DEF Waived, DataInv, DataTypes
  <2> QED
    BY <2>1, <2>2
<1>3. PICK d : /\ data' = [data EXCEPT ![r] = d] /\ data[r] \ Waived' \subseteq d
               /\ Waived \subseteq Waived'
               /\ phase[r] # "handler" \/ saves[r] > 0 => d \ Waived' \subseteq data[r]
  BY <1>2
<1>4. DataTypes' /\ AbsentIsEmpty' /\ UnusedIsSilent'
  BY <1>1, <1>3 DEF DataInv, DataTypes, AbsentIsEmpty, UnusedIsSilent
<1>5. changed'[r] /\ data'[r] = d
  BY <1>1, <1>3 DEF DataInv, DataTypes
<1>6. phase[r] \in {"handler", "regenerating"} /\ Sound(sid[r]) /\ ~ destroyed[r]
        => acked[sid[r]] \ Waived \subseteq data[r]
  BY DEF DataInv, HolderKnows
<1>7. Kept(r)' /\ Sound(sid[r]) /\ ~ destroyed[r] => data'[r] \ Waived' \subseteq kept[sid[r]]
  <2> SUFFICES ASSUME Kept(r)', Sound(sid[r]), ~ destroyed[r]
               PROVE  d \ Waived' \subseteq kept[sid[r]]
    BY <1>5
  <2>1. Kept(r) /\ (phase[r] # "handler" \/ saves[r] > 0)
    BY <1>1, <1>5 DEF Kept
  <2>2. data[r] \ Waived \subseteq kept[sid[r]]
    BY <2>1 DEF DataInv, UnchangedIsKept
  <2> QED
    BY <1>3, <2>1, <2>2
<1>8. /\ used \subseteq Sid
      /\ \A q \in Request \ {r} : data'[q] = data[q] /\ changed'[q] = changed[q]
  BY <1>1, <1>3 DEF EndedInv, Types, DataInv, DataTypes
<1> QED
  BY <1>1, <1>3, <1>4, <1>5, <1>6, <1>7, <1>8, OthersKeep DEF Sound

\* regenerate() stores the data under the new id whether marked or not.
LEMMA RegenerateKnows ==
  ASSUME EndedInv, DataInv, NEW r \in Request, Regenerate(r) PROVE DataInv'
<1> DEFINE f == FreshSid
<1>1. /\ phase[r] = "handler" /\ Unused # {}
      /\ phase' = [phase EXCEPT ![r] = "regenerating"] /\ sid' = [sid EXCEPT ![r] = f]
      /\ used' = used \cup {f} /\ disturbed \subseteq disturbed'
      /\ UNCHANGED <<data, changed, destroyed, saves, acked, ended>> /\ Waived' = Waived
  BY DEF Regenerate, Fails, Put, ownVars, callVars, pastVars, Waived
<1>2. f \in Sid /\ f \notin used
  BY <1>1, FreshIsNew
<1>3. \/ UNCHANGED <<entry, kept>> /\ f \in disturbed'
      \/ /\ entry' = [entry EXCEPT ![f] = "live"]
         /\ kept' = [kept EXCEPT ![f] = data[r]]
  BY DEF Regenerate, Fails, Put, storeVars
<1> HIDE DEF f
<1>4. /\ \A t \in Sid : t # f => kept'[t] = kept[t]
      /\ f \notin disturbed' => kept'[f] = data[r]
  BY <1>2, <1>3 DEF DataInv, DataTypes
<1>5. DataTypes' /\ AbsentIsEmpty' /\ UnusedIsSilent'
  BY <1>1, <1>2, <1>3
     DEF DataInv, DataTypes, AbsentIsEmpty, UnusedIsSilent, EndedInv, Types
<1>6. acked[f] = {}
  BY <1>2 DEF DataInv, UnusedIsSilent
<1>7. /\ phase'[r] = "regenerating" /\ sid'[r] = f /\ used' \subseteq Sid
      /\ \A q \in Request \ {r} :
           /\ phase'[q] = phase[q] /\ sid'[q] = sid[q] /\ data'[q] = data[q]
           /\ changed'[q] = changed[q] /\ destroyed'[q] = destroyed[q]
           /\ saves'[q] = saves[q]
  BY <1>1, <1>2 DEF EndedInv, Types
<1>8. \A s \in Sid : Sound(s)' =>
             \/ kept'[s] = kept[s] /\ acked'[s] = acked[s]
             \/ s \notin used /\ acked'[s] \ Waived' \subseteq kept'[s]
  BY <1>1, <1>2, <1>4, <1>6 DEF Sound
<1> QED
  BY <1>1, <1>4, <1>5, <1>6, <1>7, <1>8, OthersKeep DEF Sound

\* The id left or destroyed has ended, so that it keeps nothing is as it should
\* be; after regenerate() the new id keeps all the request knows.
LEMMA EndKnows ==
  ASSUME EndedInv, DataInv, NEW r \in Request, Regenerated(r) \/ Destroy(r)
  PROVE  DataInv'
<1> DEFINE s == IF phase[r] = "regenerating" THEN old[r] ELSE sid[r]
<1>1. /\ phase[r] \in {"handler", "regenerating"}
      /\ phase' = [phase EXCEPT ![r] = "handler"]
      /\ ended' = ended \cup {s}
      /\ changed' = [changed EXCEPT ![r] = FALSE]
      /\ UNCHANGED <<used, sid, saves, acked>> /\ Waived' = Waived
  BY DEF Regenerated, Destroy, EndedInv, Types, callVars, pastVars, Waived
<1>2. /\ s \in Sid
      /\ \/ UNCHANGED <<entry, kept>> /\ disturbed \subseteq disturbed'
         \/ /\ entry' = [entry EXCEPT ![s] = "absent"]
            /\ kept' = [kept EXCEPT ![s] = {}] /\ disturbed' = disturbed
  BY DEF Regenerated, Destroy, Removed, Erase, Fails, storeVars, EndedInv, HoldsIts
<1>3. \/ /\ phase[r] = "regenerating" /\ UNCHANGED <<data, destroyed>>
      \/ /\ destroyed' = [destroyed EXCEPT ![r] = TRUE]
         /\ data' = [data EXCEPT ![r] = {}]
  BY DEF Regenerated, Destroy
<1>4. phase[r] = "regenerating" /\ Sound(sid[r]) /\ ~ destroyed[r] =>
        /\ data[r] \ Waived \subseteq kept[sid[r]]
        /\ acked[sid[r]] \ Waived \subseteq data[r]
  BY DEF DataInv, UnchangedIsKept, Kept, HolderKnows
<1> HIDE DEF s
<1>5. \A t \in Sid : Sound(t)' => kept'[t] = kept[t]
  BY <1>1, <1>2 DEF DataInv, DataTypes, Sound
<1>6. DataTypes' /\ AbsentIsEmpty' /\ UnusedIsSilent'
  BY <1>1, <1>2, <1>3
     DEF DataInv, DataTypes, AbsentIsEmpty, UnusedIsSilent, EndedInv, Types
<1>7. /\ phase'[r] = "handler" /\ used' \subseteq Sid /\ sid[r] \in Sid
      /\ disturbed \subseteq disturbed' /\ ended \subseteq ended'
      /\ \A q \in Request \ {r} :
           /\ phase'[q] = phase[q] /\ sid'[q] = sid[q] /\ data'[q] = data[q]
           /\ changed'[q] = changed[q] /\ destroyed'[q] = destroyed[q]
           /\ saves'[q] = saves[q]
  BY <1>1, <1>2, <1>3 DEF EndedInv, Types, DataInv, DataTypes, HoldsIts
<1>8. ~ destroyed'[r] => /\ phase[r] = "regenerating" /\ ~ destroyed[r]
                         /\ data'[r] = data[r]
  BY <1>3 DEF EndedInv, Types
<1>9. Sound(sid[r])' => Sound(sid[r])
  BY <1>1, <1>7 DEF Sound
<1>10. /\ Sound(sid[r])' /\ ~ destroyed'[r] => acked'[sid'[r]] \ Waived' \subseteq data'[r]
       /\ Sound(sid[r])' /\ ~ destroyed'[r] => data'[r] \ Waived' \subseteq kept'[sid'[r]]
  BY <1>1, <1>4, <1>5, <1>7, <1>8, <1>9 DEF Sound
<1> QED
  BY <1>1, <1>5, <1>6, <1>7, <1>10, OthersKeep DEF Sound

\* save() leaves all the request knows in the store, or the id is disturbed.
LEMMA SaveKnows ==
  ASSUME EndedInv, DataInv, NEW r \in Request, HandlerSaves(r) \/ HandlerReturns(r)
  PROVE  DataInv'
<1> DEFINE s == sid[r]
<1>1. /\ phase[r] = "handler" /\ Save(r) /\ phase'[r] \in {"handler", "saving"}
      /\ UNCHANGED <<used, sid, data, changed, destroyed, acked, ended>> /\ Waived' = Waived
      /\ \A q \in Request \ {r} : phase'[q] = phase[q]
  BY DEF HandlerSaves, HandlerReturns, EndedInv, Types, ownVars, pastVars, Waived
<1>2. s \in Sid /\ Holds(r, s) /\ used \subseteq Sid
  BY <1>1 DEF EndedInv, HoldsIts, Holds, Types
<1>3. /\ disturbed \subseteq disturbed'
      /\ saves' \in [Request -> Nat]
      /\ \A q \in Request \ {r} : saves'[q] = saves[q]
  BY <1>1 DEF Save, Fails, DataInv, DataTypes
<1>4. \/ UNCHANGED <<entry, kept>> /\ (destroyed[r] \/ s \in disturbed')
      \/ /\ disturbed' = disturbed
         /\ \/ /\ entry' = [entry EXCEPT ![s] = "live"]
               /\ kept' = [kept EXCEPT ![s] = data[r]]
            \/ /\ ~ changed[r]
               /\ entry' = [entry EXCEPT ![s] = IF @ = "absent" THEN @ ELSE "live"]
               /\ kept' = kept
  BY <1>1 DEF Save, Fails, Put, Touch, storeVars
<1>5. Sound(s) /\ ~ destroyed[r] =>
        /\ acked[s] \ Waived \subseteq data[r]
        /\ ~ changed[r] => data[r] \ Waived \subseteq kept[s]
  BY <1>1 DEF DataInv, HolderKnows, UnchangedIsKept, Kept
<1>6. ~ destroyed[r] \/ UNCHANGED <<entry, kept>>
  BY <1>1 DEF Save, storeVars
<1> HIDE DEF s
<1>7. \A t \in Sid : t # s => kept'[t] = kept[t]
  BY <1>2, <1>4 DEF DataInv, DataTypes
<1>8. s \notin disturbed' \cup ended /\ ~ destroyed[r] =>
        data[r] \ Waived \subseteq kept'[s] /\ acked[s] \ Waived \subseteq data[r]
  BY <1>2, <1>3, <1>4, <1>5 DEF Sound, DataInv, DataTypes
<1>9. DataTypes' /\ AbsentIsEmpty' /\ UnusedIsSilent'
  BY <1>1, <1>2, <1>3, <1>4
     DEF DataInv, DataTypes, AbsentIsEmpty, UnusedIsSilent, EndedInv, Types
<1>10. \A t \in Sid : t \notin disturbed' \cup ended' =>
         \/ kept'[t] = kept[t] /\ acked'[t] = acked[t]
         \/ Holds(r, t) /\ acked'[t] \ Waived' \subseteq kept'[t]
  BY <1>1, <1>2, <1>6, <1>7, <1>8
<1>11. phase'[r] \notin {"new", "sent"} /\ sid'[r] = s
  BY <1>1 DEF s
<1> QED
  BY <1>1, <1>2, <1>3, <1>8, <1>9, <1>10, <1>11, OthersKeep DEF Sound

\* A response acknowledges what save() just kept.
LEMMA RespondKnows ==
  ASSUME EndedInv, DataInv, NEW r \in Request, Respond(r) PROVE DataInv'
<1> DEFINE s == sid[r]
<1>1. /\ phase[r] = "saved" /\ phase' = [phase EXCEPT ![r] = "done"]
      /\ acked' = IF destroyed[r] THEN acked ELSE [acked EXCEPT ![s] = @ \cup data[r]]
      /\ UNCHANGED <<entry, kept, used, sid, data, changed, destroyed, saves, disturbed, ended>>
      /\ Waived' = Waived
  BY DEF Respond, storeVars, ownVars, callVars, Waived
<1>2. s \in Sid /\ Holds(r, s) /\ s \in used /\ used \subseteq Sid
  BY <1>1 DEF EndedInv, HoldsIts, Holds, Types, OnlyUsed
<1>3. Sound(s) /\ ~ destroyed[r] =>
        data[r] \ Waived \subseteq kept[s] /\ acked[s] \ Waived \subseteq kept[s]
  BY <1>1, <1>2 DEF DataInv, UnchangedIsKept, Kept, NothingLost, Sound
<1>4. DataTypes' /\ AbsentIsEmpty' /\ UnusedIsSilent'
  BY <1>1, <1>2 DEF DataInv, DataTypes, AbsentIsEmpty, UnusedIsSilent
<1>5. /\ phase'[r] = "done"
      /\ \A q \in Request \ {r} : phase'[q] = phase[q]
  BY <1>1 DEF EndedInv, Types
<1> HIDE DEF s
<1>6. \A t \in Sid : t \notin disturbed \cup ended =>
         \/ acked'[t] = acked[t]
         \/ Holds(r, t) /\ acked'[t] \ Waived \subseteq kept[t]
  BY <1>1, <1>2, <1>3 DEF Sound, DataInv, DataTypes
<1>7. ~ Kept(r)'
  BY <1>5 DEF Kept
<1> QED
  BY <1>1, <1>2, <1>4, <1>5, <1>6, <1>7, OthersKeep DEF Sound

\* The end of a save() clears the mark of a session that is in the store.
LEMMA SaveEndsKnows ==
  ASSUME EndedInv, DataInv, NEW r \in Request, SaveEnds(r) \/ Saved(r) PROVE DataInv'
<1>1. /\ UNCHANGED <<entry, kept, used, sid, data, destroyed, acked, disturbed, ended>>
      /\ Waived' = Waived
  BY DEF SaveEnds, Saved, storeVars, ownVars, pastVars, historyVars, Waived
<1>2. /\ phase'[r] = phase[r] \/ (phase[r] = "saving" /\ phase'[r] = "saved")
      /\ saves' \in [Request -> Nat] /\ DOMAIN changed' = Request
      /\ \A q \in Request \ {r} :
           phase'[q] = phase[q] /\ changed'[q] = changed[q] /\ saves'[q] = saves[q]
  BY DEF SaveEnds, Saved, ownVars, callVars, EndedInv, Types, DataInv, DataTypes
<1>3. saves[r] > 0 \/ phase[r] = "saving"
  BY DEF SaveEnds, Saved
<1>4. phase[r] \notin {"new", "sent"} /\ phase'[r] \notin {"new", "sent"}
  BY <1>2, <1>3 DEF DataInv, NewIsEmpty
<1>5. DataTypes' /\ AbsentIsEmpty' /\ UnusedIsSilent'
  BY <1>1, <1>2 DEF DataInv, DataTypes, AbsentIsEmpty, UnusedIsSilent
<1>6. Kept(r)' => Kept(r)
  BY <1>2, <1>3 DEF Kept
<1>7. Sound(sid[r]) /\ ~ destroyed[r] =>
        /\ Kept(r) => data[r] \ Waived \subseteq kept[sid[r]]
        /\ phase[r] \in {"handler", "regenerating"} => acked[sid[r]] \ Waived \subseteq data[r]
  BY DEF DataInv, UnchangedIsKept, HolderKnows
<1>8. used \subseteq Sid
  BY DEF EndedInv, Types
<1> QED
  BY <1>1, <1>2, <1>4, <1>5, <1>6, <1>7, <1>8, OthersKeep DEF Sound

\* Steps that leave every session as it is.
LEMMA QuietKnows ==
  ASSUME EndedInv, DataInv,
         \/ Cleanup \/ \E s \in Sid : Lapse(s)
         \/ \E r \in Request : Send(r) \/ HandlerThrows(r)
         \/ UNCHANGED vars
  PROVE  DataInv'
<1>0. /\ DOMAIN kept = Sid /\ entry \in [Sid -> {"absent", "live", "lapsed"}]
      /\ \A s \in Sid : /\ entry[s] = "absent" => kept[s] = {}
                        /\ entry[s] = "lapsed" => s \in disturbed
      /\ phase \in [Request -> Phases]
      /\ sid \in [Request -> Some]
  BY DEF DataInv, DataTypes, AbsentIsEmpty, EndedInv, Types
<1>1. /\ UNCHANGED <<used, data, changed, destroyed, saves, acked, ended>>
      /\ Waived' = Waived /\ disturbed \subseteq disturbed'
  BY DEF Cleanup, Lapse, Send, HandlerThrows, vars, storeVars, ownVars, callVars, pastVars,
         historyVars, Waived
<1>2. /\ DOMAIN kept' = Sid
      /\ \A s \in Sid : /\ entry'[s] = "absent" => kept'[s] = {}
                        /\ entry'[s] = "lapsed" => s \in disturbed'
                        /\ s \notin disturbed' => kept'[s] = kept[s]
  BY <1>0, <1>1
     DEF Cleanup, Lapse, Send, HandlerThrows, vars, storeVars, ownVars, callVars, pastVars,
         historyVars
<1>3. \A r \in Request : \/ phase'[r] = phase[r] /\ sid'[r] = sid[r]
                         \/ phase[r] = "new" /\ phase'[r] = "sent"
                         \/ phase'[r] = "done"
  BY <1>0 DEF Cleanup, Lapse, Send, HandlerThrows, vars, storeVars, ownVars, callVars, pastVars,
         historyVars
<1> QED
  BY <1>1, <1>2, <1>3, StillStep DEF Sound

\* What a response reported is still in the store, unless it was deleted, for
\* every session that neither lapsed nor was shared, ended or the key of a
\* failing command.
THEOREM NothingLostHolds == Spec => []NothingLost
<1>1. Init => DataInv
  BY SessionAssumption DEF Init, DataInv, DataTypes, AbsentIsEmpty, UnusedIsSilent, NewIsEmpty, HolderKnows,
         UnchangedIsKept, Kept, NothingLost, SessionAssumption
<1>2. EndedInv /\ DataInv /\ [Next]_vars => DataInv'
  BY LoadKnows, LoadNothingKnows, WriteKnows, RegenerateKnows, EndKnows, SaveKnows,
     SaveEndsKnows, RespondKnows, QuietKnows DEF Next
<1>3. DataInv => NothingLost
  BY DEF DataInv
<1> QED
  BY <1>1, <1>2, <1>3, EndedInvHolds, PTL DEF Spec

------------------------------------------------------------------------------
\* What is in flight between instances.  Of an instance: what it broadcast locally,
\* what waits to be handled, what waits to reach Redis, and what it has or will get.
Envelope == [payload : Payload, from : Instance]

HeardSet(i) == {heard[i][n] : n \in DOMAIN heard[i]}
InSet(i) == {inbox[i][n].payload : n \in DOMAIN inbox[i]}
OutSet(i) == {outbox[i][n].payload : n \in DOMAIN outbox[i]}
Stream(i) == HeardSet(i) \cup InSet(i)

\* The types of what the argument is about.
BridgeTypes ==
  /\ subs \in [Instance -> Nat] /\ hooks \in [Instance -> Nat]
  /\ missed \in [Instance -> 0..Len(order)]
  /\ outbox \in [Instance -> Seq(Envelope)] /\ inbox \in [Instance -> Seq(Envelope)]
  /\ heard \in [Instance -> Seq(Payload)]
  /\ origin \in [Payload -> Instance \cup {Bridge!None}] /\ order \in Seq(Payload)
  /\ published \in 0..MaxPublishes

\* The order of the broadcasts holds each message once, and the instance a message
\* comes from has heard it.
OrderSound ==
  /\ \A a, b \in DOMAIN order : order[a] = order[b] => a = b
  /\ \A p \in Payload : origin[p] # Bridge!None <=> \E a \in DOMAIN order : order[a] = p
  /\ \A i \in Instance, p \in Payload : origin[p] = i => p \in HeardSet(i)

\* Who publishes a message has heard it, and only broadcast messages are heard.
Sources ==
  \A i \in Instance :
    /\ \A n \in DOMAIN outbox[i] : outbox[i][n].from = i /\ outbox[i][n].payload \in HeardSet(i)
    /\ \A n \in DOMAIN inbox[i], j \in Instance :
         inbox[i][n].from = j => inbox[i][n].payload \in HeardSet(j)
    /\ \A p \in HeardSet(i) : origin[p] # Bridge!None

\* A message broadcast since the instance last subscribed; two messages of one
\* origin, the first broadcast earlier.
After(i, p) == \E a \in DOMAIN order : missed[i] < a /\ order[a] = p
Earlier(p, q) ==
  /\ origin[p] # Bridge!None /\ origin[p] = origin[q]
  /\ \E a, b \in DOMAIN order : a < b /\ order[a] = p /\ order[b] = q

\* A message that reached nobody and is nowhere on its way.
Dead(p) ==
  \A i \in Instance : p \notin OutSet(i) /\ p \notin InSet(i) /\ (p \in HeardSet(i) => i = origin[p])

\* A message that some subscriber was given.
Delivered(p) == \E i \in Instance : p \in InSet(i) \/ (p \in HeardSet(i) /\ i # origin[p])

\* Redis gives a message to all subscribers of that moment: what one has, all have.
Reach ==
  \A i \in Instance, p \in Payload :
    subs[i] > 0 /\ After(i, p) /\ Delivered(p) => p \in Stream(i)

\* What an instance still has to get is on its way from the origin itself.
Sent ==
  \A i, o \in Instance, p \in Payload :
    subs[i] > 0 /\ After(i, p) /\ origin[p] = o => p \in Stream(i) \/ p \in OutSet(o) \/ Dead(p)

\* On its way from the origin, no message is before an earlier one that an instance
\* still has to get.
OutOrder ==
  \A i, o \in Instance, p, q \in Payload :
    subs[i] > 0 /\ After(i, p) /\ Earlier(p, q) /\ origin[p] = o =>
      \A n \in DOMAIN outbox[o] : outbox[o][n].payload = q =>
        \/ p \in Stream(i) \/ Dead(p)
        \/ \E m \in DOMAIN outbox[o] : m < n /\ outbox[o][m].payload = p

\* Nor is it among what an instance was given and did not handle yet.
InOrder ==
  \A i \in Instance, p, q \in Payload :
    After(i, p) /\ Earlier(p, q) =>
      \A n \in DOMAIN inbox[i] : inbox[i][n].payload = q =>
        \/ p \in HeardSet(i) \/ Dead(p)
        \/ \E m \in DOMAIN inbox[i] : m < n /\ inbox[i][m].payload = p

\* A first occurrence of p, and none of q up to there.
Before(s, p, q) == \E m \in DOMAIN s : s[m] = p /\ \A k \in 1..m : s[k] # q

\* The first copy of the later message was heard after the earlier one.
HeardOrder ==
  \A i \in Instance, p, q \in Payload :
    After(i, p) /\ Earlier(p, q) /\ q \in HeardSet(i) =>
      Before(heard[i], p, q) \/ (Dead(p) /\ i # origin[p])


-----------------------------------------------------------------------------
\* A set of natural numbers has a least member.
LEMMA Least ==
  ASSUME NEW S \in SUBSET Nat, S # {}
  PROVE  \E n \in S : \A m \in S : n <= m
<1> DEFINE less == OpToRel(<, Nat)
<1>1. IsWellFoundedOn(less, Nat)
  BY NatLessThanWellFounded
<1>2. \A m, n \in Nat : m < n => <<m, n>> \in less
  BY DEF OpToRel
<1> HIDE DEF less
<1>3. PICK n \in S : \A m \in S : ~ (<<m, n>> \in less)
  BY <1>1, WFMin
<1>4. ASSUME NEW m \in S PROVE n <= m
  <2>1. m \in Nat /\ n \in Nat /\ ~ (<<m, n>> \in less)
    BY <1>3
  <2>2. ~ (m < n)
    BY <1>2, <2>1, Zenon
  <2> QED
    BY <2>1, <2>2
<1> QED
  BY <1>4

\* What FirstIndex returns: the first position of a member of the sequence.
LEMMA FirstIndexIsFirst ==
  ASSUME NEW s \in Seq(Payload), NEW n \in DOMAIN s
  PROVE  LET f == Bridge!FirstIndex(s, s[n]) IN
         f \in DOMAIN s /\ s[f] = s[n] /\ \A k \in 1..(f - 1) : s[k] # s[n]
<1> DEFINE S == {m \in DOMAIN s : s[m] = s[n]}
<1>1. S \in SUBSET Nat /\ S # {}
  OBVIOUS
<1>2. PICK f \in S : \A m \in S : f <= m
  BY <1>1, Least
<1>3. f \in DOMAIN s /\ s[f] = s[n] /\ \A k \in 1..(f - 1) : s[k] # s[n]
  <2>1. ASSUME NEW k \in 1..(f - 1), s[k] = s[n] PROVE FALSE
    <3>1. k \in DOMAIN s /\ k < f /\ k \in Nat /\ f \in Nat
      OBVIOUS
    <3>2. k \in S
      BY <2>1, <3>1
    <3> QED
      BY <1>2, <3>1, <3>2
  <2> QED
    BY <2>1
<1> QED
  BY <1>3 DEF Bridge!FirstIndex

\* Whoever was there for a message was there for what came later.
LEMMA AfterLater ==
  ASSUME BridgeTypes, OrderSound, NEW i \in Instance, NEW p \in Payload, NEW q \in Payload,
         After(i, p), Earlier(p, q)
  PROVE  After(i, q)
<1>1. PICK a \in DOMAIN order : missed[i] < a /\ order[a] = p
  BY DEF After
<1>2. PICK c \in DOMAIN order, b \in DOMAIN order : c < b /\ order[c] = p /\ order[b] = q
  BY DEF Earlier
<1>3. a = c
  BY <1>1, <1>2 DEF OrderSound
<1>4. missed[i] \in Nat /\ a \in Nat /\ b \in Nat
  BY DEF BridgeTypes
<1>5. missed[i] < b
  BY <1>1, <1>2, <1>3, <1>4
<1> QED
  BY <1>2, <1>5 DEF After

\* The inductive invariant.
BridgeInv ==
  /\ BridgeTypes /\ OrderSound /\ Sources
  /\ Reach /\ Sent /\ OutOrder /\ InOrder /\ HeardOrder

\* An order of first copies outlives what is appended.
LEMMA BeforeStays ==
  ASSUME NEW s \in Seq(Payload), NEW x \in Payload, NEW p, NEW q,
         Before(s, p, q) \/ \E m \in DOMAIN s : s[m] = p /\ \A k \in DOMAIN s : s[k] # q
  PROVE  Before(Append(s, x), p, q)
<1>1. PICK m \in DOMAIN s : s[m] = p /\ \A k \in 1..m : s[k] # q
  BY DEF Before
<1>2. DOMAIN s = 1..Len(s) /\ Len(s) \in Nat
  OBVIOUS
<1>3. \A k \in 1..m : k \in DOMAIN s /\ Append(s, x)[k] = s[k]
  BY <1>2
<1>4. m \in DOMAIN Append(s, x) /\ m \in 1..m
  BY <1>2
<1> QED
  BY <1>1, <1>3, <1>4 DEF Before

\* A broadcast: heard here, and copies of it at the end of the outbox.
Published(i, x, copies) ==
  /\ copies \in Seq(Envelope) /\ outbox' = [outbox EXCEPT ![i] = @ \o copies]
  /\ \A n \in DOMAIN copies : copies[n].payload = x /\ copies[n].from = i
  /\ published' \in 0..MaxPublishes

\* broadcast() is heard locally and publishes copies, as many as the bound leaves.
LEMMA BroadcastPublishes ==
  ASSUME BridgeTypes, NEW i \in Instance, NEW x \in Payload, NEW rest,
         Bridge!Broadcast(i, x, rest)
  PROVE  /\ \E copies : Published(i, x, copies)
         /\ heard' = [heard EXCEPT ![i] = Append(@, x)] /\ inbox' = rest
<1> DEFINE new == Bridge!Copies(i, x)
           room == MaxPublishes - published
           copies == SubSeq(new, 1, IF Len(new) <= room THEN Len(new) ELSE room)
<1>1. /\ heard' = [heard EXCEPT ![i] = Append(@, x)] /\ inbox' = rest
      /\ outbox' = [outbox EXCEPT ![i] = @ \o copies] /\ published' = published + Len(copies)
  BY DEF Bridge!Broadcast
<1>2. /\ new \in Seq(Envelope) /\ Len(new) \in Nat /\ DOMAIN new = 1..Len(new)
      /\ \A n \in DOMAIN new : new[n].payload = x /\ new[n].from = i
  <2>1. [payload |-> x, from |-> i] \in Envelope
    BY DEF Envelope
  <2>2. hooks[i] \in Nat
    BY DEF BridgeTypes
  <2> QED
    BY <2>1, <2>2 DEF Bridge!Copies
<1>3. room \in Nat /\ published \in Nat /\ MaxPublishes \in Nat
  BY BridgeAssumption DEF BridgeAssumption, BridgeTypes
<1> HIDE DEF new
<1>4. PICK l \in Nat : l = (IF Len(new) <= room THEN Len(new) ELSE room) /\ l <= Len(new) /\ l <= room
  <2>1. PICK j \in Nat, m \in Nat : j = Len(new) /\ m = room
    BY <1>2, <1>3
  <2>2. PICK l \in Nat : l = (IF j <= m THEN j ELSE m) /\ l <= j /\ l <= m
    <3>1. CASE j <= m
      BY <3>1
    <3>2. CASE ~ j <= m
      BY <3>2
    <3> QED
      BY <3>1, <3>2
  <2> QED
    BY <2>1, <2>2
<1>5. /\ copies \in Seq(Envelope) /\ Len(copies) = l
      /\ \A n \in DOMAIN copies : copies[n].payload = x /\ copies[n].from = i
  <2>1. copies = SubSeq(new, 1, l)
    BY <1>4
  <2>2. l \in Int /\ \A n \in 1..l : new[n] \in Envelope /\ n \in DOMAIN new
    <3>1. l \in Int /\ \A n \in 1..l : n \in DOMAIN new
      <4>1. PICK j \in Nat : j = Len(new) /\ l <= j
        BY <1>2, <1>4
      <4>2. \A n \in 1..l : n \in 1..j
        BY <4>1
      <4> QED
        BY <1>2, <4>1, <4>2
    <3>2. \A n \in DOMAIN new : new[n] \in Envelope
      BY <1>2
    <3> QED
      BY <3>1, <3>2
  <2>3. /\ SubSeq(new, 1, l) \in Seq(Envelope)
        /\ Len(SubSeq(new, 1, l)) = IF 1 <= l THEN l - 1 + 1 ELSE 0
        /\ \A n \in 1..(l - 1 + 1) : SubSeq(new, 1, l)[n] = new[1 + n - 1]
    BY <2>2, SubSeqProperties
  <2>4. copies \in Seq(Envelope) /\ Len(copies) = l
    BY <1>4, <2>1, <2>3
  <2>5. DOMAIN copies = 1..l
    BY <2>4
  <2>6. \A n \in 1..l : copies[n] = new[n] /\ n \in DOMAIN new
    <3>1. \A n \in 1..l : n \in 1..(l - 1 + 1) /\ 1 + n - 1 = n
      BY <1>4
    <3> QED
      BY <2>1, <2>2, <2>3, <3>1
  <2> HIDE DEF copies
  <2> QED
    BY <1>2, <2>4, <2>5, <2>6
<1>6. published' \in 0..MaxPublishes
  BY <1>1, <1>3, <1>4, <1>5
<1> HIDE DEF copies
<1> QED
  BY <1>1, <1>5, <1>6 DEF Published

\* The outbox of one instance grew by copies of one message, at its end.
OutboxGrows(i, x) ==
  /\ outbox' \in [Instance -> Seq(Envelope)]
  /\ \A j \in Instance : \A n \in DOMAIN outbox[j] :
       n \in DOMAIN outbox'[j] /\ outbox'[j][n] = outbox[j][n]
  /\ \A j \in Instance : \A n \in DOMAIN outbox'[j] :
       \/ n \in DOMAIN outbox[j]
       \/ /\ j = i /\ outbox'[j][n].payload = x /\ outbox'[j][n].from = i
          /\ \A m \in DOMAIN outbox[j] : m < n
  /\ outbox' = outbox \/ \E n \in DOMAIN outbox'[i] : outbox'[i][n].payload = x

\* Copies published are at the end of the outbox.
LEMMA PublishedGrows ==
  ASSUME BridgeTypes, NEW i \in Instance, NEW x \in Payload, NEW copies, Published(i, x, copies)
  PROVE  OutboxGrows(i, x)
<1>1. /\ copies \in Seq(Envelope) /\ outbox' = [outbox EXCEPT ![i] = @ \o copies]
      /\ \A n \in DOMAIN copies : copies[n].payload = x /\ copies[n].from = i
      /\ outbox \in [Instance -> Seq(Envelope)]
  BY DEF Published, BridgeTypes
<1>2. PICK s \in Seq(Envelope) : s = outbox[i]
  BY <1>1
<1>3. PICK t \in Seq(Envelope) : t = s \o copies
  <2>1. s \o copies \in Seq(Envelope)
    BY <1>1, ConcatProperties
  <2> QED
    BY <2>1
<1>4. /\ Len(t) = Len(s) + Len(copies)
      /\ \A n \in 1..(Len(s) + Len(copies)) : t[n] = IF n <= Len(s) THEN s[n] ELSE copies[n - Len(s)]
  BY <1>1, <1>3, ConcatProperties
<1>5. /\ Len(s) \in Nat /\ Len(copies) \in Nat /\ DOMAIN s = 1..Len(s)
      /\ DOMAIN copies = 1..Len(copies) /\ DOMAIN t = 1..Len(t)
  BY <1>1
<1>6. outbox' \in [Instance -> Seq(Envelope)] /\ outbox'[i] = t
      /\ \A j \in Instance : j # i => outbox'[j] = outbox[j]
  BY <1>1, <1>2, <1>3
<1>7. \A n \in DOMAIN s : n \in DOMAIN t /\ t[n] = s[n]
  BY <1>4, <1>5
<1>8. ASSUME NEW n \in DOMAIN t, n \notin DOMAIN s
      PROVE  t[n].payload = x /\ t[n].from = i /\ \A m \in DOMAIN s : m < n
  <2>1. n > Len(s) /\ n - Len(s) \in DOMAIN copies /\ n \in 1..(Len(s) + Len(copies))
    BY <1>4, <1>5, <1>8
  <2>2. t[n] = copies[n - Len(s)]
    BY <1>4, <1>5, <2>1
  <2>3. \A m \in DOMAIN s : m < n
    BY <1>5, <2>1
  <2> QED
    BY <1>1, <2>1, <2>2, <2>3
<1>9. outbox' = outbox \/ \E n \in DOMAIN t : t[n].payload = x
  <2>1. CASE copies = <<>>
    <3>1. t = s
      BY <1>3, <2>1, ConcatEmptySeq
    <3> QED
      BY <1>1, <1>2, <1>3, <3>1
  <2>2. CASE copies # <<>>
    <3>1. Len(s) + 1 \in DOMAIN t /\ Len(s) + 1 \notin DOMAIN s
      BY <1>1, <1>4, <1>5, <2>2
    <3> QED
      BY <1>8, <3>1
  <2> QED
    BY <2>1, <2>2
<1> QED
  BY <1>2, <1>6, <1>7, <1>8, <1>9 DEF OutboxGrows

\* What a growth of an outbox means for what it holds.
LEMMA OutboxGrown ==
  ASSUME NEW i \in Instance, NEW x \in Payload, OutboxGrows(i, x)
  PROVE  /\ \A j \in Instance : OutSet(j) \subseteq OutSet(j)'
         /\ \A j \in Instance : \A p \in OutSet(j)' : p \in OutSet(j) \/ (j = i /\ p = x)
         /\ outbox' = outbox \/ x \in OutSet(i)'
<1>1. ASSUME NEW j \in Instance PROVE OutSet(j) \subseteq OutSet(j)'
  <2> SUFFICES ASSUME NEW n \in DOMAIN outbox[j] PROVE outbox[j][n].payload \in OutSet(j)'
    BY DEF OutSet
  <2>1. n \in DOMAIN outbox'[j] /\ outbox'[j][n] = outbox[j][n]
    BY DEF OutboxGrows
  <2> QED
    BY <2>1 DEF OutSet
<1>2. ASSUME NEW j \in Instance, NEW p \in OutSet(j)'
      PROVE  p \in OutSet(j) \/ (j = i /\ p = x)
  <2>1. PICK n \in DOMAIN outbox'[j] : p = outbox'[j][n].payload
    BY <1>2 DEF OutSet
  <2>2. CASE n \in DOMAIN outbox[j]
    BY <2>1, <2>2 DEF OutboxGrows, OutSet
  <2>3. CASE n \notin DOMAIN outbox[j]
    BY <2>1, <2>3 DEF OutboxGrows
  <2> QED
    BY <2>2, <2>3
<1>3. outbox' = outbox \/ x \in OutSet(i)'
  BY DEF OutboxGrows, OutSet
<1> QED
  BY <1>1, <1>2, <1>3

\* One instance heard one message more.
HeardGrows(i, x) ==
  /\ heard' \in [Instance -> Seq(Payload)]
  /\ \A j \in Instance : HeardSet(j) \subseteq HeardSet(j)'
  /\ \A j \in Instance : \A p \in HeardSet(j)' : p \in HeardSet(j) \/ (j = i /\ p = x)
  /\ x \in HeardSet(i)'
  /\ \A j \in Instance : \A p, q :
       \/ Before(heard[j], p, q)
       \/ p \in HeardSet(j) /\ q \notin HeardSet(j)
       => Before(heard'[j], p, q)

\* A local broadcast is heard after all that was heard before.
LEMMA AppendedGrows ==
  ASSUME BridgeTypes, NEW i \in Instance, NEW x \in Payload,
         heard' = [heard EXCEPT ![i] = Append(@, x)]
  PROVE  HeardGrows(i, x)
<1>1. PICK s \in Seq(Payload) : s = heard[i]
  BY DEF BridgeTypes
<1>2. /\ heard' \in [Instance -> Seq(Payload)] /\ heard'[i] = Append(s, x)
      /\ \A j \in Instance : j # i => heard'[j] = heard[j]
  BY <1>1 DEF BridgeTypes
<1>3. /\ Len(s) \in Nat /\ DOMAIN s = 1..Len(s) /\ DOMAIN Append(s, x) = 1..(Len(s) + 1)
      /\ \A n \in DOMAIN s : n \in DOMAIN Append(s, x) /\ Append(s, x)[n] = s[n]
      /\ Append(s, x)[Len(s) + 1] = x
  OBVIOUS
<1>4. \A n \in DOMAIN Append(s, x) : n \in DOMAIN s \/ Append(s, x)[n] = x
  BY <1>3
<1>5. HeardSet(i) = {s[n] : n \in DOMAIN s} /\ HeardSet(i)' = {Append(s, x)[n] : n \in DOMAIN Append(s, x)}
  BY <1>1, <1>2 DEF HeardSet
<1>6. ASSUME NEW j \in Instance
      PROVE  /\ HeardSet(j) \subseteq HeardSet(j)'
             /\ \A p \in HeardSet(j)' : p \in HeardSet(j) \/ (j = i /\ p = x)
  <2>1. CASE j = i
    BY <1>3, <1>4, <1>5, <2>1
  <2>2. CASE j # i
    BY <1>2, <2>2 DEF HeardSet
  <2> QED
    BY <2>1, <2>2
<1>7. x \in HeardSet(i)'
  <2>1. Len(s) + 1 \in DOMAIN Append(s, x)
    BY <1>3
  <2> QED
    BY <1>3, <1>5, <2>1
<1>8. ASSUME NEW j \in Instance, NEW p, NEW q,
             Before(heard[j], p, q) \/ (p \in HeardSet(j) /\ q \notin HeardSet(j))
      PROVE  Before(heard'[j], p, q)
  <2>1. Before(heard[j], p, q) \/ \E m \in DOMAIN heard[j] :
                                    heard[j][m] = p /\ \A k \in DOMAIN heard[j] : heard[j][k] # q
    BY <1>8 DEF HeardSet
  <2>2. CASE j = i
    BY <1>1, <1>2, <2>1, <2>2, BeforeStays
  <2>3. CASE j # i
    <3>1. ASSUME NEW m \in DOMAIN heard[j] PROVE 1..m \subseteq DOMAIN heard[j]
      BY SMTT(30) DEF BridgeTypes
    <3> QED
      BY <1>2, <2>1, <2>3, <3>1 DEF Before
  <2> QED
    BY <2>2, <2>3
<1> QED
  BY <1>2, <1>6, <1>7, <1>8 DEF HeardGrows

\* A step that neither broadcasts nor carries anything: at most it forgets a
\* subscription, or notes that an instance was not there before.
LEMMA QuietBridge ==
  ASSUME BridgeInv, subs' \in [Instance -> Nat], hooks' \in [Instance -> Nat],
         missed' \in [Instance -> 0..Len(order)],
         UNCHANGED <<outbox, inbox, origin, order, heard, published>>,
         \A i \in Instance : \/ missed'[i] = Len(order)
                             \/ missed'[i] = missed[i] /\ (subs'[i] > 0 => subs[i] > 0)
  PROVE  BridgeInv'
<1>1. BridgeTypes' /\ OrderSound' /\ Sources'
  BY DEF BridgeInv, BridgeTypes, OrderSound, Sources, HeardSet
<1>2. ASSUME NEW i \in Instance, NEW p \in Payload, After(i, p)'
      PROVE  After(i, p) /\ (subs'[i] > 0 => subs[i] > 0)
  <2>1. PICK a \in DOMAIN order : missed'[i] < a /\ order[a] = p
    BY <1>2 DEF After
  <2>2. a \in 1..Len(order) /\ Len(order) \in Nat
    BY DEF BridgeInv, BridgeTypes
  <2>3. missed'[i] # Len(order)
    BY <2>1, <2>2
  <2> QED
    BY <2>1, <2>3 DEF After
<1>3. /\ \A i \in Instance : /\ Stream(i)' = Stream(i) /\ HeardSet(i)' = HeardSet(i)
                             /\ OutSet(i)' = OutSet(i)
      /\ \A p \in Payload : (Dead(p)' <=> Dead(p)) /\ (Delivered(p)' <=> Delivered(p))
      /\ \A p, q \in Payload : Earlier(p, q)' <=> Earlier(p, q)
  BY DEF Stream, HeardSet, InSet, OutSet, Dead, Delivered, Earlier
<1>4. Reach'
  BY <1>2, <1>3 DEF BridgeInv, Reach
<1>5. Sent'
  BY <1>2, <1>3 DEF BridgeInv, Sent
<1>6. OutOrder'
  <2> SUFFICES ASSUME NEW i \in Instance, NEW o \in Instance, NEW p \in Payload, NEW q \in Payload,
                      subs'[i] > 0, After(i, p)', Earlier(p, q)', origin[p] = o,
                      NEW n \in DOMAIN outbox[o], outbox[o][n].payload = q
               PROVE  \/ p \in Stream(i)' \/ Dead(p)'
                      \/ \E m \in DOMAIN outbox[o] : m < n /\ outbox[o][m].payload = p
    BY DEF OutOrder
  <2> QED
    BY <1>2, <1>3 DEF BridgeInv, OutOrder
<1>7. InOrder' /\ HeardOrder'
  BY <1>2, <1>3 DEF BridgeInv, InOrder, HeardOrder
<1> QED
  BY <1>1, <1>4, <1>5, <1>6, <1>7 DEF BridgeInv

\* connect() and disconnect() move no message.
LEMMA ConnectionKeeps ==
  ASSUME BridgeInv, NEW i \in Instance,
         \/ Bridge!Connect(i) \/ Bridge!Subscribed(i) \/ Bridge!ConnectFails(i)
         \/ Bridge!Disconnect(i)
  PROVE  BridgeInv'
<1>1. /\ subs \in [Instance -> Nat] /\ hooks \in [Instance -> Nat]
      /\ missed \in [Instance -> 0..Len(order)] /\ Len(order) \in Nat
  BY DEF BridgeInv, BridgeTypes
<1>2. CASE Bridge!Connect(i) \/ Bridge!ConnectFails(i)
  BY <1>1, <1>2, QuietBridge DEF Bridge!Connect, Bridge!ConnectFails
<1>3. CASE Bridge!Subscribed(i)
  <2>1. /\ subs' = [subs EXCEPT ![i] = @ + 1] /\ hooks' = [hooks EXCEPT ![i] = @ + 1]
        /\ missed' = [missed EXCEPT ![i] = Len(order)]
        /\ UNCHANGED <<outbox, inbox, origin, order, heard, published>>
    BY <1>3 DEF Bridge!Subscribed
  <2>2. Len(order) \in 0..Len(order)
    BY <1>1
  <2>3. /\ subs' \in [Instance -> Nat] /\ hooks' \in [Instance -> Nat]
        /\ missed' \in [Instance -> 0..Len(order)]
    BY <1>1, <2>1, <2>2
  <2>4. \A j \in Instance : \/ missed'[j] = Len(order)
                            \/ missed'[j] = missed[j] /\ (subs'[j] > 0 => subs[j] > 0)
    BY <1>1, <2>1
  <2> QED
    BY <2>1, <2>3, <2>4, QuietBridge
<1>4. CASE Bridge!Disconnect(i)
  <2>1. /\ subs' = [subs EXCEPT ![i] = IF @ = 0 THEN 0 ELSE @ - 1]
        /\ UNCHANGED <<hooks, missed, outbox, inbox, origin, order, heard, published>>
    BY <1>4 DEF Bridge!Disconnect
  <2>2. PICK n \in Nat : n = (IF subs[i] = 0 THEN 0 ELSE subs[i] - 1)
    BY <1>1
  <2>3. subs' = [subs EXCEPT ![i] = n] /\ (n > 0 => subs[i] > 0)
    BY <1>1, <2>1, <2>2
  <2>4. subs' \in [Instance -> Nat] /\ \A j \in Instance : subs'[j] > 0 => subs[j] > 0
    BY <1>1, <2>3
  <2> QED
    BY <1>1, <2>1, <2>4, QuietBridge
<1> QED
  BY <1>2, <1>3, <1>4

\* What an application broadcasts is new: no place holds it yet.
LEMMA AppBroadcastKeeps ==
  ASSUME BridgeInv, NEW i \in Instance, NEW x \in Payload,
         Bridge!AppBroadcast(i, x)
  PROVE  BridgeInv'
<1>1. /\ BridgeTypes /\ OrderSound /\ Sources /\ Reach /\ Sent /\ OutOrder /\ InOrder /\ HeardOrder
      /\ origin[x] = Bridge!None /\ origin' = [origin EXCEPT ![x] = i] /\ order' = Append(order, x)
      /\ UNCHANGED <<subs, hooks, missed>> /\ i # Bridge!None
  BY BridgeAssumption DEF BridgeInv, Bridge!AppBroadcast, Bridge!connVars, BridgeAssumption
<1>2. /\ heard' = [heard EXCEPT ![i] = Append(@, x)] /\ inbox' = inbox
      /\ OutboxGrows(i, x) /\ published' \in 0..MaxPublishes
  <2>1. Bridge!Broadcast(i, x, inbox)
    BY DEF Bridge!AppBroadcast
  <2>2. PICK copies : Published(i, x, copies)
    BY <1>1, <2>1, BroadcastPublishes, SMTT(30)
  <2>3. OutboxGrows(i, x) /\ published' \in 0..MaxPublishes
    <3>1. OutboxGrows(i, x)
      BY <1>1, <2>2, PublishedGrows
    <3> QED
      BY <2>2, <3>1 DEF Published
  <2> QED
    BY <1>1, <2>1, <2>3, BroadcastPublishes
<1>3. HeardGrows(i, x)
  BY <1>1, <1>2, AppendedGrows
<1>4. PICK L \in Nat : L = Len(order) /\ DOMAIN order = 1..L /\ order \in Seq(Payload)
  BY <1>1 DEF BridgeTypes
<1>5. /\ order' \in Seq(Payload) /\ Len(order') = L + 1 /\ DOMAIN order' = 1..(L + 1)
      /\ order'[L + 1] = x /\ \A a \in DOMAIN order : order'[a] = order[a] /\ a < L + 1
      /\ \A a \in DOMAIN order' : a = L + 1 \/ a \in DOMAIN order
  BY <1>1, <1>4
<1>6. \A a \in DOMAIN order : order[a] # x
  BY <1>1 DEF OrderSound
<1>7. \A j \in Instance : x \notin HeardSet(j) /\ x \notin InSet(j) /\ x \notin OutSet(j)
  <2>1. \A j \in Instance : x \notin HeardSet(j)
    BY <1>1 DEF Sources
  <2>2. ASSUME NEW j \in Instance PROVE x \notin InSet(j) /\ x \notin OutSet(j)
    <3>1. \A n \in DOMAIN inbox[j] : inbox[j][n].from \in Instance
      <4>1. \A n \in DOMAIN inbox[j] : inbox[j][n] \in Envelope
        BY <1>1 DEF BridgeTypes
      <4> QED
        BY <4>1 DEF Envelope
    <3> QED
      BY <1>1, <2>1, <3>1 DEF Sources, InSet, OutSet
  <2> QED
    BY <2>1, <2>2
<1>8. /\ \A j \in Instance : InSet(j)' = InSet(j) /\ Stream(j) \subseteq Stream(j)'
      /\ \A j \in Instance : HeardSet(j) \subseteq HeardSet(j)'
      /\ \A j \in Instance : \A p \in HeardSet(j)' : p \in HeardSet(j) \/ (j = i /\ p = x)
      /\ x \in HeardSet(i)'
  BY <1>2, <1>3 DEF HeardGrows, InSet, Stream
<1>9. /\ \A j \in Instance : OutSet(j) \subseteq OutSet(j)'
      /\ \A j \in Instance : \A p \in OutSet(j)' : p \in OutSet(j) \/ (j = i /\ p = x)
      /\ outbox' = outbox \/ x \in OutSet(i)'
  BY <1>2, OutboxGrown
<1>10. origin'[x] = i /\ \A p \in Payload : p # x => origin'[p] = origin[p]
  BY <1>1 DEF BridgeTypes
<1>11. \A p \in Payload : Dead(p) /\ p # x => Dead(p)'
  BY <1>8, <1>9, <1>10 DEF Dead
<1>12. ~ Delivered(x)' /\ \A p \in Payload : p # x /\ Delivered(p)' => Delivered(p)
  BY <1>7, <1>8, <1>10 DEF Delivered
<1>13. \A j \in Instance, p \in Payload : p # x /\ After(j, p)' => After(j, p)
  BY <1>1, <1>5 DEF After
<1>14. ASSUME NEW p \in Payload, NEW q \in Payload, Earlier(p, q)'
       PROVE  /\ p # x /\ origin'[p] = origin[p]
              /\ q # x => Earlier(p, q) 
              /\ q = x => origin[p] = i
  <2>1. PICK a \in DOMAIN order', b \in DOMAIN order' : a < b /\ order'[a] = p /\ order'[b] = q
    BY <1>14 DEF Earlier
  <2>2. a \in DOMAIN order
    BY <1>4, <1>5, <2>1
  <2>3. p # x /\ order[a] = p
    BY <1>5, <1>6, <2>1, <2>2
  <2>4. origin'[p] # Bridge!None /\ origin'[p] = origin'[q] /\ origin'[p] = origin[p]
    BY <1>10, <1>14, <2>3, SMTT(30) DEF Earlier
  <2>5. CASE q = x
    BY <1>10, <2>3, <2>4, <2>5
  <2>6. CASE q # x
    <3>1. b \in DOMAIN order /\ order[b] = q
      BY <1>5, <2>1, <2>6
    <3> QED
      BY <1>10, <2>1, <2>2, <2>3, <2>4, <2>6, <3>1, ZenonT(30) DEF Earlier
  <2> QED
    BY <2>3, <2>4, <2>5, <2>6
<1>15. BridgeTypes'
  <2>1. origin' \in [Payload -> Instance \cup {Bridge!None}]
    BY <1>1 DEF BridgeTypes
  <2>2. missed' \in [Instance -> 0..Len(order')]
    BY <1>1, <1>4, <1>5 DEF BridgeTypes
  <2> QED
    BY <1>1, <1>2, <1>3, <1>5, <2>1, <2>2 DEF BridgeTypes, OutboxGrows, HeardGrows
<1>16. OrderSound'
  <2>1. \A a, b \in DOMAIN order' : order'[a] = order'[b] => a = b
    BY <1>1, <1>5, <1>6 DEF OrderSound
  <2>2. \A p \in Payload : origin'[p] # Bridge!None <=> \E a \in DOMAIN order' : order'[a] = p
    <3>1. L + 1 \in DOMAIN order' /\ DOMAIN order \subseteq DOMAIN order'
      BY <1>4, <1>5
    <3> QED
      BY <1>1, <1>5, <1>6, <1>10, <3>1 DEF OrderSound
  <2>3. ASSUME NEW j \in Instance, NEW p \in Payload, origin'[p] = j PROVE p \in HeardSet(j)'
    BY <1>1, <1>8, <1>10, <2>3 DEF OrderSound
  <2> QED
    BY <2>1, <2>2, <2>3 DEF OrderSound
<1>17. Sources'
  <2> SUFFICES ASSUME NEW j \in Instance
               PROVE  /\ \A n \in DOMAIN outbox'[j] :
                           outbox'[j][n].from = j /\ outbox'[j][n].payload \in HeardSet(j)'
                      /\ \A n \in DOMAIN inbox[j], k \in Instance :
                           inbox[j][n].from = k => inbox[j][n].payload \in HeardSet(k)'
                      /\ \A p \in HeardSet(j)' : origin'[p] # Bridge!None
    BY <1>2 DEF Sources
  <2>1. ASSUME NEW n \in DOMAIN outbox'[j]
        PROVE  outbox'[j][n].from = j /\ outbox'[j][n].payload \in HeardSet(j)'
    <3>1. CASE n \in DOMAIN outbox[j]
      <4>1. outbox'[j][n] = outbox[j][n]
        BY <1>2, <3>1 DEF OutboxGrows
      <4>2. outbox[j][n].from = j /\ outbox[j][n].payload \in HeardSet(j)
        BY <1>1, <3>1 DEF Sources
      <4> QED
        BY <1>8, <4>1, <4>2
    <3>2. CASE n \notin DOMAIN outbox[j]
      BY <1>2, <1>8, <3>2 DEF OutboxGrows
    <3> QED
      BY <3>1, <3>2
  <2>2. ASSUME NEW n \in DOMAIN inbox[j], NEW k \in Instance, inbox[j][n].from = k
        PROVE  inbox[j][n].payload \in HeardSet(k)'
    <3>1. inbox[j][n].payload \in HeardSet(k)
      BY <1>1, <2>2 DEF Sources
    <3> QED
      BY <1>8, <3>1
  <2>3. ASSUME NEW p \in HeardSet(j)' PROVE origin'[p] # Bridge!None
    <3>1. p \in Payload
      BY <1>3, <2>3 DEF HeardGrows, HeardSet
    <3>2. CASE p \in HeardSet(j)
      BY <1>1, <1>10, <3>1, <3>2 DEF Sources
    <3>3. CASE p \notin HeardSet(j)
      BY <1>1, <1>8, <1>10, <2>3, <3>3
    <3> QED
      BY <3>2, <3>3
  <2> QED
    BY <2>1, <2>2, <2>3
<1>18. Reach'
  <2> SUFFICES ASSUME NEW j \in Instance, NEW p \in Payload, subs[j] > 0, After(j, p)', Delivered(p)'
               PROVE  p \in Stream(j)'
    BY <1>1 DEF Reach
  <2>1. p # x /\ Delivered(p) /\ After(j, p)
    BY <1>12, <1>13
  <2> QED
    BY <1>1, <1>8, <2>1 DEF Reach
<1>19. Sent'
  <2> SUFFICES ASSUME NEW j \in Instance, NEW o \in Instance, NEW p \in Payload,
                      subs[j] > 0, After(j, p)', origin'[p] = o
               PROVE  p \in Stream(j)' \/ p \in OutSet(o)' \/ Dead(p)'
    BY <1>1 DEF Sent
  <2>1. CASE p = x
    <3>1. o = i
      BY <1>10, <2>1
    <3>2. CASE outbox' = outbox
      <4>1. \A k \in Instance : OutSet(k)' = OutSet(k)
        BY <3>2 DEF OutSet
      <4> QED
        BY <1>7, <1>8, <1>10, <2>1, <4>1 DEF Dead
    <3> QED
      BY <1>9, <2>1, <3>1, <3>2
  <2>2. CASE p # x
    <3>1. p \in Stream(j) \/ p \in OutSet(o) \/ Dead(p)
      BY <1>1, <1>10, <1>13, <2>2 DEF Sent
    <3> QED
      BY <1>8, <1>9, <1>11, <2>2, <3>1
  <2> QED
    BY <2>1, <2>2
<1>20. OutOrder'
  <2> SUFFICES ASSUME NEW j \in Instance, NEW o \in Instance, NEW p \in Payload, NEW q \in Payload,
                      subs[j] > 0, After(j, p)', Earlier(p, q)', origin'[p] = o,
                      NEW n \in DOMAIN outbox'[o], outbox'[o][n].payload = q
               PROVE  \/ p \in Stream(j)' \/ Dead(p)'
                      \/ \E m \in DOMAIN outbox'[o] : m < n /\ outbox'[o][m].payload = p
    BY <1>1 DEF OutOrder
  <2>1. p # x /\ origin[p] = o /\ After(j, p)
    BY <1>13, <1>14
  <2>2. CASE q = x
    <3>1. o = i
      BY <1>14, <2>1, <2>2
    <3>2. n \notin DOMAIN outbox[o]
      <4>1. CASE n \in DOMAIN outbox[o]
        <5>1. outbox[o][n].payload = x
          BY <1>2, <2>2, <4>1 DEF OutboxGrows
        <5> QED
          BY <1>7, <4>1, <5>1 DEF OutSet
      <4> QED
        BY <4>1
    <3>3. p \in Stream(j) \/ p \in OutSet(o) \/ Dead(p)
      BY <1>1, <2>1 DEF Sent
    <3>4. CASE p \in OutSet(o)
      <4>1. PICK m \in DOMAIN outbox[o] : outbox[o][m].payload = p
        BY <3>4 DEF OutSet
      <4>2. m \in DOMAIN outbox'[o] /\ outbox'[o][m].payload = p /\ m < n
        BY <1>2, <3>2, <4>1 DEF OutboxGrows
      <4> QED
        BY <4>2
    <3> QED
      BY <1>8, <1>11, <2>1, <3>3, <3>4
  <2>3. CASE q # x
    <3>1. n \in DOMAIN outbox[o] /\ outbox[o][n].payload = q
      BY <1>2, <2>3 DEF OutboxGrows
    <3>2. \/ p \in Stream(j) \/ Dead(p)
          \/ \E m \in DOMAIN outbox[o] : m < n /\ outbox[o][m].payload = p
      BY <1>1, <1>14, <2>1, <2>3, <3>1 DEF OutOrder
    <3>3. \A m \in DOMAIN outbox[o] : m \in DOMAIN outbox'[o] /\ outbox'[o][m] = outbox[o][m]
      BY <1>2 DEF OutboxGrows
    <3> QED
      BY <1>8, <1>11, <2>1, <3>2, <3>3
  <2> QED
    BY <2>2, <2>3
<1>21. InOrder'
  <2> SUFFICES ASSUME NEW j \in Instance, NEW p \in Payload, NEW q \in Payload,
                      After(j, p)', Earlier(p, q)',
                      NEW n \in DOMAIN inbox[j], inbox[j][n].payload = q
               PROVE  \/ p \in HeardSet(j)' \/ Dead(p)'
                      \/ \E m \in DOMAIN inbox[j] : m < n /\ inbox[j][m].payload = p
    BY <1>2 DEF InOrder
  <2>1. q # x
    BY <1>7 DEF InSet
  <2>2. p # x /\ Earlier(p, q) /\ After(j, p)
    BY <1>13, <1>14, <2>1
  <2>3. \/ p \in HeardSet(j) \/ Dead(p)
        \/ \E m \in DOMAIN inbox[j] : m < n /\ inbox[j][m].payload = p
    BY <1>1, <2>2 DEF InOrder
  <2> QED
    BY <1>8, <1>11, <2>2, <2>3
<1>22. HeardOrder'
  <2> SUFFICES ASSUME NEW j \in Instance, NEW p \in Payload, NEW q \in Payload,
                      After(j, p)', Earlier(p, q)', q \in HeardSet(j)'
               PROVE  Before(heard'[j], p, q) \/ (Dead(p)' /\ j # origin'[p])
    BY DEF HeardOrder, Before
  <2>1. p # x /\ origin'[p] = origin[p] /\ After(j, p)
    BY <1>13, <1>14
  <2>2. CASE q = x
    <3>1. j = i /\ origin[p] = i /\ q \notin HeardSet(j)
      BY <1>7, <1>8, <1>14, <2>2
    <3>2. p \in HeardSet(j)
      BY <1>1, <3>1 DEF OrderSound
    <3> QED
      BY <1>3, <3>1, <3>2 DEF HeardGrows
  <2>3. CASE q # x
    <3>1. Before(heard[j], p, q) \/ (Dead(p) /\ j # origin[p])
      BY <1>1, <1>8, <1>14, <2>1, <2>3 DEF HeardOrder
    <3> QED
      BY <1>3, <1>11, <2>1, <3>1 DEF HeardGrows
  <2> QED
    BY <2>2, <2>3
<1> QED
  BY <1>15, <1>16, <1>17, <1>18, <1>19, <1>20, <1>21, <1>22 DEF BridgeInv

\* A message handled: what it carries has been heard here, now or before, and
\* copies of it may follow in the outbox.
LEMMA ReceiveKeeps ==
  ASSUME BridgeInv, NEW i \in Instance, Bridge!Receive(i)
  PROVE  BridgeInv'
<1>1. /\ BridgeTypes /\ OrderSound /\ Sources /\ Reach /\ Sent /\ OutOrder /\ InOrder /\ HeardOrder
      /\ UNCHANGED <<subs, hooks, missed, origin, order>> /\ inbox[i] # <<>>
  BY DEF BridgeInv, Bridge!Receive, Bridge!connVars
<1>2. PICK s \in Seq(Envelope) : s = inbox[i] /\ s # <<>>
  BY <1>1 DEF BridgeTypes
<1>3. PICK e \in Envelope : e = Head(s) /\ e = s[1]
  BY <1>2
<1>4. PICK x \in Payload : x = e.payload
  BY DEF Envelope
<1>5. e.from \in Instance
  BY DEF Envelope
<1>6. /\ Len(s) \in Nat /\ DOMAIN s = 1..Len(s) /\ 1 \in DOMAIN s
      /\ Tail(s) \in Seq(Envelope) /\ DOMAIN Tail(s) = 1..(Len(s) - 1)
      /\ \A n \in DOMAIN Tail(s) : n \in Nat /\ n + 1 \in DOMAIN s /\ Tail(s)[n] = s[n + 1]
      /\ \A n \in DOMAIN s : n = 1 \/ (n - 1 \in DOMAIN Tail(s) /\ Tail(s)[n - 1] = s[n])
  <2>1. Len(s) \in Nat /\ Len(s) >= 1 /\ DOMAIN s = 1..Len(s)
    BY <1>2
  <2>2. /\ Tail(s) \in Seq(Envelope) /\ Len(Tail(s)) = Len(s) - 1
        /\ \A n \in 1..Len(Tail(s)) : Tail(s)[n] = s[n + 1]
    BY <1>2, HeadTailProperties
  <2>3. DOMAIN Tail(s) = 1..(Len(s) - 1)
    BY <2>2
  <2> QED
    BY <2>1, <2>2, <2>3
<1>7. x \in InSet(i) /\ \A n \in DOMAIN s : s[n].payload \in InSet(i)
  BY <1>2, <1>3, <1>4, <1>6 DEF InSet
<1>8. inbox' = [inbox EXCEPT ![i] = Tail(@)]
  <2>1. CASE e.from = i
    BY <1>2, <1>3, <2>1 DEF Bridge!Receive
  <2>2. CASE e.from # i
    BY <1>2, <1>3, <2>2 DEF Bridge!Receive, Bridge!Broadcast
  <2> QED
    BY <2>1, <2>2
<1>9. /\ inbox' \in [Instance -> Seq(Envelope)] /\ inbox'[i] = Tail(s)
      /\ \A j \in Instance : j # i => inbox'[j] = inbox[j]
  BY <1>1, <1>2, <1>6, <1>8 DEF BridgeTypes
<1>10. /\ heard' \in [Instance -> Seq(Payload)] /\ x \in HeardSet(i)'
       /\ \A j \in Instance : HeardSet(j) \subseteq HeardSet(j)'
       /\ \A j \in Instance : \A p \in HeardSet(j)' : p \in HeardSet(j) \/ (j = i /\ p = x)
       /\ \A j \in Instance : \A p, q :
            Before(heard[j], p, q) \/ (p \in HeardSet(j) /\ q \notin HeardSet(j) /\ q \in HeardSet(j)')
              => Before(heard'[j], p, q)
       /\ published' \in 0..MaxPublishes
       /\ OutboxGrows(i, x) \/ outbox' = outbox
  <2>1. CASE e.from = i
    <3>1. UNCHANGED <<outbox, heard, published>>
      BY <1>2, <1>3, <2>1 DEF Bridge!Receive
    <3>2. x \in HeardSet(i)
      BY <1>1, <1>2, <1>3, <1>4, <1>6, <2>1 DEF Sources
    <3> QED
      BY <1>1, <3>1, <3>2 DEF BridgeTypes, HeardSet
  <2>2. CASE e.from # i
    <3>1. PICK rest : Bridge!Broadcast(i, x, rest)
      BY <1>2, <1>3, <1>4, <2>2 DEF Bridge!Receive
    <3>2. PICK copies : Published(i, x, copies)
      BY <1>1, <3>1, BroadcastPublishes
    <3>3. OutboxGrows(i, x) /\ published' \in 0..MaxPublishes
      BY <1>1, <3>2, PublishedGrows DEF Published
    <3>4. HeardGrows(i, x)
      BY <1>1, <3>1, BroadcastPublishes, AppendedGrows
    <3> QED
      BY <3>3, <3>4 DEF HeardGrows
  <2> QED
    BY <2>1, <2>2
<1>11. /\ \A j \in Instance : InSet(j)' \subseteq InSet(j)
       /\ \A j \in Instance : \A p \in InSet(j) : p \in InSet(j)' \/ (j = i /\ p = x)
  <2>1. ASSUME NEW j \in Instance, j # i PROVE InSet(j)' = InSet(j)
    BY <1>9, <2>1 DEF InSet
  <2>2. /\ InSet(i) = {s[n].payload : n \in DOMAIN s}
        /\ InSet(i)' = {Tail(s)[n].payload : n \in DOMAIN Tail(s)}
    BY <1>2, <1>9 DEF InSet
  <2>3. InSet(i)' \subseteq InSet(i)
    BY <1>6, <2>2
  <2>4. ASSUME NEW n \in DOMAIN s PROVE s[n].payload \in InSet(i)' \/ s[n].payload = x
    BY <1>3, <1>4, <1>6, <2>2
  <2> QED
    BY <2>1, <2>2, <2>3, <2>4
<1>12. \A j \in Instance : Stream(j) \subseteq Stream(j)'
  BY <1>10, <1>11 DEF Stream
<1>13. /\ \A j \in Instance : OutSet(j) \subseteq OutSet(j)'
       /\ \A j \in Instance : \A p \in OutSet(j)' : p \in OutSet(j) \/ (j = i /\ p = x)
  <2>1. CASE OutboxGrows(i, x)
    BY <2>1, OutboxGrown
  <2>2. CASE outbox' = outbox
    BY <2>2 DEF OutSet
  <2> QED
    BY <1>10, <2>1, <2>2
<1>14. \A p \in Payload : Dead(p) => Dead(p)'
  BY <1>1, <1>7, <1>10, <1>11, <1>13 DEF Dead
<1>15. \A p \in Payload : Delivered(p)' => Delivered(p)
  BY <1>1, <1>7, <1>10, <1>11 DEF Delivered
<1>16. /\ \A j \in Instance, p \in Payload : After(j, p)' <=> After(j, p)
       /\ \A p, q \in Payload : Earlier(p, q)' <=> Earlier(p, q)
  BY <1>1 DEF After, Earlier
<1>17. BridgeTypes'
  <2>1. outbox' \in [Instance -> Seq(Envelope)]
    BY <1>1, <1>10 DEF BridgeTypes, OutboxGrows
  <2> QED
    BY <1>1, <1>9, <1>10, <2>1 DEF BridgeTypes
<1>18. OrderSound'
  BY <1>1, <1>10 DEF OrderSound
<1>19. /\ \A j \in Instance : \A n \in DOMAIN outbox[j] :
            n \in DOMAIN outbox'[j] /\ outbox'[j][n] = outbox[j][n]
       /\ \A j \in Instance : \A n \in DOMAIN outbox'[j] :
            \/ n \in DOMAIN outbox[j]
            \/ /\ j = i /\ outbox'[j][n].payload = x /\ outbox'[j][n].from = i
               /\ \A m \in DOMAIN outbox[j] : m < n
  BY <1>10 DEF OutboxGrows
<1>20. Sources'
  <2>1. ASSUME NEW j \in Instance, NEW n \in DOMAIN outbox'[j]
        PROVE  outbox'[j][n].from = j /\ outbox'[j][n].payload \in HeardSet(j)'
    <3>1. CASE n \in DOMAIN outbox[j]
      <4>1. outbox'[j][n] = outbox[j][n]
        BY <1>19, <3>1
      <4>2. outbox[j][n].from = j /\ outbox[j][n].payload \in HeardSet(j)
        BY <1>1, <3>1 DEF Sources
      <4> QED
        BY <1>10, <4>1, <4>2
    <3>2. CASE n \notin DOMAIN outbox[j]
      BY <1>10, <1>19, <3>2
    <3> QED
      BY <3>1, <3>2
  <2>2. ASSUME NEW j \in Instance, NEW n \in DOMAIN inbox'[j], NEW k \in Instance,
               inbox'[j][n].from = k
        PROVE  inbox'[j][n].payload \in HeardSet(k)'
    <3>1. PICK m \in DOMAIN inbox[j] : inbox'[j][n] = inbox[j][m]
      <4>1. CASE j = i
        <5>1. n \in DOMAIN Tail(s) /\ inbox'[j][n] = Tail(s)[n]
          BY <1>9, <4>1
        <5>2. n + 1 \in DOMAIN s /\ Tail(s)[n] = s[n + 1]
          BY <1>6, <5>1
        <5> QED
          BY <1>2, <4>1, <5>1, <5>2
      <4>2. CASE j # i
        BY <1>9, <4>2
      <4> QED
        BY <4>1, <4>2
    <3>2. inbox[j][m].payload \in HeardSet(k)
      BY <1>1, <2>2, <3>1 DEF Sources
    <3> QED
      BY <1>10, <3>1, <3>2
  <2>3. ASSUME NEW j \in Instance, NEW p \in HeardSet(j)' PROVE origin'[p] # Bridge!None
    <3>1. CASE p \in HeardSet(j)
      BY <1>1, <3>1 DEF Sources
    <3>2. CASE p \notin HeardSet(j)
      <4>1. p = x
        BY <1>10, <2>3, <3>2
      <4>2. x \in HeardSet(e.from)
        BY <1>1, <1>2, <1>3, <1>4, <1>5, <1>6 DEF Sources
      <4> QED
        BY <1>1, <1>5, <4>1, <4>2 DEF Sources
    <3> QED
      BY <3>1, <3>2
  <2> QED
    BY <2>1, <2>2, <2>3 DEF Sources
<1>21. Reach'
  BY <1>1, <1>12, <1>15, <1>16 DEF Reach
<1>22. Sent'
  BY <1>1, <1>12, <1>13, <1>14, <1>16 DEF Sent
<1>23. OutOrder'
  <2> SUFFICES ASSUME NEW j \in Instance, NEW o \in Instance, NEW p \in Payload, NEW q \in Payload,
                      subs[j] > 0, After(j, p), Earlier(p, q), origin[p] = o,
                      NEW n \in DOMAIN outbox'[o], outbox'[o][n].payload = q
               PROVE  \/ p \in Stream(j)' \/ Dead(p)'
                      \/ \E m \in DOMAIN outbox'[o] : m < n /\ outbox'[o][m].payload = p
    BY <1>1, <1>16 DEF OutOrder
  <2>1. CASE n \in DOMAIN outbox[o]
    <3>1. outbox[o][n].payload = q
      BY <1>19, <2>1
    <3>2. \/ p \in Stream(j) \/ Dead(p)
          \/ \E m \in DOMAIN outbox[o] : m < n /\ outbox[o][m].payload = p
      BY <1>1, <2>1, <3>1 DEF OutOrder
    <3> QED
      BY <1>12, <1>14, <1>19, <3>2
  <2>2. CASE n \notin DOMAIN outbox[o]
    <3>1. p \in Stream(j) \/ p \in OutSet(o) \/ Dead(p)
      BY <1>1 DEF Sent
    <3>2. CASE p \in OutSet(o)
      <4>1. PICK m \in DOMAIN outbox[o] : outbox[o][m].payload = p
        BY <3>2 DEF OutSet
      <4>2. m \in DOMAIN outbox'[o] /\ outbox'[o][m].payload = p /\ m < n
        BY <1>19, <2>2, <4>1
      <4> QED
        BY <4>2
    <3> QED
      BY <1>12, <1>14, <3>1, <3>2
  <2> QED
    BY <2>1, <2>2
<1>24. InOrder'
  <2> SUFFICES ASSUME NEW j \in Instance, NEW p \in Payload, NEW q \in Payload,
                      After(j, p), Earlier(p, q),
                      NEW n \in DOMAIN inbox'[j], inbox'[j][n].payload = q
               PROVE  \/ p \in HeardSet(j)' \/ Dead(p)'
                      \/ \E m \in DOMAIN inbox'[j] : m < n /\ inbox'[j][m].payload = p
    BY <1>16 DEF InOrder
  <2>1. CASE j = i
    <3>1. n \in DOMAIN Tail(s) /\ n + 1 \in DOMAIN s /\ s[n + 1].payload = q /\ n \in Nat
      BY <1>6, <1>9, <2>1
    <3>2. \/ p \in HeardSet(j) \/ Dead(p)
          \/ \E m \in DOMAIN s : m < n + 1 /\ s[m].payload = p
      BY <1>1, <1>2, <2>1, <3>1 DEF InOrder
    <3>3. ASSUME NEW m \in DOMAIN s, m < n + 1, s[m].payload = p
          PROVE  \/ p \in HeardSet(j)'
                 \/ \E k \in DOMAIN inbox'[j] : k < n /\ inbox'[j][k].payload = p
      <4>1. CASE m = 1
        BY <1>3, <1>4, <1>10, <2>1, <3>3, <4>1
      <4>2. CASE m # 1
        <5>1. m - 1 \in DOMAIN Tail(s) /\ Tail(s)[m - 1].payload = p /\ m \in Nat
          BY <1>6, <3>3, <4>2
        <5>2. m - 1 < n
          BY <3>1, <3>3, <5>1
        <5> QED
          BY <1>9, <2>1, <5>1, <5>2
      <4> QED
        BY <4>1, <4>2
    <3> QED
      BY <1>10, <1>14, <3>2, <3>3
  <2>2. CASE j # i
    <3>1. inbox'[j] = inbox[j]
      BY <1>9, <2>2
    <3>2. \/ p \in HeardSet(j) \/ Dead(p)
          \/ \E m \in DOMAIN inbox[j] : m < n /\ inbox[j][m].payload = p
      BY <1>1, <3>1 DEF InOrder
    <3> QED
      BY <1>10, <1>14, <3>1, <3>2
  <2> QED
    BY <2>1, <2>2
<1>25. HeardOrder'
  <2> SUFFICES ASSUME NEW j \in Instance, NEW p \in Payload, NEW q \in Payload,
                      After(j, p), Earlier(p, q), q \in HeardSet(j)'
               PROVE  Before(heard'[j], p, q) \/ (Dead(p)' /\ j # origin[p])
    BY <1>1, <1>16 DEF HeardOrder, Before
  <2>1. CASE q \in HeardSet(j)
    <3>1. Before(heard[j], p, q) \/ (Dead(p) /\ j # origin[p])
      BY <1>1, <2>1 DEF HeardOrder
    <3> QED
      BY <1>10, <1>14, <3>1
  <2>2. CASE q \notin HeardSet(j)
    <3>1. j = i /\ q = x
      BY <1>10, <2>2
    <3>2. p \in HeardSet(j) \/ Dead(p)
      <4>1. \/ p \in HeardSet(j) \/ Dead(p)
            \/ \E m \in DOMAIN s : m < 1 /\ s[m].payload = p
        BY <1>1, <1>2, <1>3, <1>4, <1>6, <3>1 DEF InOrder
      <4>2. \A m \in DOMAIN s : ~ m < 1
        BY <1>6
      <4> QED
        BY <4>1, <4>2
    <3>3. j # origin[p]
      BY <1>1, <2>2 DEF OrderSound, Earlier
    <3> QED
      BY <1>10, <1>14, <2>2, <3>2, <3>3
  <2> QED
    BY <2>1, <2>2
<1> QED
  BY <1>17, <1>18, <1>20, <1>21, <1>22, <1>23, <1>24, <1>25 DEF BridgeInv

\* A message delivered reaches all who are there, in one step.
LEMMA DeliverKeeps ==
  ASSUME BridgeInv, NEW i \in Instance, Bridge!Deliver(i)
  PROVE  BridgeInv'
<1>1. /\ BridgeTypes /\ OrderSound /\ Sources /\ Reach /\ Sent /\ OutOrder /\ InOrder /\ HeardOrder
      /\ UNCHANGED <<subs, hooks, missed, origin, order, heard, published>> /\ outbox[i] # <<>>
  BY DEF BridgeInv, Bridge!Deliver, Bridge!connVars
<1>2. PICK s \in Seq(Envelope) : s = outbox[i] /\ s # <<>>
  BY <1>1 DEF BridgeTypes
<1>3. PICK e \in Envelope : e = Head(s) /\ e = s[1]
  BY <1>2
<1>4. PICK x \in Payload : x = e.payload
  BY DEF Envelope
<1>5. /\ Len(s) \in Nat /\ DOMAIN s = 1..Len(s) /\ 1 \in DOMAIN s
      /\ Tail(s) \in Seq(Envelope) /\ DOMAIN Tail(s) = 1..(Len(s) - 1)
      /\ \A n \in DOMAIN Tail(s) : n \in Nat /\ n + 1 \in DOMAIN s /\ Tail(s)[n] = s[n + 1]
      /\ \A n \in DOMAIN s : n = 1 \/ (n - 1 \in DOMAIN Tail(s) /\ Tail(s)[n - 1] = s[n])
  <2>1. Len(s) \in Nat /\ Len(s) >= 1 /\ DOMAIN s = 1..Len(s)
    BY <1>2
  <2>2. /\ Tail(s) \in Seq(Envelope) /\ Len(Tail(s)) = Len(s) - 1
        /\ \A n \in 1..Len(Tail(s)) : Tail(s)[n] = s[n + 1]
    BY <1>2, HeadTailProperties
  <2>3. DOMAIN Tail(s) = 1..(Len(s) - 1)
    BY <2>2
  <2> QED
    BY <2>1, <2>2, <2>3
<1>6. /\ outbox' \in [Instance -> Seq(Envelope)] /\ outbox'[i] = Tail(s)
      /\ \A j \in Instance : j # i => outbox'[j] = outbox[j]
  <2>1. outbox' = [outbox EXCEPT ![i] = Tail(@)]
    BY DEF Bridge!Deliver
  <2> QED
    BY <1>1, <1>2, <1>5, <2>1 DEF BridgeTypes
<1>7. ASSUME NEW j \in Instance
      PROVE  /\ inbox'[j] \in Seq(Envelope)
             /\ \A n \in DOMAIN inbox[j] : n \in DOMAIN inbox'[j] /\ inbox'[j][n] = inbox[j][n]
             /\ \A n \in DOMAIN inbox'[j] :
                  \/ n \in DOMAIN inbox[j]
                  \/ inbox'[j][n] = e /\ subs[j] > 0 /\ \A m \in DOMAIN inbox[j] : m < n
             /\ subs[j] > 0 => \E n \in DOMAIN inbox'[j] : inbox'[j][n] = e
  <2>1. PICK t \in Seq(Envelope), k \in Nat : t = inbox[j] /\ k = subs[j]
    BY <1>1 DEF BridgeTypes
  <2>2. PICK c \in Seq(Envelope) : c = [n \in 1..k |-> e] /\ Len(c) = k /\ DOMAIN c = 1..k
    <3>1. [n \in 1..k |-> e] \in Seq(Envelope) /\ Len([n \in 1..k |-> e]) = k
      BY <2>1
    <3> QED
      BY <3>1
  <2>3. inbox'[j] = t \o c
    BY <1>2, <1>3, <2>1, <2>2 DEF Bridge!Deliver
  <2>4. /\ t \o c \in Seq(Envelope) /\ Len(t \o c) = Len(t) + k
        /\ \A n \in 1..(Len(t) + k) : (t \o c)[n] = IF n <= Len(t) THEN t[n] ELSE c[n - Len(t)]
    BY <2>2, ConcatProperties
  <2>5. PICK u \in Seq(Envelope) : u = t \o c
    BY <2>4
  <2>6. /\ Len(t) \in Nat /\ DOMAIN t = 1..Len(t) /\ DOMAIN u = 1..(Len(t) + k)
        /\ \A n \in DOMAIN t : n \in DOMAIN u
    <3>1. Len(t) \in Nat /\ DOMAIN t = 1..Len(t) /\ DOMAIN u = 1..Len(u) /\ Len(u) = Len(t) + k
      BY <2>4, <2>5
    <3> QED
      BY <3>1
  <2>7. \A n \in DOMAIN t : u[n] = t[n]
    BY <2>4, <2>5, <2>6
  <2>8. ASSUME NEW n \in DOMAIN u, n \notin DOMAIN t
        PROVE  u[n] = e /\ k > 0 /\ \A m \in DOMAIN t : m < n
    <3>1. n > Len(t) /\ n - Len(t) \in 1..k /\ k > 0 /\ \A m \in DOMAIN t : m < n
      BY <2>6, <2>8
    <3>2. c[n - Len(t)] = e
      BY <2>2, <3>1
    <3> QED
      BY <2>4, <2>5, <2>6, <3>1, <3>2
  <2>9. ASSUME k > 0 PROVE \E n \in DOMAIN u : u[n] = e
    <3>1. Len(t) + 1 \in DOMAIN u /\ Len(t) + 1 \notin DOMAIN t
      BY <2>6, <2>9
    <3> QED
      BY <2>8, <3>1
  <2> QED
    BY <2>1, <2>3, <2>5, <2>6, <2>7, <2>8, <2>9
<1>8. inbox' \in [Instance -> Seq(Envelope)]
  <2>1. DOMAIN inbox' = Instance /\ inbox' = [j \in Instance |-> inbox'[j]]
    BY DEF Bridge!Deliver
  <2> QED
    BY <1>7, <2>1
<1>9. /\ \A j \in Instance : HeardSet(j)' = HeardSet(j)
      /\ \A j \in Instance : InSet(j) \subseteq InSet(j)'
      /\ \A j \in Instance : \A p \in InSet(j)' : p \in InSet(j) \/ (p = x /\ subs[j] > 0)
      /\ \A j \in Instance : subs[j] > 0 => x \in InSet(j)'
  <2>1. \A j \in Instance : HeardSet(j)' = HeardSet(j)
    BY <1>1 DEF HeardSet
  <2>2. ASSUME NEW j \in Instance
        PROVE  /\ InSet(j) \subseteq InSet(j)'
               /\ \A p \in InSet(j)' : p \in InSet(j) \/ (p = x /\ subs[j] > 0)
               /\ subs[j] > 0 => x \in InSet(j)'
    <3>1. /\ InSet(j) = {inbox[j][n].payload : n \in DOMAIN inbox[j]}
          /\ InSet(j)' = {inbox'[j][n].payload : n \in DOMAIN inbox'[j]}
      BY DEF InSet
    <3>2. InSet(j) \subseteq InSet(j)'
      BY <1>7, <3>1
    <3>3. ASSUME NEW n \in DOMAIN inbox'[j]
          PROVE  inbox'[j][n].payload \in InSet(j) \/ (inbox'[j][n].payload = x /\ subs[j] > 0)
      BY <1>4, <1>7, <3>1
    <3>4. subs[j] > 0 => x \in InSet(j)'
      BY <1>4, <1>7, <3>1
    <3> QED
      BY <3>1, <3>2, <3>3, <3>4
  <2> QED
    BY <2>1, <2>2
<1>10. /\ x \in OutSet(i)
       /\ \A j \in Instance : OutSet(j)' \subseteq OutSet(j)
       /\ \A j \in Instance : \A p \in OutSet(j) : p \in OutSet(j)' \/ p = x
  <2>1. /\ OutSet(i) = {s[n].payload : n \in DOMAIN s}
        /\ OutSet(i)' = {Tail(s)[n].payload : n \in DOMAIN Tail(s)}
    BY <1>2, <1>6 DEF OutSet
  <2>2. \A j \in Instance : j # i => OutSet(j)' = OutSet(j)
    BY <1>6 DEF OutSet
  <2>3. x \in OutSet(i) /\ OutSet(i)' \subseteq OutSet(i)
    BY <1>3, <1>4, <1>5, <2>1
  <2>4. ASSUME NEW n \in DOMAIN s PROVE s[n].payload \in OutSet(i)' \/ s[n].payload = x
    BY <1>3, <1>4, <1>5, <2>1
  <2> QED
    BY <2>1, <2>2, <2>3, <2>4
<1>11. \A j \in Instance : Stream(j) \subseteq Stream(j)'
  BY <1>9 DEF Stream
<1>12. \A p \in Payload : Dead(p) => Dead(p)'
  BY <1>1, <1>9, <1>10 DEF Dead
<1>13. \A p \in Payload : Delivered(p)' => Delivered(p) \/ p = x
  BY <1>1, <1>9 DEF Delivered
<1>14. /\ \A j \in Instance, p \in Payload : After(j, p)' <=> After(j, p)
       /\ \A p, q \in Payload : Earlier(p, q)' <=> Earlier(p, q)
  BY <1>1 DEF After, Earlier
<1>15. BridgeTypes' /\ OrderSound'
  <2>1. BridgeTypes'
    BY <1>1, <1>6, <1>8 DEF BridgeTypes
  <2>2. OrderSound'
    BY <1>1, <1>9 DEF OrderSound
  <2> QED
    BY <2>1, <2>2
<1>16. Sources'
  <2>1. ASSUME NEW j \in Instance, NEW n \in DOMAIN outbox'[j]
        PROVE  outbox'[j][n].from = j /\ outbox'[j][n].payload \in HeardSet(j)
    <3>1. PICK m \in DOMAIN outbox[j] : outbox'[j][n] = outbox[j][m]
      <4>1. CASE j = i
        <5>1. n \in DOMAIN Tail(s) /\ outbox'[j][n] = Tail(s)[n]
          BY <1>6, <4>1
        <5>2. n + 1 \in DOMAIN s /\ Tail(s)[n] = s[n + 1]
          BY <1>5, <5>1
        <5> QED
          BY <1>2, <4>1, <5>1, <5>2
      <4>2. CASE j # i
        BY <1>6, <4>2
      <4> QED
        BY <4>1, <4>2
    <3> QED
      BY <1>1, <3>1 DEF Sources
  <2>2. e.from = i /\ x \in HeardSet(i)
    BY <1>1, <1>2, <1>3, <1>4, <1>5 DEF Sources
  <2>3. ASSUME NEW j \in Instance, NEW n \in DOMAIN inbox'[j], NEW k \in Instance,
               inbox'[j][n].from = k
        PROVE  inbox'[j][n].payload \in HeardSet(k)
    <3>1. CASE n \in DOMAIN inbox[j]
      BY <1>1, <1>7, <2>3, <3>1 DEF Sources
    <3>2. CASE n \notin DOMAIN inbox[j]
      BY <1>4, <1>7, <2>2, <2>3, <3>2
    <3> QED
      BY <3>1, <3>2
  <2> QED
    BY <1>1, <1>9, <2>1, <2>3 DEF Sources
<1>17. Reach'
  BY <1>1, <1>9, <1>11, <1>13, <1>14 DEF Reach, Stream
<1>18. Sent'
  BY <1>1, <1>9, <1>10, <1>11, <1>12, <1>14 DEF Sent, Stream
<1>19. OutOrder'
  <2> SUFFICES ASSUME NEW j \in Instance, NEW o \in Instance, NEW p \in Payload, NEW q \in Payload,
                      subs[j] > 0, After(j, p), Earlier(p, q), origin[p] = o,
                      NEW n \in DOMAIN outbox'[o], outbox'[o][n].payload = q
               PROVE  \/ p \in Stream(j)' \/ Dead(p)'
                      \/ \E m \in DOMAIN outbox'[o] : m < n /\ outbox'[o][m].payload = p
    BY <1>1, <1>14 DEF OutOrder
  <2>1. CASE o = i
    <3>1. n \in DOMAIN Tail(s) /\ n + 1 \in DOMAIN s /\ s[n + 1].payload = q /\ n \in Nat
      BY <1>5, <1>6, <2>1
    <3>2. \/ p \in Stream(j) \/ Dead(p)
          \/ \E m \in DOMAIN s : m < n + 1 /\ s[m].payload = p
      BY <1>1, <1>2, <2>1, <3>1 DEF OutOrder
    <3>3. ASSUME NEW m \in DOMAIN s, m < n + 1, s[m].payload = p
          PROVE  \/ p \in Stream(j)'
                 \/ \E k \in DOMAIN outbox'[o] : k < n /\ outbox'[o][k].payload = p
      <4>1. CASE m = 1
        <5>1. p \in InSet(j)'
          BY <1>3, <1>4, <1>9, <3>3, <4>1
        <5> QED
          BY <5>1 DEF Stream
      <4>2. CASE m # 1
        <5>1. m - 1 \in DOMAIN Tail(s) /\ Tail(s)[m - 1].payload = p /\ m \in Nat
          BY <1>5, <3>3, <4>2
        <5>2. m - 1 < n
          BY <3>1, <3>3, <5>1
        <5> QED
          BY <1>6, <2>1, <5>1, <5>2
      <4> QED
        BY <4>1, <4>2
    <3> QED
      BY <1>11, <1>12, <3>2, <3>3
  <2>2. CASE o # i
    <3>1. outbox'[o] = outbox[o]
      BY <1>6, <2>2
    <3>2. \/ p \in Stream(j) \/ Dead(p)
          \/ \E m \in DOMAIN outbox[o] : m < n /\ outbox[o][m].payload = p
      BY <1>1, <3>1 DEF OutOrder
    <3> QED
      BY <1>11, <1>12, <3>1, <3>2
  <2> QED
    BY <2>1, <2>2
<1>20. InOrder'
  <2> SUFFICES ASSUME NEW j \in Instance, NEW p \in Payload, NEW q \in Payload,
                      After(j, p), Earlier(p, q),
                      NEW n \in DOMAIN inbox'[j], inbox'[j][n].payload = q
               PROVE  \/ p \in HeardSet(j) \/ Dead(p)'
                      \/ \E m \in DOMAIN inbox'[j] : m < n /\ inbox'[j][m].payload = p
    BY <1>9, <1>14 DEF InOrder
  <2>0. DOMAIN inbox[j] \subseteq Nat /\ DOMAIN inbox'[j] \subseteq Nat
    <3>1. inbox[j] \in Seq(Envelope) /\ inbox'[j] \in Seq(Envelope)
      BY <1>1, <1>8 DEF BridgeTypes
    <3>2. \A t \in Seq(Envelope) : DOMAIN t \subseteq Nat
      OBVIOUS
    <3> QED
      BY <3>1, <3>2
  <2>1. ASSUME NEW l \in DOMAIN inbox[j], inbox[j][l].payload = q, l <= n
        PROVE  \/ p \in HeardSet(j) \/ Dead(p)
               \/ \E m \in DOMAIN inbox'[j] : m < n /\ inbox'[j][m].payload = p
    <3>1. \/ p \in HeardSet(j) \/ Dead(p)
          \/ \E m \in DOMAIN inbox[j] : m < l /\ inbox[j][m].payload = p
      BY <1>1, <2>1 DEF InOrder
    <3>2. CASE \E m \in DOMAIN inbox[j] : m < l /\ inbox[j][m].payload = p
      <4>1. PICK m \in DOMAIN inbox[j] : m < l /\ inbox[j][m].payload = p
        BY <3>2
      <4>2. m \in DOMAIN inbox'[j] /\ inbox'[j][m].payload = p
        BY <1>7, <4>1
      <4>3. m \in Nat /\ l \in Nat /\ n \in Nat
        BY <2>0, <4>1
      <4>4. m < n
        BY <2>1, <4>1, <4>3
      <4> QED
        BY <4>2, <4>4
    <3> QED
      BY <3>1, <3>2
  <2>2. CASE n \in DOMAIN inbox[j]
    <3>1. n \in Nat /\ inbox[j][n].payload = q
      BY <1>7, <2>0, <2>2
    <3>2. n <= n
      BY <3>1
    <3> QED
      BY <1>12, <2>1, <2>2, <3>1, <3>2
  <2>3. CASE n \notin DOMAIN inbox[j]
    <3>1. /\ q = x /\ subs[j] > 0 /\ \A m \in DOMAIN inbox[j] : m < n
      BY <1>4, <1>7, <2>3
    <3>2. CASE q \in HeardSet(j)
      <4>1. Before(heard[j], p, q) \/ Dead(p)
        BY <1>1, <3>2 DEF HeardOrder
      <4>2. Before(heard[j], p, q) => p \in HeardSet(j)
        BY DEF Before, HeardSet
      <4> QED
        BY <1>12, <4>1, <4>2
    <3>3. CASE q \in InSet(j)
      <4>1. PICK l \in DOMAIN inbox[j] : inbox[j][l].payload = q
        BY <3>3 DEF InSet
      <4>2. l <= n
        <5>1. l \in Nat /\ n \in Nat /\ l < n
          BY <2>0, <3>1, <4>1
        <5> QED
          BY <5>1
      <4> QED
        BY <1>12, <2>1, <4>1, <4>2
    <3>4. CASE q \notin HeardSet(j) /\ q \notin InSet(j)
      <4>1. After(j, q)
        BY <1>1, AfterLater
      <4>2. ~ Delivered(q)
        BY <1>1, <3>1, <3>4, <4>1 DEF Reach, Stream
      <4>3. q \in HeardSet(i)
        BY <1>1, <1>2, <1>3, <1>4, <1>5, <3>1 DEF Sources
      <4>4. i = origin[q] /\ i = origin[p]
        BY <4>2, <4>3 DEF Delivered, Earlier
      <4>5. \/ p \in Stream(j) \/ Dead(p)
            \/ \E m \in DOMAIN s : m < 1 /\ s[m].payload = p
        BY <1>1, <1>2, <1>3, <1>4, <1>5, <3>1, <4>4 DEF OutOrder
      <4>6. \A m \in DOMAIN s : ~ m < 1
        BY <1>5
      <4>7. CASE p \in InSet(j)
        <5>1. PICK m \in DOMAIN inbox[j] : inbox[j][m].payload = p
          BY <4>7 DEF InSet
        <5> QED
          BY <1>7, <3>1, <5>1
      <4> QED
        BY <1>12, <4>5, <4>6, <4>7 DEF Stream
    <3> QED
      BY <3>2, <3>3, <3>4
  <2> QED
    BY <2>2, <2>3
<1>21. HeardOrder'
  <2> SUFFICES ASSUME NEW j \in Instance, NEW p \in Payload, NEW q \in Payload,
                      After(j, p), Earlier(p, q), q \in HeardSet(j)
               PROVE  Before(heard[j], p, q) \/ (Dead(p)' /\ j # origin[p])
    BY <1>1, <1>9, <1>14 DEF HeardOrder
  <2> QED
    BY <1>1, <1>12 DEF HeardOrder
<1> QED
  BY <1>15, <1>16, <1>17, <1>18, <1>19, <1>20, <1>21 DEF BridgeInv

\* Every step of the bridges preserves the invariant.
LEMMA BridgeStep ==
  ASSUME BridgeInv, [Bridge!Next]_Bridge!vars
  PROVE  BridgeInv'
<1>1. CASE UNCHANGED Bridge!vars
  <2>1. UNCHANGED <<subs, hooks, missed, outbox, inbox, origin, order, heard, published>>
    BY <1>1 DEF Bridge!vars, Bridge!connVars
  <2> QED
    BY <2>1, QuietBridge DEF BridgeInv, BridgeTypes
<1>2. ASSUME NEW i \in Instance,
             \/ Bridge!Connect(i) \/ Bridge!Subscribed(i) \/ Bridge!ConnectFails(i)
             \/ Bridge!Disconnect(i)
      PROVE  BridgeInv'
  BY <1>2, ConnectionKeeps
<1>3. ASSUME NEW i \in Instance, Bridge!Deliver(i) PROVE BridgeInv'
  BY <1>3, DeliverKeeps
<1>4. ASSUME NEW i \in Instance, Bridge!Receive(i) PROVE BridgeInv'
  BY <1>4, ReceiveKeeps
<1>5. ASSUME NEW i \in Instance, NEW x \in Payload, Bridge!AppBroadcast(i, x) PROVE BridgeInv'
  BY <1>5, AppBroadcastKeeps
<1> QED
  BY <1>1, <1>2, <1>3, <1>4, <1>5 DEF Bridge!Next

\* The bridges start in the invariant.
LEMMA BridgeInit ==
  ASSUME Bridge!Init
  PROVE  BridgeInv
<1>1. /\ subs \in [Instance -> Nat] /\ hooks \in [Instance -> Nat]
      /\ missed \in [Instance -> 0..0] /\ order = <<>> /\ Len(order) = 0 /\ DOMAIN order = {}
      /\ outbox \in [Instance -> Seq(Envelope)] /\ inbox \in [Instance -> Seq(Envelope)]
      /\ heard \in [Instance -> Seq(Payload)] /\ published \in 0..MaxPublishes
      /\ origin \in [Payload -> Instance \cup {Bridge!None}]
      /\ \A p \in Payload : origin[p] = Bridge!None
      /\ \A i \in Instance : DOMAIN outbox[i] = {} /\ DOMAIN inbox[i] = {} /\ DOMAIN heard[i] = {}
  BY BridgeAssumption DEF Bridge!Init, BridgeAssumption
<1>2. \A i \in Instance : HeardSet(i) = {}
  BY <1>1 DEF HeardSet
<1>3. BridgeTypes /\ OrderSound /\ Sources
  BY <1>1, <1>2, BridgeAssumption DEF BridgeAssumption, BridgeTypes, OrderSound, Sources
<1>4. \A i \in Instance, p \in Payload : ~ After(i, p)
  BY <1>1 DEF After
<1> QED
  BY <1>3, <1>4 DEF BridgeInv, Reach, Sent, OutOrder, InOrder, HeardOrder

\* Between two messages of one origin, no copy of the later one overtakes the
\* earlier one on the way to an instance that was there for both.
THEOREM FirstInOrderHolds == Bridge!Spec => []FirstInOrder
<1>1. ASSUME BridgeInv PROVE FirstInOrder
  <2> SUFFICES ASSUME NEW i \in Instance, NEW p \in Payload, NEW q \in Payload,
                      origin[p] # Bridge!None, origin[p] = origin[q],
                      {p, q} \subseteq Bridge!ToSet(heard[i]),
                      missed[i] < Bridge!FirstIndex(order, p),
                      Bridge!FirstIndex(order, p) < Bridge!FirstIndex(order, q)
               PROVE  Bridge!FirstIndex(heard[i], p) < Bridge!FirstIndex(heard[i], q)
    BY DEF FirstInOrder, Bridge!FirstInOrder
  <2>1. /\ BridgeTypes /\ OrderSound /\ HeardOrder /\ order \in Seq(Payload)
        /\ heard[i] \in Seq(Payload)
    BY <1>1 DEF BridgeInv, BridgeTypes
  <2>2. p \in HeardSet(i) /\ q \in HeardSet(i)
    BY DEF Bridge!ToSet, HeardSet
  <2>3. PICK a \in DOMAIN order, b \in DOMAIN order : order[a] = p /\ order[b] = q
    BY <2>1 DEF OrderSound
  <2>4. /\ Bridge!FirstIndex(order, p) \in DOMAIN order /\ order[Bridge!FirstIndex(order, p)] = p
        /\ Bridge!FirstIndex(order, q) \in DOMAIN order /\ order[Bridge!FirstIndex(order, q)] = q
    BY <2>1, <2>3, FirstIndexIsFirst
  <2>5. After(i, p) /\ Earlier(p, q)
    BY <2>4 DEF After, Earlier
  <2>6. Before(heard[i], p, q)
    <3>1. Dead(p) /\ p \in HeardSet(i) => i = origin[p]
      BY DEF Dead
    <3> QED
      BY <2>1, <2>2, <2>5, <3>1 DEF HeardOrder
  <2>7. PICK s \in Seq(Payload) : s = heard[i]
    BY <2>1
  <2>8. PICK m \in DOMAIN s, u \in DOMAIN s, v \in DOMAIN s :
          s[m] = p /\ (\A k \in 1..m : s[k] # q) /\ s[u] = p /\ s[v] = q
    BY <2>2, <2>6, <2>7 DEF Before, HeardSet
  <2>9. /\ Bridge!FirstIndex(s, p) \in DOMAIN s
        /\ \A k \in 1..(Bridge!FirstIndex(s, p) - 1) : s[k] # p
        /\ Bridge!FirstIndex(s, q) \in DOMAIN s /\ s[Bridge!FirstIndex(s, q)] = q
    BY <2>8, FirstIndexIsFirst
  <2>10. PICK f \in DOMAIN s, g \in DOMAIN s :
           f = Bridge!FirstIndex(s, p) /\ g = Bridge!FirstIndex(s, q)
    BY <2>9
  <2>11. m \in Nat /\ f \in Nat /\ g \in Nat /\ m >= 1 /\ g >= 1
    OBVIOUS
  <2>12. f <= m
    <3>1. CASE m <= f - 1
      <4>1. m \in 1..(f - 1)
        BY <2>11, <3>1
      <4> QED
        BY <2>8, <2>9, <2>10, <4>1
    <3> QED
      BY <2>11, <3>1
  <2>13. m < g
    <3>1. CASE g <= m
      <4>1. g \in 1..m
        BY <2>11, <3>1
      <4> QED
        BY <2>8, <2>9, <2>10, <4>1
    <3> QED
      BY <2>11, <3>1
  <2>14. f < g
    BY <2>11, <2>12, <2>13
  <2> QED
    BY <2>7, <2>10, <2>14
<1>2. Bridge!Spec => []BridgeInv
  <2>1. Bridge!Init => BridgeInv
    BY BridgeInit
  <2>2. BridgeInv /\ [Bridge!Next]_Bridge!vars => BridgeInv'
    BY BridgeStep
  <2> QED
    BY <2>1, <2>2, PTL DEF Bridge!Spec
<1> QED
  BY <1>1, <1>2, PTL
==============================================================================

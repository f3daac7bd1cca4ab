------------------------------ MODULE Session ------------------------------
(***************************************************************************)
(* Sessions of src/session.ts: the middleware, the Session object of each  *)
(* request, and SessionMemoryStore or RedisSessionStore, for the requests  *)
(* one browser sends, side by side or one after the other.  Session data is*)
(* the set of the writes it holds.  A store operation is one step, taken   *)
(* when it is called: the memory store copies the data there and then, and *)
(* Redis is sent its text and executes the commands of a connection in     *)
(* order.  What the Session does after awaiting a set is a later step, with*)
(* other work of the same handler in between; destroy() and regenerate() it*)
(* awaits before it goes on to anything but set() and delete().  Redis     *)
(* commands may fail, which their caller is not told.                      *)
(***************************************************************************)
EXTENDS Naturals, FiniteSets

CONSTANTS
  Sid,        \* the ids generateId() and randomUUID() may return
  Begun,      \* ids of sessions that are there already, with nothing left in them
  Request,    \* the requests of the browser
  MaxWrites,  \* bound on the set() calls of a request
  MaxSaves,   \* bound on its own save() calls that are under way together
  MaxMishaps, \* bound on the entries that outlive their ttl and failing commands
  Failing     \* Redis commands that may fail; none of them with the memory store

None == "none"   \* no id, or no cookie

ASSUME SessionAssumption ==
  None \notin Sid /\ Begun \subseteq Sid /\ MaxWrites \in Nat /\ MaxSaves \in Nat /\ MaxMishaps \in Nat

Write == Request \X (1..MaxWrites)

VARIABLES
  entry,      \* the store: each entry is absent, live or past its expiry
  kept,       \* the data of each entry
  used,       \* ids handed out
  jar,        \* the cookie the browser has
  phase,      \* where each request is
  sid,        \* Session.sid, before that the cookie it carries
  old,        \* the id a regenerate() is about to remove
  cookie,     \* the id the middleware will put in the response
  data, changed, destroyed,   \* the fields of its Session
  saves,      \* its save() calls that have stored but not yet cleared `changed`
  writes,     \* set() calls it made
  mishaps,    \* entries that outlived their ttl and commands that failed so far
  dropped,    \* history: writes some request deleted
  raced,      \* history: writes made while a save() or regenerate() of their session
              \* was under way, or after the handler returned
  acked,      \* history: what each entry held when a response was sent for it
  disturbed,  \* history: ids held by two requests at a time, lapsed, or the key of a
              \* command that failed
  ended       \* history: ids destroyed or left by regenerate()

storeVars == <<entry, kept>>
ownVars == <<data, changed, destroyed>>
callVars == <<saves, writes>>
pastVars == <<dropped, raced, acked>>
historyVars == <<pastVars, disturbed, ended>>
vars == <<storeVars, used, jar, phase, sid, old, cookie, ownVars, callVars, mishaps,
          historyVars>>

Init ==
  /\ entry = [s \in Sid |-> IF s \in Begun THEN "live" ELSE "absent"]
  /\ kept = [s \in Sid |-> {}]
  /\ used = Begun /\ jar \in Begun \cup {None}
  /\ phase = [r \in Request |-> "new"]
  /\ sid = [r \in Request |-> None] /\ old = [r \in Request |-> None]
  /\ cookie = [r \in Request |-> None]
  /\ data = [r \in Request |-> {}]
  /\ changed = [r \in Request |-> FALSE] /\ destroyed = [r \in Request |-> FALSE]
  /\ saves = [r \in Request |-> 0]
  /\ writes = [r \in Request |-> 0] /\ mishaps = 0
  /\ dropped = {} /\ raced = {} /\ acked = [s \in Sid |-> {}]
  /\ disturbed = {} /\ ended = {}

\* Ids are not handed out twice; which one is next makes no difference.
Unused == Sid \ used
FreshSid == CHOOSE s \in Unused : TRUE

Holds(r, s) ==
  phase[r] \in {"handler", "regenerating", "saving", "saved"} /\ s \in {sid[r], old[r]}

-----------------------------------------------------------------------------
(* SessionMemoryStore. *)
Put(s, d) ==
  /\ entry' = [entry EXCEPT ![s] = "live"]
  /\ kept' = [kept EXCEPT ![s] = d]

Erase(s) ==
  /\ entry' = [entry EXCEPT ![s] = "absent"]
  /\ kept' = [kept EXCEPT ![s] = {}]

\* touch(): only an entry that is there, past its expiry or not.
Touch(s) ==
  /\ entry' = [entry EXCEPT ![s] = IF @ = "absent" THEN @ ELSE "live"]
  /\ UNCHANGED kept

\* The ttl of an entry runs out; get() and the cleanup timer remove it.
Lapse(s) ==
  /\ entry[s] = "live" /\ mishaps < MaxMishaps
  /\ entry' = [entry EXCEPT ![s] = "lapsed"]
  /\ mishaps' = mishaps + 1
  /\ disturbed' = disturbed \cup {s}
  /\ UNCHANGED <<kept, used, jar, phase, sid, old, cookie, ownVars, callVars, pastVars, ended>>

Cleanup ==
  /\ \E s \in Sid : entry[s] = "lapsed"
  /\ entry' = [s \in Sid |-> IF entry[s] = "lapsed" THEN "absent" ELSE entry[s]]
  /\ kept' = [s \in Sid |-> IF entry[s] = "lapsed" THEN {} ELSE kept[s]]
  /\ UNCHANGED <<used, jar, phase, sid, old, cookie, ownVars, callVars, mishaps, historyVars>>

\* RedisSessionStore: a command on the entry of s fails and is only logged.
Fails(command, s) ==
  /\ command \in Failing /\ mishaps < MaxMishaps
  /\ mishaps' = mishaps + 1
  /\ disturbed' = disturbed \cup {s}
  /\ UNCHANGED storeVars

-----------------------------------------------------------------------------
(* The middleware before the handler. *)
Send(r) ==
  /\ phase[r] = "new"
  /\ phase' = [phase EXCEPT ![r] = "sent"]
  /\ sid' = [sid EXCEPT ![r] = jar]
  /\ UNCHANGED <<storeVars, used, jar, old, cookie, ownVars, callVars, mishaps, historyVars>>

\* The cookie's entry is loaded.
Load(r) ==
  LET s == sid[r]
  IN /\ phase[r] = "sent" /\ s # None
     /\ entry[s] = "live"
     /\ data' = [data EXCEPT ![r] = kept[s]]
     /\ cookie' = [cookie EXCEPT ![r] = s]
     /\ phase' = [phase EXCEPT ![r] = "handler"]
     /\ disturbed' = IF \E q \in Request : Holds(q, s) THEN disturbed \cup {s} ELSE disturbed
     /\ UNCHANGED <<storeVars, used, jar, sid, old, changed, destroyed, callVars, mishaps,
                    pastVars, ended>>

\* No cookie, or nothing under it: a new id, and a lapsed entry is removed.
LoadNothing(r) ==
  LET s == sid[r]
  IN /\ phase[r] = "sent" /\ Unused # {}
     /\ s # None => entry[s] # "live"
     /\ IF s # None THEN Erase(s) ELSE UNCHANGED storeVars
     /\ used' = used \cup {FreshSid}
     /\ sid' = [sid EXCEPT ![r] = FreshSid]
     /\ cookie' = [cookie EXCEPT ![r] = FreshSid]
     /\ phase' = [phase EXCEPT ![r] = "handler"]
     /\ UNCHANGED <<jar, old, ownVars, callVars, mishaps, historyVars>>

\* A failing get() answers null: the request starts a session of its own, and
\* the entry stays.
LoadFails(r) ==
  /\ phase[r] = "sent" /\ Unused # {}
  /\ sid[r] # None /\ Fails("get", sid[r])
  /\ used' = used \cup {FreshSid}
  /\ sid' = [sid EXCEPT ![r] = FreshSid]
  /\ cookie' = [cookie EXCEPT ![r] = FreshSid]
  /\ phase' = [phase EXCEPT ![r] = "handler"]
  /\ UNCHANGED <<jar, old, ownVars, callVars, pastVars, ended>>

-----------------------------------------------------------------------------
(* What the handler does with ctx.session. *)

\* set() and delete() are not async: they also come while the handler awaits a
\* regenerate(), or from work it left behind when it returned.
Running(r) == phase[r] \in {"handler", "regenerating", "saving"}

Written(r) ==
  /\ Running(r) /\ writes[r] < MaxWrites
  /\ writes' = [writes EXCEPT ![r] = @ + 1]
  /\ data' = [data EXCEPT ![r] = @ \cup {<<r, writes'[r]>>}]
  /\ raced' = IF phase[r] # "handler" \/ saves[r] > 0
              THEN raced \cup {<<r, writes'[r]>>} ELSE raced

SetUnmarked(r) ==
  /\ Written(r)
  /\ UNCHANGED <<storeVars, used, jar, phase, sid, old, cookie, changed, destroyed, saves,
                 mishaps, dropped, acked, disturbed, ended>>

Set(r) ==
  /\ Written(r)
  /\ changed' = [changed EXCEPT ![r] = TRUE]
  /\ UNCHANGED <<storeVars, used, jar, phase, sid, old, cookie, destroyed, saves, mishaps,
                 dropped, acked, disturbed, ended>>

\* delete() of some keys, or clear() of all.
Delete(r) ==
  /\ Running(r)
  /\ \E gone \in (SUBSET data[r]) \ {{}} :
       /\ data' = [data EXCEPT ![r] = @ \ gone]
       /\ dropped' = dropped \cup gone
  /\ changed' = [changed EXCEPT ![r] = TRUE]
  /\ UNCHANGED <<storeVars, used, jar, phase, sid, old, cookie, destroyed, callVars, mishaps,
                 raced, acked, disturbed, ended>>

\* delete() of the store.
Removed(s) ==
  \/ Erase(s) /\ UNCHANGED <<mishaps, disturbed>>
  \/ Fails("del", s)

\* regenerate(): the data under a new id first, then the old id removed.
Regenerate(r) ==
  /\ phase[r] = "handler" /\ Unused # {}
  /\ phase' = [phase EXCEPT ![r] = "regenerating"]
  /\ used' = used \cup {FreshSid}
  /\ sid' = [sid EXCEPT ![r] = FreshSid]
  /\ old' = [old EXCEPT ![r] = sid[r]]
  /\ \/ Put(FreshSid, data[r]) /\ UNCHANGED <<mishaps, disturbed>>
     \/ Fails("set", FreshSid)
  /\ UNCHANGED <<jar, cookie, ownVars, callVars, pastVars, ended>>

Regenerated(r) ==
  /\ phase[r] = "regenerating"
  /\ Removed(old[r])
  /\ ended' = ended \cup {old[r]}
  /\ old' = [old EXCEPT ![r] = None]
  /\ changed' = [changed EXCEPT ![r] = FALSE]
  /\ phase' = [phase EXCEPT ![r] = "handler"]
  /\ UNCHANGED <<used, jar, sid, cookie, data, destroyed, callVars, pastVars>>

Destroy(r) ==
  /\ phase[r] = "handler"
  /\ Removed(sid[r])
  /\ ended' = ended \cup {sid[r]}
  /\ data' = [data EXCEPT ![r] = {}]
  /\ changed' = [changed EXCEPT ![r] = FALSE]
  /\ destroyed' = [destroyed EXCEPT ![r] = TRUE]
  /\ UNCHANGED <<used, jar, phase, sid, old, cookie, callVars, pastVars>>

-----------------------------------------------------------------------------
(* save(), which handlers may call and the middleware does call.  A set()  *)
(* leaves `changed` as it is until the store has answered.                 *)
SaveDestroyed(r) ==
  /\ IF changed[r] THEN Put(sid[r], data[r]) ELSE Touch(sid[r])
  /\ saves' = IF changed[r] THEN [saves EXCEPT ![r] = @ + 1] ELSE saves
  /\ UNCHANGED <<mishaps, disturbed>>

Save(r) ==
  IF destroyed[r]
  THEN UNCHANGED <<storeVars, saves, mishaps, disturbed>>
  ELSE /\ \/ /\ IF changed[r] THEN Put(sid[r], data[r]) ELSE Touch(sid[r])
             /\ UNCHANGED <<mishaps, disturbed>>
          \/ Fails(IF changed[r] THEN "set" ELSE "expire", sid[r])
       /\ saves' = IF changed[r] THEN [saves EXCEPT ![r] = @ + 1] ELSE saves

HandlerSaves(r) ==
  /\ phase[r] = "handler" /\ saves[r] < MaxSaves
  /\ Save(r)
  /\ UNCHANGED <<used, jar, phase, sid, old, cookie, ownVars, writes, pastVars, ended>>

\* The store answered a set(): `changed` is cleared, whatever was written since.
SaveEnds(r) ==
  /\ saves[r] > 0
  /\ saves' = [saves EXCEPT ![r] = @ - 1]
  /\ changed' = [changed EXCEPT ![r] = FALSE]
  /\ UNCHANGED <<storeVars, used, jar, phase, sid, old, cookie, data, destroyed, writes,
                 mishaps, historyVars>>

\* The handler returned: the middleware saves, unless it was destroyed.
HandlerReturns(r) ==
  /\ phase[r] = "handler"
  /\ Save(r)
  /\ phase' = [phase EXCEPT ![r] = "saving"]
  /\ UNCHANGED <<used, jar, sid, old, cookie, ownVars, writes, pastVars, ended>>

\* Its save is over; those that were called before it were over earlier.
Saved(r) ==
  /\ phase[r] = "saving" /\ saves[r] = 0
  /\ phase' = [phase EXCEPT ![r] = "saved"]
  /\ UNCHANGED <<storeVars, used, jar, sid, old, cookie, ownVars, callVars, mishaps,
                 historyVars>>

\* It threw: nothing is saved and no cookie is set.
HandlerThrows(r) ==
  /\ phase[r] = "handler"
  /\ phase' = [phase EXCEPT ![r] = "done"]
  /\ UNCHANGED <<storeVars, used, jar, sid, old, cookie, ownVars, callVars, mishaps,
                 historyVars>>

\* The response.  The middleware sets the cookie on the context after the chain
\* built the Response, which does not carry it.  The browser learns an id, the
\* one the request began with or the one it has now, or that it is to forget
\* it, only when the application sees to it: a middleware outside this one that
\* builds the Response anew, or a handler that tells session.id.
Respond(r) ==
  /\ phase[r] = "saved"
  /\ phase' = [phase EXCEPT ![r] = "done"]
  /\ jar' \in {jar, cookie[r], sid[r]} \cup (IF destroyed[r] THEN {None} ELSE {})
  /\ acked' = IF destroyed[r] THEN acked
              ELSE [acked EXCEPT ![sid[r]] = @ \cup data[r]]
  /\ UNCHANGED <<storeVars, used, sid, old, cookie, ownVars, callVars, mishaps,
                 dropped, raced, disturbed, ended>>

Next ==
  \/ Cleanup \/ \E s \in Sid : Lapse(s)
  \/ \E r \in Request :
       \/ Send(r) \/ Load(r) \/ LoadNothing(r) \/ LoadFails(r)
       \/ Set(r) \/ Delete(r) \/ Regenerate(r) \/ Regenerated(r) \/ Destroy(r)
       \/ HandlerSaves(r) \/ SaveEnds(r) \/ HandlerReturns(r) \/ Saved(r)
       \/ HandlerThrows(r) \/ Respond(r)

Spec == Init /\ [][Next]_vars

-----------------------------------------------------------------------------
\* Writes the store may be without: deleted, or made while their session was
\* being stored, whose mark save() and regenerate() clear when they are over.
Waived == dropped \cup raced

\* What a response reported is still there, unless a request deleted it or it
\* was written while its session was being stored: for a session no two requests
\* ever held at a time (whole sessions are written back, so of overlapping
\* requests the last one wins) that neither lapsed nor was ended, and no command
\* on which failed: a failure elsewhere costs it nothing.
NothingLost ==
  \A s \in used \ (disturbed \cup ended) :
    acked[s] \ Waived \subseteq kept[s]

\* An id that was destroyed, or left by regenerate(), stays unknown to the
\* store whatever its request goes on to do; only a request that held it at
\* the same time can bring it back, and only a failing command leave it there.
EndedStays ==
  \A s \in ended \ disturbed : entry[s] = "absent"
=============================================================================

---------------------------- MODULE SessionParts ----------------------------
(***************************************************************************)
(* What several processes share besides the sessions: the Redis bridges    *)
(* between the room managers of server instances.  The property has the    *)
(* name by which the run and the theorem know it.                          *)
(***************************************************************************)
EXTENDS Naturals

CONSTANTS Instance, Payload, MaxPublishes

VARIABLES
  connects, connected, joining, subs, hooks, outbox, inbox, origin, order, missed, heard,
  published

Bridge == INSTANCE RedisBridge

bridge == <<connects, connected, joining, subs, hooks, outbox, inbox, origin, order, missed,
            heard, published>>

\* "none", the origin of a message nobody broadcast, is not an instance, and the
\* bound on the publishes is a natural number.
ASSUME BridgeAssumption == Bridge!None \notin Instance /\ MaxPublishes \in Nat

\* Messages of one origin are first heard in the order they were broadcast in.
FirstInOrder == Bridge!FirstInOrder
=============================================================================

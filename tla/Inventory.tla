------------------------------ MODULE Inventory -----------------------------
(***************************************************************************)
(* The device inventory kept from Headscale.                               *)
(*                                                                         *)
(*   src/internal/inventory/headscale.go   HeadscaleSync                   *)
(*   src/internal/api/server.go            handleListInventory             *)
(*                                                                         *)
(* Headscale's nodes come and go while a sync is between its request and   *)
(* its critical section, and while API requests read the inventory.        *)
(***************************************************************************)
EXTENDS Integers, FiniteSets

CONSTANTS DeviceNames

NodeStates == {"absent", "offline", "online"}
NoFetch == [n \in DeviceNames |-> "none"]

VARIABLES
    nodes,       \* Headscale's view of each node
    fetched,     \* Sync: what fetchNodes returned; NoFetch between syncs
    devices      \* HeadscaleSync.devices: name -> device, "none" if unknown

inventoryVars == <<nodes, fetched, devices>>

Unknown == [known |-> FALSE, online |-> FALSE, health |-> "unknown"]

InventoryTypeOK ==
    /\ nodes \in [DeviceNames -> NodeStates]
    /\ fetched \in [DeviceNames -> NodeStates] \cup {NoFetch}
    /\ devices \in [DeviceNames -> [known : BOOLEAN, online : BOOLEAN,
                                    health : {"unknown", "healthy", "unreachable"}]]

InventoryInit ==
    /\ nodes = [n \in DeviceNames |-> "absent"]
    /\ fetched = NoFetch
    /\ devices = [n \in DeviceNames |-> Unknown]

NodeChanges(n, s) ==
    /\ nodes[n] # s
    /\ nodes' = [nodes EXCEPT ![n] = s]
    /\ UNCHANGED <<fetched, devices>>

\* Start: at once and then at every tick, one Sync after the other. A failed
\* request leaves everything as it is until the next tick.
fetchNodes ==
    /\ fetched = NoFetch
    /\ fetched' = nodes
    /\ UNCHANGED <<nodes, devices>>

\* Online from the first is taken for healthy.
nodeToDevice(s) ==
    [known |-> TRUE, online |-> s = "online",
     health |-> IF s = "online" THEN "healthy" ELSE "unknown"]

\* A device of the list is added or its connectivity updated, its health left
\* alone; one that is not listed any more is unreachable, and stays known.
SyncDevice(n, s) ==
    CASE s # "absent" /\ ~devices[n].known -> nodeToDevice(s)
      [] s # "absent" /\ devices[n].known -> [devices[n] EXCEPT !.online = s = "online"]
      [] s = "absent" /\ devices[n].known ->
           [devices[n] EXCEPT !.online = FALSE, !.health = "unreachable"]
      [] OTHER -> devices[n]

\* Sync, the part under the mutex.
ApplySync ==
    /\ fetched # NoFetch
    /\ devices' = [n \in DeviceNames |-> SyncDevice(n, fetched[n])]
    /\ fetched' = NoFetch
    /\ UNCHANGED nodes

\* Another manager becomes the leader and starts from an empty inventory.
LeaderChanges ==
    /\ devices' = [n \in DeviceNames |-> Unknown]
    /\ fetched' = NoFetch
    /\ UNCHANGED nodes

InventoryNext ==
    \/ \E n \in DeviceNames, s \in NodeStates : NodeChanges(n, s)
    \/ fetchNodes
    \/ ApplySync
    \/ LeaderChanges

InventorySpec == InventoryInit /\ [][InventoryNext]_inventoryVars

-----------------------------------------------------------------------------
(* The readers see nothing of a device that no sync has found, and a       *)
(* device that is healthy or was lost is one that a sync has found.        *)
InventoryInv ==
    /\ InventoryTypeOK
    /\ \A n \in DeviceNames : devices[n].known \/ devices[n] = Unknown

(* A node that is gone from Headscale for good is in the end not shown     *)
(* online to the readers of the inventory (Devices, GetDevice, the API's   *)
(* list), whatever sync was under way when it disappeared and however      *)
(* often it came and went before, provided syncs keep succeeding.          *)
GoneIsOffline ==
    \A n \in DeviceNames :
        (<>[](nodes[n] = "absent")) => <>[](~devices[n].online)

=============================================================================

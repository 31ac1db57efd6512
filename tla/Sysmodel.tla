------------------------------ MODULE Sysmodel ------------------------------
(***************************************************************************)
(* sysmodel.cc: where the resources of each type are found, as chains of   *)
(* indices from the service root.  q is QueryParams: expand_levels and the *)
(* freshness of the last resource.                                         *)
(***************************************************************************)
EXTENDS RedfishNavigation

With(name, levels, freshness, adjust) ==
  [Name(name) EXCEPT !.params.expand = levels, !.params.freshness = freshness, !.adjust = adjust]
Systems(freshness) == <<With("Systems", 1, freshness, FALSE), Each>>
Chassis(freshness) == <<With("Chassis", 1, freshness, FALSE), Each>>
StorageOf(q) == <<With("Storage", 0, q.freshness, FALSE), Each>>
All(name) == <<Name(name), Each>>

\* Chassis, System, Memory, Storage
MainResources(q) ==
  [Chassis |-> <<<<With("Chassis", 0, q.freshness, FALSE), Each>>>>,
   System |-> <<Systems(q.freshness)>>,
   Memory |-> <<Systems("optional") \o <<With("Memory", q.levels, q.freshness, FALSE), Each>>>>,
   Storage |-> <<Systems("optional") \o StorageOf(q)>>]

\* Drive, LegacyStorageController, StorageController
StorageResources(q) ==
  [Drive |-> <<Systems("optional") \o StorageOf(q) \o All("Drives"),
               Chassis("optional") \o <<With("Drives", 0, q.freshness, FALSE), Each>>>>,
   LegacyStorageController |-> <<Systems("optional") \o StorageOf(q) \o All("StorageControllers")>>,
   StorageController |-> <<Systems("optional") \o StorageOf(q) \o All("Controllers"),
                           StorageOf(q) \o All("Controllers")>>]

\* Processor, PhysicalLpu, EthernetInterface
SystemResources(q) ==
  [Processor |-> <<Systems("optional") \o <<With("Processors", q.levels, q.freshness, TRUE), Each>>>>,
   PhysicalLpu |-> <<Systems("optional") \o <<With("Processors", q.levels, q.freshness, TRUE), Each>>
                       \o All("SubProcessors") \o All("SubProcessors")>>,
   EthernetInterface |-> <<Systems(q.freshness) \o All("EthernetInterfaces"),
                           All("Managers") \o All("EthernetInterfaces")>>]

\* Thermal, Temperature, Voltage, Fan, Sensor, SensorCollection
ChassisResources(q) ==
  [Thermal |-> <<Append(Chassis(q.freshness), Name("Thermal"))>>,
   Temperature |-> <<Chassis(q.freshness) \o <<Name("Thermal")>> \o All("Temperatures")>>,
   Voltage |-> <<Chassis(q.freshness) \o <<Name("Power")>> \o All("Voltages")>>,
   Fan |-> <<Chassis(q.freshness) \o <<With("Thermal", Unset, q.freshness, FALSE)>> \o All("Fans")>>,
   Sensor |-> <<Chassis("optional") \o <<With("Sensors", 1, q.freshness, FALSE), Each>>>>,
   SensorCollection |-> <<Append(Chassis("optional"), With("Sensors", 1, q.freshness, FALSE))>>]

\* PcieFunction, ComputerSystem, Manager, LogService, LogEntry
LogResources(q) ==
  [PcieFunction |-> <<Systems("optional") \o <<With("PCIeDevices", q.levels, q.freshness, TRUE), Each>>
                        \o <<Name("Links")>> \o All("PCIeFunctions")>>,
   ComputerSystem |-> <<Systems(q.freshness)>>,
   Manager |-> <<All("Managers")>>,
   LogService |-> <<Systems(q.freshness) \o All("LogServices"),
                    <<With("Managers", 1, q.freshness, FALSE), Each>> \o All("LogServices")>>,
   LogEntry |-> <<Chassis(q.freshness) \o All("LogServices") \o All("Entries")>>]

\* SoftwareInventory, ComponentIntegrity, PcieSlots, Switch.  RootOfTrust, which
\* starts at the service root of Google, is like ComponentIntegrity.
OtherResources(q) ==
  [SoftwareInventory |-> <<<<Name("UpdateService")>> \o All("FirmwareInventory"),
                           <<Name("UpdateService")>> \o All("SoftwareInventory")>>,
   ComponentIntegrity |-> <<All("ComponentIntegrity")>>,
   PcieSlots |-> <<Append(Chassis(q.freshness), Name("PCIeSlots"))>>,
   Switch |-> <<<<With("Fabrics", 1, q.freshness, FALSE), Each>> \o All("Switches")>>]

Resources(q) == MainResources(q) @@ StorageResources(q) @@ SystemResources(q)
                @@ ChassisResources(q) @@ LogResources(q) @@ OtherResources(q)

-----------------------------------------------------------------------------
RECURSIVE DeliverAll(_, _, _, _)
\* Mutant of Deliver: a URI that was met before is not recognized.
DeliverAll(found, s, once, limit) ==
  IF found = <<>> \/ s.stopped THEN s
  ELSE DeliverAll(Tail(found), [calls |-> Append(s.calls, Head(found)), stopped |-> Len(s.calls) + 1 >= limit], once, limit)

RECURSIVE Deliver(_, _, _, _)

\* The calls to a callback that returns kStop from its limit-th call on, as Do
\* makes them.  once is callback_once_per_uri: objects without a URI are never
\* taken for the same.
Deliver(found, s, once, limit) ==
  IF found = <<>> \/ s.stopped THEN s
  ELSE IF once /\ HasUri(Head(found).body) /\ \E v \in ToSet(s.calls) : HasUri(v.body) /\ UriOf(v.body) = UriOf(Head(found).body)
  THEN Deliver(Tail(found), s, once, limit)
  ELSE Deliver(Tail(found), [calls |-> Append(s.calls, Head(found)), stopped |-> Len(s.calls) + 1 >= limit], once, limit)

\* Of the resources with two chains these remember that the first was stopped;
\* the others go on to the second, and call the callback again.
StopsForGood == {"LogService", "SoftwareInventory"}
Chains(found, resource, limit) ==
  LET deliver(s, i) ==
        IF s.stopped /\ resource \in StopsForGood THEN s
        ELSE Deliver(found[i], [s EXCEPT !.stopped = FALSE], resource = "Drive", limit)
  IN  IF Len(found) = 1 THEN deliver([calls |-> <<>>, stopped |-> FALSE], 1)
      ELSE deliver(deliver([calls |-> <<>>, stopped |-> FALSE], 1), 2)

QueryAllResources(service, root, resource, q, limit) ==
  LET chains == Resources(q)[resource] IN
  Chains([i \in DOMAIN chains |-> Do(service, root, chains[i])], resource, limit).calls
=============================================================================

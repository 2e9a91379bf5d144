------------------------------ MODULE Registry ------------------------------
(***************************************************************************)
(* Stores, assets, equipment, customers and services, and the rows of      *)
(* other components that refer to them.  Each action is a handler up to    *)
(* its first statement; Tables has the rest.  Columns that are neither     *)
(* unique nor a reference are left out.                                    *)
(***************************************************************************)
EXTENDS Tables

CreateStore(c) == \E u \in Codings("code") : Create(c, "Store", u, {}, {"P2002"})
UpdateStore(c) ==
  \E id \in Ids("Store"), u \in Optional(Codings("code")) : Update(c, id, u, {}, {"P2002"})
DeleteStore(c) == \E id \in Ids("Store") : Delete(c, id, {})

CreateAsset(c) ==
  \E u \in Codings("code"), store \in Optional(Refs("Store")) :
    Create(c, "Asset", u, store, {"P2002"})
UpdateAsset(c) ==
  \E id \in Ids("Asset"), u \in Optional(Codings("code")), store \in Optional(Refs("Store")) :
    Update(c, id, u, store, {"P2002"})
DeleteAsset(c) == \E id \in Ids("Asset") : Delete(c, id, {"P2003"})

\* An asset is equipped once: assetId is unique as well as a reference.
CreateEquipment(c) ==
  \E asset \in Ids("Asset"), serial \in Optional(Codings("serialNumber")) :
    Create(c, "Equipment", {<<"assetId", asset>>} \cup serial, {asset}, {"P2002"})
UpdateEquipment(c) ==
  \E id \in Ids("Equipment"), serial \in Optional(Codings("serialNumber")) :
    Update(c, id, serial, {}, {"P2002"})
DeleteEquipment(c) == \E id \in Ids("Equipment") : Delete(c, id, {})

CreateCustomer(c) == \E u \in Codings("code") : Create(c, "Customer", u, {}, {"P2002"})
UpdateCustomer(c) ==
  \E id \in Ids("Customer"), u \in Optional(Codings("code")) : Update(c, id, u, {}, {"P2002"})
DeleteCustomer(c) == \E id \in Ids("Customer") : Delete(c, id, {"P2003"})

CreateService(c) == \E u \in Codings("name") : Create(c, "Service", u, {}, {"P2002"})
UpdateService(c) ==
  \E id \in Ids("Service"), u \in Optional(Codings("name")) : Update(c, id, u, {}, {"P2002"})

-----------------------------------------------------------------------------
(* Rows of other components.  Their other constraints are in the modules of  *)
(* those components.                                                         *)

CreateReservation(c) ==
  \E customer \in Ids("Customer"), equipment \in Ids("Equipment") :
    Create(c, "Reservation", {}, {customer, equipment}, {})
CreateBooking(c) ==
  \E service \in Ids("Service"), customer \in Optional(Refs("Customer")) :
    Create(c, "Booking", {}, {service} \cup customer, {})
RegisterDevice(c) ==
  \E store \in Ids("Store"), u \in Codings("name") : Create(c, "Device", u, {store}, {"P2002"})
UpdateDevice(c) ==
  \E id \in Ids("Device"), u \in Optional(Codings("name")) : Update(c, id, u, {}, {"P2002"})

RegistryRequest(c) ==
  \/ CreateStore(c) \/ UpdateStore(c) \/ DeleteStore(c)
  \/ CreateAsset(c) \/ UpdateAsset(c) \/ DeleteAsset(c)
  \/ CreateEquipment(c) \/ UpdateEquipment(c) \/ DeleteEquipment(c)
  \/ CreateCustomer(c) \/ UpdateCustomer(c) \/ DeleteCustomer(c)
  \/ CreateService(c) \/ UpdateService(c)
  \/ CreateReservation(c) \/ CreateBooking(c)
  \/ RegisterDevice(c) \/ UpdateDevice(c)

RegistryNext == \E c \in Requests : (Free(c) /\ RegistryRequest(c)) \/ Resolve(c) \/ Write(c)

RegistrySpec == TablesInit /\ [][RegistryNext]_vars
=============================================================================

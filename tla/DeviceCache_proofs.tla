------------------------- MODULE DeviceCache_proofs -------------------------
(***************************************************************************)
(* Theorems about DeviceCache, for every value of its constants.  First    *)
(* the variables keep their types; then what the caches hold, Core         *)
(* Metadata has.                                                           *)
(***************************************************************************)
EXTENDS DeviceCache, TLAPS

-----------------------------------------------------------------------------
(* How a goroutine moves on keeps its locals typed.                          *)

\* What a goroutine must hold before it goes to label l.
Fits(l, d, a) ==
    /\ l \in Labels
    /\ l \in DevLabels => d \in Device
    /\ l \in IdLabels => d \in KnownDevice
    /\ l \in {"FindName", "FetchDevice", "SetAdmin"} => a \in Alert
    /\ l \in {"FetchDevice", "SetAdmin"} => a.name \in Name
    /\ l = "SetAdmin" => a.admin \in AdminState

\* A goroutine that sets its locals and moves to a label they fit stays typed.
LEMMA CallKeeps ==
    ASSUME TypeInv, NEW g \in Proc, NEW name \in AllOps \cup {"none"},
           NEW d \in Device \cup {Nil}, NEW a \in Alert \cup {Nil}, NEW l,
           Fits(l, d, a), Call(g, name, d, a, l)
    PROVE  LocalsOK' /\ Ready'
  <1>1. LocalsOK' BY DEF TypeInv, TypeOK, LocalsOK, Fits, Call, Goto
  <1>2. Ready' BY DEF TypeInv, TypeOK, Ready, LocalsOK, Fits, Call, Goto
  <1>3. QED BY <1>1, <1>2

\* Continue only moves the label.
LEMMA ContinueKeeps ==
    ASSUME TypeInv, NEW g \in Proc, NEW l, Fits(l, dev[g], alert[g]),
           Continue(g, l)
    PROVE  LocalsOK' /\ Ready' /\ ProcessOK'
  <1>1. LocalsOK' BY DEF TypeInv, TypeOK, LocalsOK, Fits, Continue, Goto, locals
  <1>2. Ready' BY DEF TypeInv, TypeOK, Ready, LocalsOK, Fits, Continue, Goto, locals
  <1>3. ProcessOK' BY DEF TypeInv, TypeOK, ProcessOK, Continue, process
  <1>4. QED BY <1>1, <1>2, <1>3

\* Core Metadata holds devices with ids.
LEMMA StoredKnown == ASSUME TypeInv PROVE Stored \subseteq KnownDevice
  BY DEF TypeInv, TypeOK, StoreOK, Stored

\* Add learns the id of its device.
LEMMA IdKeeps ==
    ASSUME TypeInv, NEW g \in Proc, dev[g] \in Device, NEW i \in Id,
           NEW l \in {"AddProfile", "UpdateOpState"}, Goto(g, l),
           dev' = [dev EXCEPT ![g].id = i], UNCHANGED <<op, alert, process>>
    PROVE  LocalsOK' /\ Ready' /\ ProcessOK'
  <1>1. [dev[g] EXCEPT !.id = i] \in KnownDevice
    BY CacheAssumption DEF Device, KnownDevice
  <1>2. dev' = [dev EXCEPT ![g] = [dev[g] EXCEPT !.id = i]]
    OBVIOUS
  <1>3. LocalsOK'
    BY <1>1, <1>2 DEF TypeInv, TypeOK, LocalsOK, Goto, Labels, KnownDevice
  <1>4. Ready'
    BY <1>1, <1>2 DEF TypeInv, TypeOK, Ready, LocalsOK, Goto, DevLabels,
                      AddrLabels, IdLabels, KnownDevice
  <1>5. ProcessOK' BY DEF TypeInv, TypeOK, ProcessOK, process
  <1>6. QED BY <1>3, <1>4, <1>5

\* A callback learns a name or an admin state.
LEMMA AlertKeeps ==
    ASSUME TypeInv, NEW g \in Proc, NEW a \in Alert, a.name \in Name,
           NEW l \in {"FetchDevice", "SetAdmin"}, Goto(g, l),
           l = "SetAdmin" => a.admin \in AdminState,
           alert' = [alert EXCEPT ![g] = a], UNCHANGED <<op, dev, process>>
    PROVE  LocalsOK' /\ Ready' /\ ProcessOK'
  <1>1. LocalsOK'
    BY DEF TypeInv, TypeOK, LocalsOK, Goto, Labels
  <1>2. Ready'
    BY DEF TypeInv, TypeOK, Ready, LocalsOK, Goto, DevLabels, AddrLabels,
           IdLabels
  <1>3. ProcessOK' BY DEF TypeInv, TypeOK, ProcessOK, process
  <1>4. QED BY <1>1, <1>2, <1>3

\* Return clears the locals.
LEMMA ReturnKeeps ==
    ASSUME TypeInv, NEW g \in Proc, NEW l \in {"idle", "panicked"}, Return(g, l)
    PROVE  LocalsOK' /\ Ready'
  <1>1. LocalsOK' BY DEF TypeInv, TypeOK, LocalsOK, Return, Goto, Labels
  <1>2. Ready'
    BY DEF TypeInv, TypeOK, Ready, LocalsOK, Return, Goto, DevLabels,
           AddrLabels, IdLabels
  <1>3. QED BY <1>1, <1>2

\* Done returns and leaves the process as it is.
LEMMA DoneKeeps ==
    ASSUME TypeInv, NEW g \in Proc, Done(g)
    PROVE  LocalsOK' /\ Ready' /\ ProcessOK'
  <1>1. LocalsOK' /\ Ready' BY ReturnKeeps DEF Done
  <1>2. ProcessOK' BY DEF TypeInv, TypeOK, ProcessOK, Done, process
  <1>3. QED BY <1>1, <1>2

\* Fail returns and, in the boot, files the device as skipped.
LEMMA FailKeeps ==
    ASSUME TypeInv, NEW g \in Proc, Fail(g)
    PROVE  LocalsOK' /\ Ready' /\ ProcessOK'
  <1>1. LocalsOK' /\ Ready' BY ReturnKeeps DEF Fail
  <1>2. ProcessOK' BY DEF TypeInv, TypeOK, ProcessOK, LocalsOK, Fail
  <1>3. QED BY <1>1, <1>2

\* What is left unchanged stays typed.
LEMMA FrameKeeps ==
    ASSUME TypeInv
    PROVE  /\ UNCHANGED store => StoreOK'
           /\ UNCHANGED notice => NoticeOK'
           /\ UNCHANGED cache => CacheOK'
           /\ UNCHANGED process => ProcessOK'
           /\ UNCHANGED <<pc, locals>> => LocalsOK' /\ Ready'
           /\ UNCHANGED bounds => BoundsOK'
  BY DEF TypeInv, TypeOK, StoreOK, NoticeOK, CacheOK, ProcessOK, LocalsOK,
         BoundsOK, Ready, store, notice, cache, process, locals, bounds

-----------------------------------------------------------------------------
(* The steps of Add.                                                        *)

\* Every step of deviceCache.Add keeps the type invariant.
LEMMA AddStepKeepsType ==
    ASSUME TypeInv, NEW g \in Proc, AddStep(g)
    PROVE  TypeInv'
  <1> USE CacheAssumption DEF TypeInv, TypeOK
  <1>1. CASE Add(g)
    <2>1. LocalsOK' /\ Ready' /\ ProcessOK'
      BY <1>1, ContinueKeeps DEF Add, Ready, Fits, Labels, DevLabels, AddrLabels, IdLabels
    <2>2. StoreOK' /\ NoticeOK' /\ CacheOK' /\ BoundsOK'
      BY <1>1, FrameKeeps DEF Add, cache, store
    <2>3. QED BY <2>1, <2>2
  <1>2. CASE DelObjects(g)
    <2>1. LocalsOK' /\ Ready' /\ ProcessOK'
      BY <1>2, ContinueKeeps DEF DelObjects, Ready, Fits, Labels, DevLabels,
           AddrLabels, IdLabels
    <2>2. StoreOK' /\ NoticeOK' /\ CacheOK' /\ BoundsOK'
      BY <1>2, FrameKeeps DEF DelObjects, CacheOK, Ready, DevLabels, AddrLabels,
           IdLabels, KnownDevice, Device
    <2>3. QED BY <2>1, <2>2
  <1>3. CASE DelCommands(g)
    <2>1. LocalsOK' /\ Ready' /\ ProcessOK'
      BY <1>3, ContinueKeeps DEF DelCommands, Ready, Fits, Labels, DevLabels,
           AddrLabels, IdLabels
    <2>2. StoreOK' /\ NoticeOK' /\ CacheOK' /\ BoundsOK'
      BY <1>3, FrameKeeps DEF DelCommands, CacheOK, Ready, DevLabels, AddrLabels,
           IdLabels, KnownDevice, Device
    <2>3. QED BY <2>1, <2>2
  <1>4. CASE DelName(g)
    <2>1. LocalsOK' /\ Ready' /\ ProcessOK'
      BY <1>4, ContinueKeeps DEF DelName, Ready, Fits, Labels, DevLabels,
           AddrLabels, IdLabels
    <2>2. StoreOK' /\ NoticeOK' /\ CacheOK' /\ BoundsOK'
      BY <1>4, FrameKeeps DEF DelName, CacheOK, Ready, DevLabels, AddrLabels,
           IdLabels, KnownDevice, Device
    <2>3. QED BY <2>1, <2>2
  <1>5. CASE DelDevice(g)
    <2>1. LocalsOK' /\ Ready' /\ ProcessOK'
      BY <1>5, ContinueKeeps, DoneKeeps DEF DelDevice, Ready, Fits, Labels,
           DevLabels, AddrLabels, IdLabels
    <2>2. StoreOK' /\ NoticeOK' /\ CacheOK' /\ BoundsOK'
      BY <1>5, FrameKeeps DEF DelDevice, CacheOK, Ready, DevLabels, AddrLabels,
           IdLabels, KnownDevice, Device
    <2>3. QED BY <2>1, <2>2
  <1>6. CASE AddressableForName(g)
    <2>1. LocalsOK' /\ Ready' /\ ProcessOK'
      BY <1>6, ContinueKeeps, FailKeeps DEF AddressableForName, Ready, Fits,
           Labels, DevLabels, AddrLabels, IdLabels, WithAddressable, KnownDevice,
           Device
    <2>2. StoreOK' /\ NoticeOK' /\ CacheOK' /\ BoundsOK'
      BY <1>6, FrameKeeps DEF AddressableForName, cache, store
    <2>3. QED BY <2>1, <2>2
  <1>7. CASE AddAddressable(g)
    <2>1. LocalsOK' /\ Ready' /\ ProcessOK'
      BY <1>7, ContinueKeeps, FailKeeps DEF AddAddressable, Ready, Fits, Labels,
           DevLabels, AddrLabels, IdLabels, WithAddressable, KnownDevice, Device
    <2>2. StoreOK' /\ NoticeOK' /\ CacheOK' /\ BoundsOK'
      BY <1>7, FrameKeeps DEF AddAddressable, StoreOK, Ready, DevLabels,
           AddrLabels, IdLabels, KnownDevice, Device
    <2>3. QED BY <2>1, <2>2
  <1>8. CASE DeviceForName(g)
    <2>1. LocalsOK' /\ Ready' /\ ProcessOK'
      <3>1. CASE \E d \in Stored :
                   /\ dev' = [dev EXCEPT ![g].id = d.id]
                   /\ Goto(g, IF dev[g].opState = d.opState THEN "AddProfile"
                              ELSE "UpdateOpState")
                   /\ UNCHANGED <<op, alert, process>>
        <4>1. PICK d \in Stored :
                /\ dev' = [dev EXCEPT ![g].id = d.id]
                /\ Goto(g, IF dev[g].opState = d.opState THEN "AddProfile"
                           ELSE "UpdateOpState")
                /\ UNCHANGED <<op, alert, process>>
          BY <3>1
        <4>2. d.id \in Id BY StoredKnown DEF KnownDevice, Device
        <4>3. dev[g] \in Device
          BY <1>8 DEF DeviceForName, Ready, DevLabels, AddrLabels
        <4>4. QED BY <4>1, <4>2, <4>3, IdKeeps
      <3>2. CASE Continue(g, "AddToMetadata")
        BY <1>8, <3>2, ContinueKeeps
        DEF DeviceForName, Ready, Fits, Labels, DevLabels, AddrLabels, IdLabels
      <3>3. QED BY <1>8, <3>1, <3>2 DEF DeviceForName
    <2>2. StoreOK' /\ NoticeOK' /\ CacheOK' /\ BoundsOK'
      BY <1>8, FrameKeeps DEF DeviceForName, cache, store
    <2>3. QED BY <2>1, <2>2
  <1>9. CASE AddToMetadata(g)
    <2>1. LocalsOK' /\ Ready' /\ ProcessOK'
      <3>1. CASE \E i \in Id :
                   /\ dev' = [dev EXCEPT ![g].id = i]
                   /\ Goto(g, "AddProfile")
                   /\ UNCHANGED <<op, alert, process>>
        BY <1>9, <3>1, IdKeeps
        DEF AddToMetadata, Ready, DevLabels, AddrLabels, IdLabels
      <3>2. CASE Fail(g) BY <3>2, FailKeeps
      <3>3. QED BY <1>9, <3>1, <3>2 DEF AddToMetadata
    <2>2. StoreOK' /\ NoticeOK' /\ CacheOK' /\ BoundsOK'
      BY <1>9, FrameKeeps DEF AddToMetadata, StoreOK, Ready, DevLabels, AddrLabels,
           IdLabels, KnownDevice, Device, Create
    <2>3. QED BY <2>1, <2>2
  <1>10. CASE UpdateOpState(g)
    <2>1. LocalsOK' /\ Ready' /\ ProcessOK'
      BY <1>10, ContinueKeeps DEF UpdateOpState, Ready, Fits, Labels, DevLabels,
           AddrLabels, IdLabels
    <2>2. StoreOK' /\ NoticeOK' /\ CacheOK' /\ BoundsOK'
      BY <1>10, FrameKeeps DEF UpdateOpState, StoreOK, Ready, DevLabels,
           AddrLabels, IdLabels, KnownDevice, Device
    <2>3. QED BY <2>1, <2>2
  <1>11. CASE AddProfile(g)
    <2>1. LocalsOK' /\ Ready' /\ ProcessOK'
      BY <1>11, ContinueKeeps, FailKeeps DEF AddProfile, Ready, Fits, Labels,
           DevLabels, AddrLabels, IdLabels
    <2>2. StoreOK' /\ NoticeOK' /\ CacheOK' /\ BoundsOK'
      BY <1>11, FrameKeeps DEF AddProfile, cache, store
    <2>3. QED BY <2>1, <2>2
  <1>12. CASE PutObjects(g)
    <2>1. LocalsOK' /\ Ready' /\ ProcessOK'
      BY <1>12, ContinueKeeps DEF PutObjects, Ready, Fits, Labels, DevLabels,
           AddrLabels, IdLabels
    <2>2. StoreOK' /\ NoticeOK' /\ CacheOK' /\ BoundsOK'
      BY <1>12, FrameKeeps DEF PutObjects, CacheOK, Ready, DevLabels, AddrLabels,
           IdLabels, KnownDevice, Device
    <2>3. QED BY <2>1, <2>2
  <1>13. CASE PutCommands(g)
    <2>1. LocalsOK' /\ Ready' /\ ProcessOK'
      BY <1>13, ContinueKeeps DEF PutCommands, Ready, Fits, Labels, DevLabels,
           AddrLabels, IdLabels
    <2>2. StoreOK' /\ NoticeOK' /\ CacheOK' /\ BoundsOK'
      BY <1>13, FrameKeeps DEF PutCommands, CacheOK, Ready, DevLabels, AddrLabels,
           IdLabels, KnownDevice, Device
    <2>3. QED BY <2>1, <2>2
  <1>14. CASE PutDescriptors(g)
    <2>1. LocalsOK' /\ Ready' /\ ProcessOK'
      BY <1>14, ContinueKeeps DEF PutDescriptors, Ready, Fits, Labels, DevLabels,
           AddrLabels, IdLabels
    <2>2. StoreOK' /\ NoticeOK' /\ CacheOK' /\ BoundsOK'
      BY <1>14, FrameKeeps DEF PutDescriptors, cache, store
    <2>3. QED BY <2>1, <2>2
  <1>15. CASE PutDevice(g)
    <2>1. LocalsOK' /\ Ready' /\ ProcessOK'
      BY <1>15, ContinueKeeps DEF PutDevice, Ready, Fits, Labels, DevLabels,
           AddrLabels, IdLabels
    <2>2. StoreOK' /\ NoticeOK' /\ CacheOK' /\ BoundsOK'
      BY <1>15, FrameKeeps DEF PutDevice, CacheOK, Ready, DevLabels, AddrLabels,
           IdLabels, KnownDevice, Device
    <2>3. QED BY <2>1, <2>2
  <1>16. CASE PutName(g)
    <2>1. LocalsOK' /\ Ready' /\ ProcessOK'
      BY <1>16, ContinueKeeps, DoneKeeps DEF PutName, Ready, Fits, Labels,
           DevLabels, AddrLabels, IdLabels
    <2>2. StoreOK' /\ NoticeOK' /\ CacheOK' /\ BoundsOK'
      BY <1>16, FrameKeeps DEF PutName, CacheOK, Ready, DevLabels, AddrLabels,
           IdLabels, KnownDevice, Device
    <2>3. QED BY <2>1, <2>2
  <1>17. QED BY <1>1, <1>2, <1>3, <1>4, <1>5, <1>6, <1>7, <1>8, <1>9, <1>10, <1>11,
        <1>12, <1>13, <1>14, <1>15, <1>16 DEF AddStep

-----------------------------------------------------------------------------
(* The steps of Remove, Update and the callback.                            *)

\* Every step of Remove, Update and UpdateAdminState keeps the type invariant.
LEMMA HandlerStepKeepsType ==
    ASSUME TypeInv, NEW g \in Proc, HandlerStep(g)
    PROVE  TypeInv'
  <1> USE CacheAssumption DEF TypeInv, TypeOK
  <1>1. CASE DeleteInMetadata(g)
    <2>1. LocalsOK' /\ Ready' /\ ProcessOK'
      BY <1>1, ContinueKeeps, DoneKeeps
      DEF DeleteInMetadata, Ready, Fits, Labels, DevLabels, AddrLabels, IdLabels
    <2>2. StoreOK' /\ NoticeOK' /\ CacheOK' /\ BoundsOK'
      BY <1>1, FrameKeeps
      DEF DeleteInMetadata, StoreOK
    <2>3. QED BY <2>1, <2>2
  <1>2. CASE UpdateInMetadata(g)
    <2>1. LocalsOK' /\ Ready' /\ ProcessOK'
      BY <1>2, ContinueKeeps, DoneKeeps
      DEF UpdateInMetadata, Ready, Fits, Labels, DevLabels, AddrLabels, IdLabels
    <2>2. StoreOK' /\ NoticeOK' /\ CacheOK' /\ BoundsOK'
      BY <1>2, FrameKeeps
      DEF UpdateInMetadata, StoreOK, Ready, DevLabels, AddrLabels,
          IdLabels, KnownDevice, Device
    <2>3. QED BY <2>1, <2>2
  <1>3. CASE DelOldDevice(g)
    <2>1. LocalsOK' /\ Ready' /\ ProcessOK'
      BY <1>3, ContinueKeeps
      DEF DelOldDevice, Ready, Fits, Labels, DevLabels, AddrLabels, IdLabels
    <2>2. StoreOK' /\ NoticeOK' /\ CacheOK' /\ BoundsOK'
      BY <1>3, FrameKeeps
      DEF DelOldDevice, CacheOK
    <2>3. QED BY <2>1, <2>2
  <1>4. CASE FindName(g)
    <2>1. LocalsOK' /\ Ready' /\ ProcessOK'
      <3>1. CASE Done(g) BY <3>1, DoneKeeps
      <3>2. CASE ~Done(g)
        <4> DEFINE a == [alert[g] EXCEPT !.name = names[alert[g].id]]
        <4>1. alert[g] \in Alert /\ names[alert[g].id] \in Name
          BY <1>4, <3>2 DEF FindName, Ready, CacheOK, Alert
        <4>2. a \in Alert /\ a.name \in Name BY <4>1 DEF Alert
        <4>3. /\ alert' = [alert EXCEPT ![g] = a]
              /\ Goto(g, "FetchDevice")
              /\ UNCHANGED <<op, dev, process>>
          BY <1>4, <3>2 DEF FindName
        <4> HIDE DEF a
        <4>4. QED BY <4>2, <4>3, AlertKeeps
      <3>3. QED BY <3>1, <3>2
    <2>2. StoreOK' /\ NoticeOK' /\ CacheOK' /\ BoundsOK'
      BY <1>4, FrameKeeps
      DEF FindName, cache, store
    <2>3. QED BY <2>1, <2>2
  <1>5. CASE FetchDevice(g)
    <2>1. LocalsOK' /\ Ready' /\ ProcessOK'
      <3>1. CASE Done(g) BY <3>1, DoneKeeps
      <3>2. CASE ~Done(g)
        <4> DEFINE a == [alert[g] EXCEPT !.admin = meta[alert[g].id].admin]
        <4>1. alert[g] \in Alert /\ alert[g].name \in Name
          BY <1>5 DEF FetchDevice, Ready
        <4>2. meta[alert[g].id] \in KnownDevice
          BY <1>5, <3>2, <4>1 DEF FetchDevice, StoreOK, Alert
        <4>3. a \in Alert /\ a.name \in Name /\ a.admin \in AdminState
          BY <4>1, <4>2 DEF Alert, KnownDevice, Device
        <4>4. /\ alert' = [alert EXCEPT ![g] = a]
              /\ Goto(g, "SetAdmin")
              /\ UNCHANGED <<op, dev, process>>
          BY <1>5, <3>2 DEF FetchDevice
        <4> HIDE DEF a
        <4>5. QED BY <4>3, <4>4, AlertKeeps
      <3>3. QED BY <3>1, <3>2
    <2>2. StoreOK' /\ NoticeOK' /\ CacheOK' /\ BoundsOK'
      BY <1>5, FrameKeeps
      DEF FetchDevice, cache, store
    <2>3. QED BY <2>1, <2>2
  <1>6. CASE SetAdmin(g)
    <2>1. LocalsOK' /\ Ready' /\ ProcessOK'
      <3>1. CASE Done(g) BY <3>1, DoneKeeps
      <3>2. CASE Return(g, "panicked") /\ UNCHANGED process
        BY <3>2, ReturnKeeps, FrameKeeps
      <3>3. QED BY <1>6, <3>1, <3>2 DEF SetAdmin
    <2>2. StoreOK' /\ NoticeOK' /\ CacheOK' /\ BoundsOK'
      BY <1>6, FrameKeeps
      DEF SetAdmin, CacheOK, Ready, KnownDevice, Device, store
    <2>3. QED BY <2>1, <2>2
  <1>7. CASE Recover(g)
    <2>1. LocalsOK' /\ Ready' /\ ProcessOK'
      BY <1>7, ContinueKeeps
      DEF Recover, Ready, Fits, Labels, DevLabels, AddrLabels, IdLabels
    <2>2. StoreOK' /\ NoticeOK' /\ CacheOK' /\ BoundsOK'
      BY <1>7, FrameKeeps
      DEF Recover
    <2>3. QED BY <2>1, <2>2
  <1>8. QED BY <1>1, <1>2, <1>3, <1>4, <1>5, <1>6, <1>7 DEF HandlerStep

-----------------------------------------------------------------------------
(* Calls, the boot, other services and crashes.                              *)

\* Starting an operation keeps the type invariant.
LEMMA BeginKeepsType ==
    ASSUME TypeInv, NEW g \in Goroutine, Begin(g) \/ DescriptorPanic(g)
    PROVE  TypeInv'
  <1> USE CacheAssumption DEF TypeInv, TypeOK
  <1>0. g \in Proc BY DEF Proc
  <1>1. CASE AddDevice(g)
    <2>1. PICK d \in Offered : Start(g, "Add", d, Nil, "Add")
      BY <1>1 DEF AddDevice
    <2>2. d \in Device /\ Fits("Add", d, Nil)
      BY DEF Fits, Labels, DevLabels, AddrLabels, IdLabels
    <2>3. LocalsOK' /\ Ready'
      BY <1>0, <2>1, <2>2, CallKeeps DEF Start, AllOps
    <2>4. StoreOK' /\ NoticeOK' /\ CacheOK' /\ ProcessOK' /\ BoundsOK'
      BY <1>1, <2>1, FrameKeeps DEF AddDevice, Start, BoundsOK
    <2>5. QED BY <2>3, <2>4
  <1>2. CASE RemoveDevice(g)
    <2>1. PICK n \in Name : devices[n] # Nil /\
                 Start(g, "Remove", devices[n], Nil, "DeleteInMetadata")
      BY <1>2 DEF RemoveDevice
    <2>2. devices[n] \in KnownDevice BY <2>1 DEF CacheOK
    <2>3. Fits("DeleteInMetadata", devices[n], Nil)
      BY <2>2 DEF Fits, Labels, DevLabels, AddrLabels, IdLabels, KnownDevice
    <2>4. LocalsOK' /\ Ready'
      BY <1>0, <2>1, <2>2, <2>3, CallKeeps DEF Start, AllOps, KnownDevice
    <2>5. StoreOK' /\ NoticeOK' /\ CacheOK' /\ ProcessOK' /\ BoundsOK'
      BY <1>2, <2>1, FrameKeeps DEF RemoveDevice, Start, BoundsOK
    <2>6. QED BY <2>4, <2>5
  <1>3. CASE UpdateDevice(g)
    <2>1. PICK n \in Name, new \in Name, a \in AdminState :
            /\ devices[n] # Nil
            /\ Start(g, "Update",
                     [devices[n] EXCEPT !.name = new, !.admin = a], Nil,
                     "UpdateInMetadata")
      BY <1>3 DEF UpdateDevice
    <2> DEFINE d == [devices[n] EXCEPT !.name = new, !.admin = a]
    <2>2. d \in KnownDevice
      <3>1. devices[n] \in KnownDevice BY <2>1 DEF CacheOK
      <3>2. QED BY <3>1 DEF KnownDevice, Device
    <2> HIDE DEF d
    <2>3. Fits("UpdateInMetadata", d, Nil)
      BY <2>2 DEF Fits, Labels, DevLabels, AddrLabels, IdLabels, KnownDevice
    <2>4. Start(g, "Update", d, Nil, "UpdateInMetadata") BY <2>1 DEF d
    <2>5. LocalsOK' /\ Ready'
      BY <1>0, <2>2, <2>3, <2>4, CallKeeps DEF Start, AllOps, KnownDevice
    <2>6. StoreOK' /\ NoticeOK' /\ CacheOK' /\ ProcessOK' /\ BoundsOK'
      BY <1>3, <2>4, FrameKeeps DEF UpdateDevice, Start, BoundsOK
    <2>7. QED BY <2>5, <2>6
  <1>4. CASE Callback(g)
    <2>1. PICK i \in Id :
            /\ alerts[i] > 0
            /\ alerts' = [alerts EXCEPT ![i] = @ - 1]
            /\ Call(g, "UpdateAdminState", Nil,
                    [id |-> i, name |-> Nil, admin |-> Nil], "FindName")
      BY <1>4 DEF Callback
    <2> DEFINE a == [id |-> i, name |-> Nil, admin |-> Nil]
    <2>2. a \in Alert BY DEF Alert
    <2>3. Fits("FindName", Nil, a)
      BY <2>2 DEF Fits, Labels, DevLabels, AddrLabels, IdLabels
    <2>4. LocalsOK' /\ Ready'
      BY <1>0, <2>1, <2>2, <2>3, CallKeeps DEF AllOps
    <2>5. NoticeOK' BY <1>4, <2>1 DEF Callback, NoticeOK
    <2>6. StoreOK' /\ CacheOK' /\ ProcessOK' /\ BoundsOK'
      BY <1>4, FrameKeeps DEF Callback
    <2>7. QED BY <2>4, <2>5, <2>6
  <1>5. CASE DescriptorPanic(g)
    BY <1>0, <1>5, ReturnKeeps, FrameKeeps DEF DescriptorPanic, CannotDescribe
  <1>6. QED BY <1>1, <1>2, <1>3, <1>4, <1>5 DEF Begin

\* Boot, its loop over the device list, and the switch to serving keep the
\* type invariant.
LEMMA BootStepKeepsType ==
    ASSUME TypeInv, BootStep
    PROVE  TypeInv'
  <1> USE CacheAssumption DEF TypeInv, TypeOK
  <1>0. Main \in Proc BY DEF Proc
  <1>1. CASE Boot
    <2>1. ProcessOK' BY <1>1, StoredKnown DEF Boot, ProcessOK
    <2>2. NoticeOK' BY <1>1 DEF Boot, NoticeOK
    <2>3. QED BY <1>1, <2>1, <2>2, FrameKeeps DEF Boot
  <1>2. CASE LoadNext
    <2>1. PICK d \in boot : /\ boot' = boot \ {d}
                            /\ Call(Main, "Add", d, Nil, "Add")
      BY <1>2 DEF LoadNext
    <2>2. d \in Device /\ Fits("Add", d, Nil)
      BY DEF ProcessOK, KnownDevice, Fits, Labels, DevLabels, AddrLabels,
             IdLabels
    <2>3. LocalsOK' /\ Ready' BY <1>0, <2>1, <2>2, CallKeeps DEF AllOps
    <2>4. ProcessOK' BY <1>2, <2>1 DEF LoadNext, ProcessOK
    <2>5. QED BY <1>2, <2>3, <2>4, FrameKeeps DEF LoadNext
  <1>3. CASE Serve
    <2>1. ProcessOK' BY <1>3 DEF Serve, ProcessOK
    <2>2. QED BY <1>3, <2>1, FrameKeeps DEF Serve
  <1>4. QED BY <1>1, <1>2, <1>3 DEF BootStep

\* Other services keep the type invariant.
LEMMA OtherStepKeepsType ==
    ASSUME TypeInv, OtherStep
    PROVE  TypeInv'
  <1> USE CacheAssumption DEF TypeInv, TypeOK
  <1>1. CASE ChangeAdmin
    <2>1. StoreOK'
      BY <1>1 DEF ChangeAdmin, StoreOK, KnownDevice, Device
    <2>2. NoticeOK' BY <1>1 DEF ChangeAdmin, NoticeOK
    <2>3. BoundsOK' BY <1>1 DEF ChangeAdmin, BoundsOK
    <2>4. QED BY <1>1, <2>1, <2>2, <2>3, FrameKeeps DEF ChangeAdmin
  <1>2. CASE Delete
    <2>1. StoreOK' BY <1>2 DEF Delete, StoreOK
    <2>2. BoundsOK' BY <1>2 DEF Delete, BoundsOK
    <2>3. QED BY <1>2, <2>1, <2>2, FrameKeeps DEF Delete
  <1>3. QED BY <1>1, <1>2 DEF OtherStep

\* However the process ends, it loses its memory.
LEMMA CrashLoses ==
    ASSUME TypeInv, CrashStep
    PROVE  Lose /\ crashes' \in Nat
  BY DEF CrashStep, Killed, RaceAbort, DescriptorCrash, Crash, TypeInv, TypeOK,
         BoundsOK

\* A crash empties the caches and forgets every goroutine.
LEMMA LoseKeepsType ==
    ASSUME TypeInv, Lose, crashes' \in Nat
    PROVE  TypeInv'
  <1> USE CacheAssumption DEF TypeInv, TypeOK, Lose
  <1>1. CacheOK' BY DEF CacheOK, Empty
  <1>2. LocalsOK' BY DEF LocalsOK, Idle, Labels
  <1>3. Ready' BY DEF Ready, Idle, DevLabels, AddrLabels, IdLabels
  <1>4. NoticeOK' BY DEF NoticeOK
  <1>5. ProcessOK' BY DEF ProcessOK
  <1>6. BoundsOK' BY DEF BoundsOK
  <1>7. QED BY <1>1, <1>2, <1>3, <1>4, <1>5, <1>6, FrameKeeps

\* The type invariant holds initially.
LEMMA InitType == Init => TypeInv
  <1> SUFFICES ASSUME Init PROVE TypeInv OBVIOUS
  <1> USE CacheAssumption DEF Init
  <1>1. StoreOK
    <2>1. \A i \in Id : meta[i] # Nil => meta[i] \in Seed /\ meta[i].id = i
      OBVIOUS
    <2>2. QED BY <2>1 DEF StoreOK, KnownDevice, Device
  <1>2. CacheOK BY DEF CacheOK, Empty
  <1>3. LocalsOK /\ Ready
    BY DEF LocalsOK, Ready, Idle, Labels, DevLabels, AddrLabels, IdLabels
  <1>4. NoticeOK /\ ProcessOK /\ BoundsOK
    BY DEF NoticeOK, ProcessOK, BoundsOK
  <1>5. QED BY <1>1, <1>2, <1>3, <1>4 DEF TypeInv, TypeOK

\* Every step keeps the type invariant.
LEMMA NextKeepsType == TypeInv /\ [Next]_vars => TypeInv'
  <1> SUFFICES ASSUME TypeInv, [Next]_vars PROVE TypeInv' OBVIOUS
  <1>1. CASE CalmStep
    BY <1>1, AddStepKeepsType, HandlerStepKeepsType, BeginKeepsType,
       BootStepKeepsType, OtherStepKeepsType DEF CalmStep, Step
  <1>2. CASE CrashStep
    BY <1>2, CrashLoses, LoseKeepsType
  <1>3. CASE Rest \/ UNCHANGED vars
    BY <1>3, FrameKeeps DEF Rest, vars, TypeInv, TypeOK
  <1>4. QED BY <1>1, <1>2, <1>3 DEF Next

\* Every variable keeps its type in every state the device service reaches,
\* and what a goroutine holds fits the label it is at.
THEOREM TypeCorrect == Spec => []TypeOK
  <1>1. Spec => []TypeInv BY InitType, NextKeepsType, PTL DEF Spec
  <1>2. TypeInv => TypeOK BY DEF TypeInv
  <1>3. QED BY <1>1, <1>2, PTL

-----------------------------------------------------------------------------
(* The cache knows no identity Core Metadata has not stored: KnownIdentity.  *)
(* On its way to the cache a device passes through the boot list and the     *)
(* locals of goroutines, so the inductive invariant adds Vouched, which      *)
(* speaks about those.                                                       *)

IdentityInv == TypeInv /\ KnownIdentity /\ Vouched

\* Nothing is cached initially, and Core Metadata stores the seed.
LEMMA InitIdentity == Init => IdentityInv
  <1> SUFFICES ASSUME Init PROVE IdentityInv OBVIOUS
  <1> USE CacheAssumption
  <1>1. TypeInv BY InitType
  <1>2. KnownIdentity BY DEF Init, Empty, KnownIdentity
  <1>3. Vouched
    <2>1. \A i \in Id : meta[i] # Nil => meta[i] \in Seed /\ meta[i].id = i
      BY DEF Init
    <2>2. QED BY SMTT(30), <2>1 DEF Init, Idle, Vouched, DevLabels, AddrLabels, IdLabels
  <1>4. QED BY <1>1, <1>2, <1>3 DEF IdentityInv

\* Each step of deviceCache.Add keeps KnownIdentity and Vouched.
LEMMA AddStepKeepsIdentity ==
    ASSUME IdentityInv, NEW g \in Proc, AddStep(g)
    PROVE  KnownIdentity' /\ Vouched'
  <1> USE CacheAssumption DEF IdentityInv
  <1>1. CASE Add(g)
    <2>1. KnownIdentity'
      BY <1>1
      DEF Add, store, cache, KnownIdentity
    <2>2. Vouched'
      BY <1>1
      DEF Add, Goto, Continue, store, locals, process, Vouched, DevLabels
    <2>3. QED BY <2>1, <2>2
  <1>2. CASE DelObjects(g)
    <2>1. KnownIdentity'
      BY <1>2
      DEF DelObjects, store, KnownIdentity
    <2>2. Vouched'
      BY <1>2
      DEF DelObjects, Goto, Continue, store, locals, process, Vouched,
          DevLabels
    <2>3. QED BY <2>1, <2>2
  <1>3. CASE DelCommands(g)
    <2>1. KnownIdentity'
      BY <1>3
      DEF DelCommands, store, KnownIdentity
    <2>2. Vouched'
      BY <1>3
      DEF DelCommands, Goto, Continue, store, locals, process, Vouched,
          DevLabels
    <2>3. QED BY <2>1, <2>2
  <1>4. CASE DelName(g)
    <2>1. KnownIdentity'
      BY <1>4
      DEF DelName, store, KnownIdentity
    <2>2. Vouched'
      BY <1>4
      DEF DelName, Goto, Continue, store, locals, process, Vouched, DevLabels
    <2>3. QED BY <2>1, <2>2
  <1>5. CASE DelDevice(g)
    <2>1. KnownIdentity'
      BY <1>5
      DEF DelDevice, store, KnownIdentity
    <2>2. Vouched'
      BY <1>5
      DEF DelDevice, Goto, Return, Done, Continue, store, locals, process,
          Vouched, TypeInv, TypeOK, LocalsOK, DevLabels, AddrLabels, IdLabels
    <2>3. QED BY <2>1, <2>2
  <1>6. CASE AddressableForName(g)
    <2>1. KnownIdentity'
      BY <1>6
      DEF AddressableForName, store, cache, KnownIdentity
    <2>2. Vouched'
      BY <1>6
      DEF AddressableForName, Goto, Return, Fail, Continue, store, locals,
          process, Vouched, TypeInv, TypeOK, LocalsOK, DevLabels, AddrLabels,
          IdLabels
    <2>3. QED BY <2>1, <2>2
  <1>7. CASE AddAddressable(g)
    <2>1. KnownIdentity'
      BY <1>7
      DEF AddAddressable, store, cache, KnownIdentity
    <2>2. Vouched'
      BY <1>7
      DEF AddAddressable, Goto, Return, Fail, Continue, locals, process,
          Vouched, TypeInv, TypeOK, LocalsOK, DevLabels, AddrLabels, IdLabels
    <2>3. QED BY <2>1, <2>2
  <1>8. CASE DeviceForName(g)
    <2>1. KnownIdentity'
      BY <1>8
      DEF DeviceForName, store, cache, KnownIdentity
    <2>2. Vouched'
      BY <1>8
      DEF DeviceForName, Goto, Continue, store, locals, process, Stored,
          Vouched, Ready, TypeInv, TypeOK, StoreOK, LocalsOK, DevLabels,
          AddrLabels, Device
    <2>3. QED BY <2>1, <2>2
  <1>9. CASE AddToMetadata(g)
    <2>1. KnownIdentity'
      BY <1>9
      DEF AddToMetadata, Goto, Return, Done, Fail, Continue, store, cache,
          locals, process, bounds, Create, KnownIdentity, Vouched, Ready,
          TypeInv, TypeOK, CacheOK, StoreOK, ProcessOK, LocalsOK, DevLabels,
          AddrLabels, IdLabels, KnownDevice, Device, Proc
    <2>2. Vouched'
      BY <1>9
      DEF AddToMetadata, Goto, Return, Done, Fail, Continue, store, cache,
          locals, process, bounds, Create, KnownIdentity, Vouched, Ready,
          TypeInv, TypeOK, CacheOK, StoreOK, ProcessOK, LocalsOK, DevLabels,
          AddrLabels, IdLabels, KnownDevice, Device, Proc
    <2>3. QED BY <2>1, <2>2
  <1>10. CASE UpdateOpState(g)
    <2>1. KnownIdentity'
      BY <1>10
      DEF UpdateOpState, store, cache, KnownIdentity
    <2>2. Vouched'
      BY <1>10
      DEF UpdateOpState, Goto, Continue, locals, process, Vouched, TypeInv,
          TypeOK, StoreOK, DevLabels, AddrLabels, IdLabels, KnownDevice,
          Device
    <2>3. QED BY <2>1, <2>2
  <1>11. CASE AddProfile(g)
    <2>1. KnownIdentity'
      BY <1>11
      DEF AddProfile, store, cache, KnownIdentity
    <2>2. Vouched'
      BY <1>11
      DEF AddProfile, Goto, Return, Fail, Continue, store, locals, process,
          Vouched, TypeInv, TypeOK, LocalsOK, DevLabels, AddrLabels, IdLabels
    <2>3. QED BY <2>1, <2>2
  <1>12. CASE PutObjects(g)
    <2>1. KnownIdentity'
      BY <1>12
      DEF PutObjects, store, KnownIdentity
    <2>2. Vouched'
      BY <1>12
      DEF PutObjects, Goto, Continue, store, locals, process, Vouched,
          DevLabels, AddrLabels, IdLabels
    <2>3. QED BY <2>1, <2>2
  <1>13. CASE PutCommands(g)
    <2>1. KnownIdentity'
      BY <1>13
      DEF PutCommands, store, KnownIdentity
    <2>2. Vouched'
      BY <1>13
      DEF PutCommands, Goto, Continue, store, locals, process, Vouched,
          DevLabels, AddrLabels, IdLabels
    <2>3. QED BY <2>1, <2>2
  <1>14. CASE PutDescriptors(g)
    <2>1. KnownIdentity'
      BY <1>14
      DEF PutDescriptors, store, cache, KnownIdentity
    <2>2. Vouched'
      BY <1>14
      DEF PutDescriptors, Goto, Continue, store, locals, process, Vouched,
          DevLabels, AddrLabels, IdLabels
    <2>3. QED BY <2>1, <2>2
  <1>15. CASE PutDevice(g)
    <2>1. KnownIdentity'
      BY <1>15
      DEF PutDevice, Goto, Return, Done, Fail, Continue, store, cache, locals,
          process, bounds, KnownIdentity, Vouched, Ready, TypeInv, TypeOK,
          CacheOK, StoreOK, ProcessOK, LocalsOK, DevLabels, AddrLabels,
          IdLabels, KnownDevice, Device, Proc
    <2>2. Vouched'
      BY <1>15
      DEF PutDevice, Goto, Continue, store, locals, process, Vouched,
          DevLabels, AddrLabels, IdLabels
    <2>3. QED BY <2>1, <2>2
  <1>16. CASE PutName(g)
    <2>1. KnownIdentity'
      BY <1>16
      DEF PutName, Goto, Return, Done, Fail, Continue, store, cache, locals,
          process, bounds, KnownIdentity, Vouched, Ready, TypeInv, TypeOK,
          CacheOK, StoreOK, ProcessOK, LocalsOK, DevLabels, AddrLabels,
          IdLabels, KnownDevice, Device, Proc
    <2>2. Vouched'
      BY <1>16
      DEF PutName, Goto, Return, Done, store, process, Vouched, TypeInv,
          TypeOK, LocalsOK, DevLabels, AddrLabels, IdLabels
    <2>3. QED BY <2>1, <2>2
  <1>17. QED BY <1>1, <1>2, <1>3, <1>4, <1>5, <1>6, <1>7, <1>8, <1>9, <1>10, <1>11,
        <1>12, <1>13, <1>14, <1>15, <1>16 DEF AddStep

\* So does each step of Remove, Update and the callback.
LEMMA HandlerStepKeepsIdentity ==
    ASSUME IdentityInv, NEW g \in Proc, HandlerStep(g)
    PROVE  KnownIdentity' /\ Vouched'
  <1> USE CacheAssumption DEF IdentityInv
  <1>1. CASE DeleteInMetadata(g)
    <2>1. KnownIdentity'
      BY <1>1
      DEF DeleteInMetadata, store, cache, KnownIdentity
    <2>2. Vouched'
      BY <1>1
      DEF DeleteInMetadata, Goto, Return, Done, Continue, locals, process,
          Vouched, TypeInv, TypeOK, StoreOK, LocalsOK, DevLabels, AddrLabels,
          IdLabels
    <2>3. QED BY <2>1, <2>2
  <1>2. CASE UpdateInMetadata(g)
    <2>1. KnownIdentity'
      BY <1>2
      DEF UpdateInMetadata, store, cache, KnownIdentity
    <2>2. Vouched'
      BY <1>2
      DEF UpdateInMetadata, Goto, Return, Done, Continue, locals, process,
          KnownIdentity, Vouched, TypeInv, TypeOK, StoreOK, LocalsOK,
          DevLabels, AddrLabels, IdLabels
    <2>3. QED BY <2>1, <2>2
  <1>3. CASE DelOldDevice(g)
    <2>1. KnownIdentity'
      BY <1>3
      DEF DelOldDevice, store, KnownIdentity
    <2>2. Vouched'
      BY <1>3
      DEF DelOldDevice, Goto, Continue, store, locals, process, Vouched,
          DevLabels, AddrLabels, IdLabels
    <2>3. QED BY <2>1, <2>2
  <1>4. CASE FindName(g)
    <2>1. KnownIdentity'
      BY <1>4
      DEF FindName, store, cache, KnownIdentity
    <2>2. Vouched'
      BY <1>4
      DEF FindName, Goto, Return, Done, store, process, Vouched, TypeInv,
          TypeOK, LocalsOK, DevLabels, AddrLabels, IdLabels
    <2>3. QED BY <2>1, <2>2
  <1>5. CASE FetchDevice(g)
    <2>1. KnownIdentity'
      BY <1>5
      DEF FetchDevice, store, cache, KnownIdentity
    <2>2. Vouched'
      BY <1>5
      DEF FetchDevice, Goto, Return, Done, store, process, Vouched, TypeInv,
          TypeOK, LocalsOK, DevLabels, AddrLabels, IdLabels
    <2>3. QED BY <2>1, <2>2
  <1>6. CASE SetAdmin(g)
    <2>1. KnownIdentity'
      BY <1>6
      DEF SetAdmin, store, KnownIdentity, TypeInv, TypeOK, CacheOK,
          KnownDevice, Device
    <2>2. Vouched'
      BY <1>6
      DEF SetAdmin, Goto, Return, Done, store, process, Vouched, TypeInv,
          TypeOK, LocalsOK, DevLabels, AddrLabels, IdLabels
    <2>3. QED BY <2>1, <2>2
  <1>7. CASE Recover(g)
    <2>1. KnownIdentity'
      BY <1>7
      DEF Recover, store, cache, KnownIdentity
    <2>2. Vouched'
      BY <1>7
      DEF Recover, Goto, Continue, store, locals, process, Vouched, DevLabels,
          AddrLabels, IdLabels
    <2>3. QED BY <2>1, <2>2
  <1>8. QED BY <1>1, <1>2, <1>3, <1>4, <1>5, <1>6, <1>7 DEF HandlerStep

\* So does the start of an operation, and the panic of addDevice.
LEMMA BeginKeepsIdentity ==
    ASSUME IdentityInv, NEW g \in Goroutine, Begin(g) \/ DescriptorPanic(g)
    PROVE  KnownIdentity' /\ Vouched'
  <1> USE CacheAssumption DEF IdentityInv
  <1>1. CASE AddDevice(g)
    <2>1. KnownIdentity'
      BY <1>1
      DEF AddDevice, Start, Call, store, cache, KnownIdentity
    <2>2. Vouched'
      BY <1>1
      DEF AddDevice, Start, Call, Goto, store, process, Vouched, TypeInv,
          TypeOK, LocalsOK
    <2>3. QED BY <2>1, <2>2
  <1>2. CASE RemoveDevice(g)
    <2>1. KnownIdentity'
      BY <1>2
      DEF RemoveDevice, Start, Call, store, cache, KnownIdentity
    <2>2. Vouched'
      <3>1. PICK m \in Name : /\ devices[m] # Nil
                              /\ Start(g, "Remove", devices[m], Nil,
                                       "DeleteInMetadata")
        BY <1>2 DEF RemoveDevice
      <3>2. <<devices[m].id, devices[m].name>> \in held
        BY <3>1 DEF KnownIdentity
      <3>3. QED
        BY <3>1, <3>2 DEF Start, Call, Goto, Vouched, store, process, TypeInv,
                          TypeOK, LocalsOK, Proc
    <2>3. QED BY <2>1, <2>2
  <1>3. CASE UpdateDevice(g)
    <2>1. KnownIdentity'
      BY <1>3
      DEF UpdateDevice, Start, Call, store, cache, KnownIdentity
    <2>2. Vouched'
      BY <1>3
      DEF UpdateDevice, Start, Call, Goto, store, process, Vouched, DevLabels,
          AddrLabels, IdLabels
    <2>3. QED BY <2>1, <2>2
  <1>4. CASE Callback(g)
    <2>1. KnownIdentity'
      BY <1>4
      DEF Callback, store, cache, KnownIdentity
    <2>2. Vouched'
      BY <1>4
      DEF Callback, Call, Goto, store, process, Vouched, DevLabels,
          AddrLabels, IdLabels
    <2>3. QED BY <2>1, <2>2
  <1>5. CASE DescriptorPanic(g)
    <2>1. KnownIdentity'
      BY <1>5
      DEF DescriptorPanic, CannotDescribe, store, cache, KnownIdentity
    <2>2. Vouched'
      BY <1>5
      DEF DescriptorPanic, CannotDescribe, Goto, Return, store, process, Vouched, TypeInv,
          TypeOK, LocalsOK, DevLabels, AddrLabels, IdLabels
    <2>3. QED BY <2>1, <2>2
  <1>6. QED BY <1>1, <1>2, <1>3, <1>4, <1>5 DEF Begin

\* So does each step of newDeviceCache.
LEMMA BootStepKeepsIdentity ==
    ASSUME IdentityInv, BootStep
    PROVE  KnownIdentity' /\ Vouched'
  <1> USE CacheAssumption DEF IdentityInv
  <1>1. CASE Boot
    <2>1. KnownIdentity'
      BY <1>1
      DEF Boot, store, cache, KnownIdentity
    <2>2. Vouched'
      BY <1>1
      DEF Boot, store, locals, Stored, Vouched, TypeInv, TypeOK, StoreOK
    <2>3. QED BY <2>1, <2>2
  <1>2. CASE LoadNext
    <2>1. KnownIdentity'
      BY <1>2
      DEF LoadNext, store, cache, KnownIdentity
    <2>2. Vouched'
      BY <1>2
      DEF LoadNext, Call, Goto, store, Vouched, TypeInv, TypeOK, LocalsOK
    <2>3. QED BY <2>1, <2>2
  <1>3. CASE Serve
    <2>1. KnownIdentity'
      BY <1>3
      DEF Serve, store, cache, KnownIdentity
    <2>2. Vouched'
      BY <1>3
      DEF Serve, store, locals, Vouched, AddrLabels, IdLabels
    <2>3. QED BY <2>1, <2>2
  <1>4. QED BY <1>1, <1>2, <1>3 DEF BootStep

\* So does what other services do in Core Metadata.
LEMMA OtherStepKeepsIdentity ==
    ASSUME IdentityInv, OtherStep
    PROVE  KnownIdentity' /\ Vouched'
  <1> USE CacheAssumption DEF IdentityInv
  <1>1. CASE ChangeAdmin
    <2>1. KnownIdentity'
      BY <1>1
      DEF ChangeAdmin, store, cache, KnownIdentity
    <2>2. Vouched'
      BY <1>1
      DEF ChangeAdmin, locals, process, Vouched, AddrLabels, IdLabels
    <2>3. QED BY <2>1, <2>2
  <1>2. CASE Delete
    <2>1. KnownIdentity'
      BY <1>2
      DEF Delete, store, cache, KnownIdentity
    <2>2. Vouched'
      BY <1>2
      DEF Delete, locals, process, Vouched, AddrLabels, IdLabels
    <2>3. QED BY <2>1, <2>2
  <1>3. QED BY <1>1, <1>2 DEF OtherStep

\* A crash empties the caches, so it keeps it.
LEMMA LoseKeepsIdentity ==
    ASSUME IdentityInv, Lose
    PROVE  KnownIdentity' /\ Vouched'
  <1>1. KnownIdentity'
    BY CacheAssumption
      DEF Lose, Empty, Idle, store, IdentityInv, KnownIdentity, Vouched,
          DevLabels, AddrLabels, IdLabels
  <1>2. Vouched'
    BY CacheAssumption
      DEF Lose, Empty, Idle, store, IdentityInv, KnownIdentity, Vouched,
          DevLabels, AddrLabels, IdLabels
  <1>3. QED BY <1>1, <1>2

\* The invariant is inductive.
LEMMA NextKeepsIdentity == IdentityInv /\ [Next]_vars => IdentityInv'
  <1> SUFFICES ASSUME IdentityInv, [Next]_vars PROVE IdentityInv' OBVIOUS
  <1>1. TypeInv' BY NextKeepsType DEF IdentityInv
  <1>2. KnownIdentity' /\ Vouched'
    <2>1. CASE CalmStep
      BY <2>1, AddStepKeepsIdentity, HandlerStepKeepsIdentity, BeginKeepsIdentity,
         BootStepKeepsIdentity, OtherStepKeepsIdentity DEF CalmStep, Step
    <2>2. CASE CrashStep
      BY <2>2, CrashLoses, LoseKeepsIdentity DEF IdentityInv
    <2>3. CASE Rest \/ UNCHANGED vars
      BY <2>3 DEF Rest, vars, store, cache, process, locals, IdentityInv,
           KnownIdentity, Vouched
    <2>4. QED BY <2>1, <2>2, <2>3 DEF Next
  <1>3. QED BY <1>1, <1>2 DEF IdentityInv

\* Whatever the interleaving of Adds, Removes, Updates, callbacks and boots,
\* whichever client calls fail, and wherever the process crashes: the cache
\* pairs an id with a name only if Core Metadata stored that pair.
THEOREM IdentityKnown == Spec => []KnownIdentity
  <1>1. Spec => []IdentityInv
    BY InitIdentity, NextKeepsIdentity, PTL DEF Spec
  <1>2. IdentityInv => KnownIdentity BY DEF IdentityInv
  <1>3. QED BY <1>1, <1>2, PTL

\* As long as no name passes from one device to another, the device found by an
\* id is the device with that id, whatever the goroutines do: the two maps of
\* the cache do not mix devices up by themselves.
THEOREM IdentityStableUnique == Spec => [](NamesUnique => IdentityStable)
  <1>1. TypeOK /\ KnownIdentity /\ NamesUnique => IdentityStable
    <2> SUFFICES ASSUME TypeOK, KnownIdentity, NamesUnique, NEW i \in Id, DeviceById(i) # Nil
                 PROVE  DeviceById(i).id = i
      BY DEF IdentityStable
    <2>1. names[i] \in Name /\ devices[names[i]] # Nil
      BY CacheAssumption DEF TypeOK, CacheOK, DeviceById
    <2>2. <<i, names[i]>> \in held /\ <<devices[names[i]].id, names[i]>> \in held
      BY <2>1, CacheAssumption DEF KnownIdentity
    <2> QED BY <2>1, <2>2 DEF NamesUnique, DeviceById
  <1>2. QED BY <1>1, TypeCorrect, IdentityKnown, PTL

-----------------------------------------------------------------------------
(* The addressable is created first: AddressableExists.  The inductive       *)
(* invariant adds Backed: past the addressable's lookup or creation, it is   *)
(* there for the device in hand.                                             *)

AddressableInv == TypeInv /\ AddressableExists /\ Backed

\* Nothing is cached initially, and Core Metadata holds the seed only.
LEMMA InitAddressable == Init => AddressableInv
  <1> SUFFICES ASSUME Init PROVE AddressableInv OBVIOUS
  <1> USE CacheAssumption
  <1>1. TypeInv BY InitType
  <1>2. AddressableExists BY DEF Init, Empty, AddressableExists, SeedIds
  <1>3. Backed BY DEF Init, Idle, Backed, AddrLabels, IdLabels
  <1>4. QED BY <1>1, <1>2, <1>3 DEF AddressableInv

\* Each step of deviceCache.Add keeps AddressableExists and Backed.
LEMMA AddStepKeepsAddressable ==
    ASSUME AddressableInv, NEW g \in Proc, AddStep(g)
    PROVE  AddressableExists' /\ Backed'
  <1> USE CacheAssumption DEF AddressableInv
  <1>1. CASE Add(g)
    <2>1. AddressableExists'
      BY <1>1
      DEF Add, store, cache, AddressableExists
    <2>2. Backed'
      BY <1>1
      DEF Add, Goto, Continue, store, locals, Backed, AddrLabels, IdLabels
    <2>3. QED BY <2>1, <2>2
  <1>2. CASE DelObjects(g)
    <2>1. AddressableExists'
      BY <1>2
      DEF DelObjects, store, AddressableExists
    <2>2. Backed'
      BY <1>2
      DEF DelObjects, Goto, Continue, store, locals, Backed, AddrLabels,
          IdLabels
    <2>3. QED BY <2>1, <2>2
  <1>3. CASE DelCommands(g)
    <2>1. AddressableExists'
      BY <1>3
      DEF DelCommands, store, AddressableExists
    <2>2. Backed'
      BY <1>3
      DEF DelCommands, Goto, Continue, store, locals, Backed, AddrLabels,
          IdLabels
    <2>3. QED BY <2>1, <2>2
  <1>4. CASE DelName(g)
    <2>1. AddressableExists'
      BY <1>4
      DEF DelName, store, AddressableExists
    <2>2. Backed'
      BY <1>4
      DEF DelName, Goto, Continue, store, locals, Backed, AddrLabels, IdLabels
    <2>3. QED BY <2>1, <2>2
  <1>5. CASE DelDevice(g)
    <2>1. AddressableExists'
      BY <1>5
      DEF DelDevice, store, AddressableExists
    <2>2. Backed'
      BY <1>5
      DEF DelDevice, Goto, Return, Done, Continue, store, locals, Backed,
          TypeInv, TypeOK, LocalsOK, AddrLabels, IdLabels
    <2>3. QED BY <2>1, <2>2
  <1>6. CASE AddressableForName(g)
    <2>1. AddressableExists'
      BY <1>6
      DEF AddressableForName, store, cache, AddressableExists
    <2>2. Backed'
      BY <1>6
      DEF AddressableForName, Goto, Return, Fail, Continue, store, locals,
          Backed, TypeInv, TypeOK, LocalsOK, AddrLabels, IdLabels
    <2>3. QED BY <2>1, <2>2
  <1>7. CASE AddAddressable(g)
    <2>1. AddressableExists'
      BY <1>7
      DEF AddAddressable, cache, AddressableExists
    <2>2. Backed'
      BY <1>7
      DEF AddAddressable, Goto, Return, Fail, Continue, locals, Backed,
          TypeInv, TypeOK, LocalsOK, AddrLabels, IdLabels
    <2>3. QED BY <2>1, <2>2
  <1>8. CASE DeviceForName(g)
    <2>1. AddressableExists'
      BY <1>8
      DEF DeviceForName, store, cache, AddressableExists
    <2>2. Backed'
      BY <1>8
      DEF DeviceForName, Goto, Continue, store, locals, Backed, Ready,
          TypeInv, TypeOK, LocalsOK, DevLabels, AddrLabels, Device
    <2>3. QED BY <2>1, <2>2
  <1>9. CASE AddToMetadata(g)
    <2>1. AddressableExists'
      BY <1>9
      DEF AddToMetadata, cache, Create, AddressableExists, Backed, Ready,
          TypeInv, TypeOK, StoreOK, DevLabels, AddrLabels, Device
    <2>2. Backed'
      BY <1>9
      DEF AddToMetadata, Goto, Return, Fail, Backed, Ready, TypeInv, TypeOK,
          LocalsOK, DevLabels, AddrLabels, IdLabels, Device
    <2>3. QED BY <2>1, <2>2
  <1>10. CASE UpdateOpState(g)
    <2>1. AddressableExists'
      BY <1>10
      DEF UpdateOpState, cache, AddressableExists, TypeInv, TypeOK, StoreOK,
          KnownDevice, Device
    <2>2. Backed'
      BY <1>10
      DEF UpdateOpState, Goto, Continue, locals, Backed, AddrLabels, IdLabels
    <2>3. QED BY <2>1, <2>2
  <1>11. CASE AddProfile(g)
    <2>1. AddressableExists'
      BY <1>11
      DEF AddProfile, store, cache, AddressableExists
    <2>2. Backed'
      BY <1>11
      DEF AddProfile, Goto, Return, Fail, Continue, store, locals, Backed,
          TypeInv, TypeOK, LocalsOK, AddrLabels, IdLabels
    <2>3. QED BY <2>1, <2>2
  <1>12. CASE PutObjects(g)
    <2>1. AddressableExists'
      BY <1>12
      DEF PutObjects, store, AddressableExists
    <2>2. Backed'
      BY <1>12
      DEF PutObjects, Goto, Continue, store, locals, Backed, AddrLabels,
          IdLabels
    <2>3. QED BY <2>1, <2>2
  <1>13. CASE PutCommands(g)
    <2>1. AddressableExists'
      BY <1>13
      DEF PutCommands, store, AddressableExists
    <2>2. Backed'
      BY <1>13
      DEF PutCommands, Goto, Continue, store, locals, Backed, AddrLabels,
          IdLabels
    <2>3. QED BY <2>1, <2>2
  <1>14. CASE PutDescriptors(g)
    <2>1. AddressableExists'
      BY <1>14
      DEF PutDescriptors, store, cache, AddressableExists
    <2>2. Backed'
      BY <1>14
      DEF PutDescriptors, Goto, Continue, store, locals, Backed, AddrLabels,
          IdLabels
    <2>3. QED BY <2>1, <2>2
  <1>15. CASE PutDevice(g)
    <2>1. AddressableExists'
      BY <1>15
      DEF PutDevice, store, AddressableExists, Backed, AddrLabels, IdLabels
    <2>2. Backed'
      BY <1>15
      DEF PutDevice, Goto, Continue, store, locals, Backed, AddrLabels,
          IdLabels
    <2>3. QED BY <2>1, <2>2
  <1>16. CASE PutName(g)
    <2>1. AddressableExists'
      BY <1>16
      DEF PutName, store, AddressableExists
    <2>2. Backed'
      BY <1>16
      DEF PutName, Goto, Return, Done, store, Backed, TypeInv, TypeOK,
          LocalsOK, AddrLabels, IdLabels
    <2>3. QED BY <2>1, <2>2
  <1>17. QED BY <1>1, <1>2, <1>3, <1>4, <1>5, <1>6, <1>7, <1>8, <1>9, <1>10, <1>11,
        <1>12, <1>13, <1>14, <1>15, <1>16 DEF AddStep

\* So does each step of Remove, Update and the callback.
LEMMA HandlerStepKeepsAddressable ==
    ASSUME AddressableInv, NEW g \in Proc, HandlerStep(g)
    PROVE  AddressableExists' /\ Backed'
  <1> USE CacheAssumption DEF AddressableInv
  <1>1. CASE DeleteInMetadata(g)
    <2>1. AddressableExists'
      BY <1>1
      DEF DeleteInMetadata, cache, AddressableExists, TypeInv, TypeOK, StoreOK
    <2>2. Backed'
      BY <1>1
      DEF DeleteInMetadata, Goto, Return, Done, Continue, locals, Backed,
          TypeInv, TypeOK, LocalsOK, AddrLabels, IdLabels
    <2>3. QED BY <2>1, <2>2
  <1>2. CASE UpdateInMetadata(g)
    <2>1. AddressableExists'
      BY <1>2
      DEF UpdateInMetadata, cache, AddressableExists, Backed, TypeInv, TypeOK,
          StoreOK, AddrLabels, IdLabels
    <2>2. Backed'
      BY <1>2
      DEF UpdateInMetadata, Goto, Return, Done, Continue, locals, Backed,
          TypeInv, TypeOK, LocalsOK, AddrLabels, IdLabels
    <2>3. QED BY <2>1, <2>2
  <1>3. CASE DelOldDevice(g)
    <2>1. AddressableExists'
      BY <1>3
      DEF DelOldDevice, store, AddressableExists
    <2>2. Backed'
      BY <1>3
      DEF DelOldDevice, Goto, Continue, store, locals, Backed, AddrLabels,
          IdLabels
    <2>3. QED BY <2>1, <2>2
  <1>4. CASE FindName(g)
    <2>1. AddressableExists'
      BY <1>4
      DEF FindName, store, cache, AddressableExists
    <2>2. Backed'
      BY <1>4
      DEF FindName, Goto, Return, Done, store, Backed, TypeInv, TypeOK,
          LocalsOK, AddrLabels, IdLabels
    <2>3. QED BY <2>1, <2>2
  <1>5. CASE FetchDevice(g)
    <2>1. AddressableExists'
      BY <1>5
      DEF FetchDevice, store, cache, AddressableExists
    <2>2. Backed'
      BY <1>5
      DEF FetchDevice, Goto, Return, Done, store, Backed, TypeInv, TypeOK,
          LocalsOK, AddrLabels, IdLabels
    <2>3. QED BY <2>1, <2>2
  <1>6. CASE SetAdmin(g)
    <2>1. AddressableExists'
      BY <1>6
      DEF SetAdmin, store, AddressableExists, TypeInv, TypeOK, CacheOK,
          KnownDevice, Device
    <2>2. Backed'
      BY <1>6
      DEF SetAdmin, Goto, Return, Done, store, Backed, TypeInv, TypeOK,
          LocalsOK, AddrLabels, IdLabels
    <2>3. QED BY <2>1, <2>2
  <1>7. CASE Recover(g)
    <2>1. AddressableExists'
      BY <1>7
      DEF Recover, store, cache, AddressableExists
    <2>2. Backed'
      BY <1>7
      DEF Recover, Goto, Continue, store, locals, Backed, AddrLabels, IdLabels
    <2>3. QED BY <2>1, <2>2
  <1>8. QED BY <1>1, <1>2, <1>3, <1>4, <1>5, <1>6, <1>7 DEF HandlerStep

\* So does the start of an operation, and the panic of addDevice.
LEMMA BeginKeepsAddressable ==
    ASSUME AddressableInv, NEW g \in Goroutine, Begin(g) \/ DescriptorPanic(g)
    PROVE  AddressableExists' /\ Backed'
  <1> USE CacheAssumption DEF AddressableInv
  <1>1. CASE AddDevice(g)
    <2>1. AddressableExists'
      BY <1>1
      DEF AddDevice, Start, Call, store, cache, AddressableExists
    <2>2. Backed'
      BY <1>1
      DEF AddDevice, Start, Call, Goto, store, Backed, AddrLabels, IdLabels
    <2>3. QED BY <2>1, <2>2
  <1>2. CASE RemoveDevice(g)
    <2>1. AddressableExists'
      BY <1>2
      DEF RemoveDevice, Start, Call, store, cache, AddressableExists
    <2>2. Backed'
      BY <1>2
      DEF RemoveDevice, Start, Call, Goto, Return, Done, Fail, Continue,
          store, cache, locals, process, bounds, AddressableExists, Backed,
          Ready, TypeInv, TypeOK, CacheOK, StoreOK, ProcessOK, LocalsOK,
          DevLabels, AddrLabels, IdLabels, KnownDevice, Device, Proc
    <2>3. QED BY <2>1, <2>2
  <1>3. CASE UpdateDevice(g)
    <2>1. AddressableExists'
      BY <1>3
      DEF UpdateDevice, Start, Call, store, cache, AddressableExists
    <2>2. Backed'
      BY <1>3
      DEF UpdateDevice, Start, Call, Goto, Return, Done, Fail, Continue,
          store, cache, locals, process, bounds, AddressableExists, Backed,
          Ready, TypeInv, TypeOK, CacheOK, StoreOK, ProcessOK, LocalsOK,
          DevLabels, AddrLabels, IdLabels, KnownDevice, Device, Proc
    <2>3. QED BY <2>1, <2>2
  <1>4. CASE Callback(g)
    <2>1. AddressableExists'
      BY <1>4
      DEF Callback, store, cache, AddressableExists
    <2>2. Backed'
      BY <1>4
      DEF Callback, Call, Goto, store, Backed, AddrLabels, IdLabels
    <2>3. QED BY <2>1, <2>2
  <1>5. CASE DescriptorPanic(g)
    <2>1. AddressableExists'
      BY <1>5
      DEF DescriptorPanic, CannotDescribe, store, cache, AddressableExists
    <2>2. Backed'
      BY <1>5
      DEF DescriptorPanic, CannotDescribe, Goto, Return, store, Backed, TypeInv, TypeOK,
          LocalsOK, AddrLabels, IdLabels
    <2>3. QED BY <2>1, <2>2
  <1>6. QED BY <1>1, <1>2, <1>3, <1>4, <1>5 DEF Begin

\* So does each step of newDeviceCache.
LEMMA BootStepKeepsAddressable ==
    ASSUME AddressableInv, BootStep
    PROVE  AddressableExists' /\ Backed'
  <1> USE CacheAssumption DEF AddressableInv
  <1>1. CASE Boot
    <2>1. AddressableExists'
      BY <1>1
      DEF Boot, store, cache, AddressableExists
    <2>2. Backed'
      BY <1>1
      DEF Boot, store, locals, Backed, AddrLabels, IdLabels
    <2>3. QED BY <2>1, <2>2
  <1>2. CASE LoadNext
    <2>1. AddressableExists'
      BY <1>2
      DEF LoadNext, store, cache, AddressableExists
    <2>2. Backed'
      BY <1>2
      DEF LoadNext, Call, Goto, store, Backed, AddrLabels, IdLabels
    <2>3. QED BY <2>1, <2>2
  <1>3. CASE Serve
    <2>1. AddressableExists'
      BY <1>3
      DEF Serve, store, cache, AddressableExists
    <2>2. Backed'
      BY <1>3
      DEF Serve, store, locals, Backed, AddrLabels, IdLabels
    <2>3. QED BY <2>1, <2>2
  <1>4. QED BY <1>1, <1>2, <1>3 DEF BootStep

\* So does what other services do in Core Metadata.
LEMMA OtherStepKeepsAddressable ==
    ASSUME AddressableInv, OtherStep
    PROVE  AddressableExists' /\ Backed'
  <1> USE CacheAssumption DEF AddressableInv
  <1>1. CASE ChangeAdmin
    <2>1. AddressableExists'
      BY <1>1
      DEF ChangeAdmin, store, cache, AddressableExists
    <2>2. Backed'
      BY <1>1
      DEF ChangeAdmin, locals, Backed, DevLabels, AddrLabels, IdLabels
    <2>3. QED BY <2>1, <2>2
  <1>2. CASE Delete
    <2>1. AddressableExists'
      BY <1>2
      DEF Delete, store, cache, AddressableExists
    <2>2. Backed'
      BY <1>2
      DEF Delete, locals, Backed, DevLabels, AddrLabels, IdLabels
    <2>3. QED BY <2>1, <2>2
  <1>3. QED BY <1>1, <1>2 DEF OtherStep

\* A crash empties the caches, so it keeps it.
LEMMA LoseKeepsAddressable ==
    ASSUME AddressableInv, Lose
    PROVE  AddressableExists' /\ Backed'
  <1>1. AddressableExists'
    BY CacheAssumption
      DEF Lose, Empty, Idle, store, AddressableInv, AddressableExists, Backed,
          DevLabels, AddrLabels, IdLabels
  <1>2. Backed'
    BY CacheAssumption
      DEF Lose, Empty, Idle, store, AddressableInv, AddressableExists, Backed,
          DevLabels, AddrLabels, IdLabels
  <1>3. QED BY <1>1, <1>2

\* The invariant is inductive.
LEMMA NextKeepsAddressable == AddressableInv /\ [Next]_vars => AddressableInv'
  <1> SUFFICES ASSUME AddressableInv, [Next]_vars PROVE AddressableInv' OBVIOUS
  <1>1. TypeInv' BY NextKeepsType DEF AddressableInv
  <1>2. AddressableExists' /\ Backed'
    <2>1. CASE CalmStep
      BY <2>1, AddStepKeepsAddressable, HandlerStepKeepsAddressable,
           BeginKeepsAddressable,
         BootStepKeepsAddressable, OtherStepKeepsAddressable DEF CalmStep, Step
    <2>2. CASE CrashStep
      BY <2>2, CrashLoses, LoseKeepsAddressable DEF AddressableInv
    <2>3. CASE Rest \/ UNCHANGED vars
      BY <2>3 DEF Rest, vars, store, cache, process, locals, AddressableInv,
           AddressableExists, Backed
    <2>4. QED BY <2>1, <2>2, <2>3 DEF Next
  <1>3. QED BY <1>1, <1>2 DEF AddressableInv

\* Whatever fails and however Adds interleave: a device the service caches or
\* creates refers to an addressable Core Metadata has.
THEOREM AddressableFirst == Spec => []AddressableExists
  <1>1. Spec => []AddressableInv
    BY InitAddressable, NextKeepsAddressable, PTL DEF Spec
  <1>2. AddressableInv => AddressableExists BY DEF AddressableInv
  <1>3. QED BY <1>1, <1>2, PTL
=============================================================================

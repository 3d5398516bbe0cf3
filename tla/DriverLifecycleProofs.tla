------------------------ MODULE DriverLifecycleProofs ------------------------
(***************************************************************************)
(* Theorems about DriverLifecycle, for any number of devices and of open   *)
(* files.  The inductive invariant LifeInv says, for each point of         *)
(* pcie_sim_init and pcie_sim_exit, which registrations are held (Phase)   *)
(* and which devices are complete, in the making or not there (DeviceInv). *)
(***************************************************************************)
EXTENDS DriverLifecycle, TLAPS

\* Where create_platform_devices has a device in the making.
Making == {"add", "probe", "cdev", "node", "dir", "stats"}

\* The module, the loop variable and the driver's registrations at each point.
Phase ==
  /\ pc = "none" => module \in {"absent", "live"}
  /\ pc \in Making \cup {"region", "class", "driver", "alloc", "cleanup"} => module = "coming"
  /\ pc = "destroy" => module = "going"
  /\ pc \in {"err_devices", "err_driver", "err_class", "failed"} => module \in {"coming", "going"}
  /\ pc \notin Making \cup {"alloc", "cleanup", "destroy"} => i = 0
  /\ pc \in Making => i < DEVICE_COUNT
  /\ pc \in {"region", "failed"} => held = {}
  /\ pc \in {"class", "err_class"} => held = {"region"}
  /\ pc \in {"driver", "err_driver"} => held = {"region", "class"}
  /\ pc \in Making \cup {"alloc", "cleanup", "destroy", "err_devices"} => held = DriverWide
  /\ pc = "none" => held = IF module = "live" THEN DriverWide ELSE {}
  /\ module = "going" => \A d \in Devices : files[d] = 0

\* The devices whose probe has ended, well or not, and that are still registered.
Ended(d) ==
  \/ pc = "none" /\ module = "live"
  \/ pc \in Making \cup {"alloc", "cleanup"} /\ d < i
  \/ pc = "destroy" /\ i <= d

\* What a probe has set up when it reaches label l.
Built(l) ==
  CASE l = "cdev" -> {"mem", "slot"}
    [] l = "node" -> {"mem", "slot", "cdev"}
    [] l = "dir" -> {"mem", "slot", "cdev", "node"}
    [] l = "stats" -> {"mem", "slot", "cdev", "node", "dir"}
    [] OTHER -> {}

DeviceInv(d) ==
  /\ Ended(d) => pdev[d] = "added" /\ res[d] = IF bound[d] THEN PerDevice ELSE {}
  /\ pc \in Making /\ d = i =>
       /\ pdev[d] = IF pc = "add" THEN "allocated" ELSE "added"
       /\ res[d] = Built(pc) /\ ~bound[d]
  /\ ~Ended(d) /\ ~(pc \in Making /\ d = i) => pdev[d] = "none" /\ res[d] = {} /\ ~bound[d]
  /\ files[d] > 0 => "node" \in res[d]

LifeInv ==
  /\ TypeOK
  /\ Phase
  /\ \A d \in Devices : DeviceInv(d)

-----------------------------------------------------------------------------
\* What the steps of a probe add up to, and what its error paths take away.
LEMMA BuiltSteps ==
  /\ Built("add") = {} /\ Built("probe") = {}
  /\ Built("cdev") = {"mem", "slot"}
  /\ Built("node") = Built("cdev") \cup {"cdev"}
  /\ Built("dir") = Built("node") \cup {"node"}
  /\ Built("stats") = Built("dir") \cup {"dir"}
  /\ PerDevice = Built("stats") \cup {"stats"}
<1>1. /\ Built("node") = {"mem", "slot", "cdev"}
      /\ Built("dir") = {"mem", "slot", "cdev", "node"}
      /\ Built("stats") = {"mem", "slot", "cdev", "node", "dir"}
  BY DEF Built
<1>2. Built("add") = {} /\ Built("probe") = {} /\ Built("cdev") = {"mem", "slot"}
  BY DEF Built
<1> QED BY <1>1, <1>2 DEF PerDevice

LEMMA BuiltTypes == \A l \in Making : Built(l) \subseteq PerDevice
BY DEF Built, Making, PerDevice

LEMMA NodeBuilt ==
  /\ "node" \in PerDevice /\ "node" \in Built("stats")
  /\ \A l \in {"add", "probe", "cdev", "node"} : "node" \notin Built(l)
  /\ "node" \in Built("dir")
BY DEF Built, PerDevice

\* Every error path of the probe, and pcie_sim_remove, leaves nothing.
LEMMA ErrorPathsFree ==
  /\ Built("cdev") \ {"slot", "mem"} = {}
  /\ (Built("node") \ {"cdev"}) \ {"slot", "mem"} = {}
  /\ pcie_sim_char_cleanup(Built("dir")) \ {"slot", "mem"} = {}
  /\ pcie_sim_char_cleanup(Built("stats") \ {"dir"}) \ {"slot", "mem"} = {}
  /\ pcie_sim_char_cleanup(pcie_sim_proc_cleanup(PerDevice)) \ {"slot", "mem"} = {}
<1>1. /\ Built("cdev") = {"mem", "slot"} /\ Built("node") = {"mem", "slot", "cdev"}
      /\ Built("dir") = {"mem", "slot", "cdev", "node"}
      /\ Built("stats") = {"mem", "slot", "cdev", "node", "dir"}
  BY DEF Built
<1> QED BY <1>1 DEF pcie_sim_char_cleanup, pcie_sim_proc_cleanup, PerDevice

LEMMA LifeInvInit == Init => LifeInv
<1> SUFFICES ASSUME Init PROVE LifeInv
  OBVIOUS
<1>1. TypeOK
  BY LifecycleAssumption DEF Init, TypeOK, DriverWide, Nothing, NoFiles
<1>2. Phase
  BY DEF Init, Phase, Making
<1>3. ASSUME NEW d \in Devices PROVE DeviceInv(d)
  BY DEF Init, DeviceInv, Ended, Making, Nothing, NoFiles
<1> QED BY <1>1, <1>2, <1>3 DEF LifeInv

\* A device that a step does not touch.
LEMMA OtherDevice ==
  ASSUME NEW d \in Devices, DeviceInv(d),
         pdev'[d] = pdev[d], res'[d] = res[d], bound'[d] = bound[d],
         files'[d] > 0 => "node" \in res'[d],
         Ended(d)' <=> Ended(d),
         ~(pc \in Making /\ d = i), ~(pc' \in Making /\ d = i')
  PROVE  DeviceInv(d)'
BY Zenon DEF DeviceInv

\* The device in the making at label l.
LEMMA MadeDevice ==
  ASSUME NEW d \in Devices, d = i', pc' \in Making, ~(Ended(d)'),
         pdev'[d] = (IF pc' = "add" THEN "allocated" ELSE "added"),
         res'[d] = Built(pc'), ~bound'[d], files'[d] > 0 => "node" \in res'[d]
  PROVE  DeviceInv(d)'
BY Zenon DEF DeviceInv

\* A device whose probe has ended.
LEMMA EndedDevice ==
  ASSUME NEW d \in Devices, Ended(d)', pdev'[d] = "added", ~(pc' \in Making /\ d = i'),
         res'[d] = (IF bound'[d] THEN PerDevice ELSE {}), files'[d] > 0 => "node" \in res'[d]
  PROVE  DeviceInv(d)'
BY Zenon DEF DeviceInv

\* A device that is not there.
LEMMA AbsentDevice ==
  ASSUME NEW d \in Devices, ~(Ended(d)'), ~(pc' \in Making /\ d = i'),
         pdev'[d] = "none", res'[d] = {}, ~bound'[d], ~(files'[d] > 0)
  PROVE  DeviceInv(d)'
BY Zenon DEF DeviceInv

-----------------------------------------------------------------------------
\* The steps that register and deregister what belongs to the whole driver.

\* Outside the loops a step leaves all devices as they are.
LEMMA NoDeviceStep ==
  ASSUME LifeInv, UNCHANGED <<pdev, bound, res, files>>,
         \A d \in Devices : Ended(d)' <=> Ended(d),
         pc \notin Making, pc' \notin Making
  PROVE  \A d \in Devices : DeviceInv(d)'
<1> SUFFICES ASSUME NEW d \in Devices PROVE DeviceInv(d)'
  OBVIOUS
<1>1. DeviceInv(d) /\ (files'[d] > 0 => "node" \in res'[d])
  BY Zenon DEF LifeInv, DeviceInv
<1> QED BY <1>1, OtherDevice, Zenon

LEMMA RegisterStep ==
  ASSUME LifeInv,
         \/ pcie_sim_init \/ alloc_chrdev_region \/ class_create \/ platform_driver_register
         \/ platform_driver_unregister \/ class_destroy \/ unregister_chrdev_region \/ unloaded
  PROVE  LifeInv'
<1> USE DEF LifeInv
<1> DEFINE Summary ==
      /\ pc \in {"none", "region", "class", "driver", "err_devices", "err_driver", "err_class", "failed"}
      /\ pc' \in {"none", "region", "class", "driver", "alloc", "err_driver", "err_class", "failed"}
      /\ UNCHANGED <<pdev, bound, res, files>> /\ i = 0 /\ i' = 0
      /\ held' \in SUBSET DriverWide
      /\ stale' \in [Devices -> Nat]
      /\ module' \in {"absent", "coming", "going"} /\ module # "live"
<1>1. Summary
  <2>1. CASE pcie_sim_init
    BY <2>1 DEF pcie_sim_init, users, TypeOK, Phase, Making
  <2>2. CASE alloc_chrdev_region \/ class_create \/ platform_driver_register
    BY <2>2, Zenon DEF alloc_chrdev_region, class_create, platform_driver_register, Register, users,
                TypeOK, Phase, Making, DriverWide
  <2>3. CASE platform_driver_unregister \/ class_destroy \/ unregister_chrdev_region
    BY <2>3 DEF platform_driver_unregister, class_destroy, unregister_chrdev_region, Deregister,
                users, TypeOK, Phase, Making
  <2>4. CASE unloaded
    BY <2>4 DEF unloaded, NoFiles, TypeOK, Phase, Making
  <2> QED BY <2>1, <2>2, <2>3, <2>4
<1>2. TypeOK'
  BY <1>1 DEF TypeOK
<1>3. Phase'
  BY <1>1, Zenon DEF pcie_sim_init, alloc_chrdev_region, class_create, platform_driver_register, Register,
         platform_driver_unregister, class_destroy, unregister_chrdev_region, Deregister, unloaded,
         users, TypeOK, Phase, Making, DriverWide
<1>4. \A d \in Devices : DeviceInv(d)'
  <2>1. \A d \in Devices : ~Ended(d) /\ ~(Ended(d)')
    BY <1>1 DEF Ended, Making, Devices
  <2>2. pc \notin Making /\ pc' \notin Making
    BY <1>1 DEF Making
  <2> QED BY <1>1, <2>1, <2>2, NoDeviceStep
<1> QED BY <1>2, <1>3, <1>4

\* pcie_sim_init returns, pcie_sim_exit begins.
LEMMA LiveStep ==
  ASSUME LifeInv, create_platform_devices_done \/ pcie_sim_exit
  PROVE  LifeInv'
<1> USE DEF LifeInv
<1>1. CASE create_platform_devices_done
  <2>1. /\ pc = "alloc" /\ i = DEVICE_COUNT /\ module' = "live" /\ pc' = "none" /\ i' = 0
        /\ UNCHANGED <<held, pdev, bound, res, files, stale>>
    BY <1>1 DEF create_platform_devices_done, users
  <2>2. TypeOK' /\ Phase'
    BY <2>1, LifecycleAssumption DEF TypeOK, Phase, Making
  <2>3. \A d \in Devices : Ended(d) /\ Ended(d)'
    BY <2>1, LifecycleAssumption DEF Ended, Making, Devices
  <2>4. pc \notin Making /\ pc' \notin Making
    BY <2>1 DEF Making
  <2> QED BY <2>1, <2>2, <2>3, <2>4, NoDeviceStep
<1>2. CASE pcie_sim_exit
  <2>1. /\ pc = "none" /\ module = "live" /\ module' = "going" /\ pc' = "destroy" /\ i' = 0
        /\ \A d \in Devices : files[d] = 0
        /\ UNCHANGED <<held, pdev, bound, res, files, stale>>
    BY <1>2 DEF pcie_sim_exit, users, TypeOK, Phase, Making
  <2>2. TypeOK' /\ Phase'
    BY <2>1, LifecycleAssumption DEF TypeOK, Phase, Making
  <2>3. \A d \in Devices : Ended(d) /\ Ended(d)'
    BY <2>1, LifecycleAssumption DEF Ended, Making, Devices
  <2>4. pc \notin Making /\ pc' \notin Making
    BY <2>1 DEF Making
  <2> QED BY <2>1, <2>2, <2>3, <2>4, NoDeviceStep
<1> QED BY <1>1, <1>2

-----------------------------------------------------------------------------
\* The loop of create_platform_devices, and the probe inside it.

InLoop == Making \cup {"alloc", "cleanup"}

\* A step of the loop on device i leaves the other devices as they are.
LEMMA OthersInLoop ==
  ASSUME LifeInv, NEW d \in Devices, d # i, pc \in InLoop, pc' \in InLoop,
         i' = i \/ (i' = i + 1 /\ pc' = "alloc"),
         pdev'[d] = pdev[d], bound'[d] = bound[d], res'[d] = res[d], files'[d] = files[d]
  PROVE  DeviceInv(d)'
<1>1. Ended(d)' <=> Ended(d)
  BY DEF Ended, InLoop, Making, LifeInv, TypeOK, Devices
<1>2. ~(pc \in Making /\ d = i) /\ ~(pc' \in Making /\ d = i')
  BY DEF Making
<1>3. DeviceInv(d) /\ (files'[d] > 0 => "node" \in res'[d])
  BY Zenon DEF LifeInv, DeviceInv
<1> QED BY <1>1, <1>2, <1>3, OtherDevice, Zenon

\* What is known of the device in the making.
LEMMA AtMaking ==
  ASSUME LifeInv, pc \in Making
  PROVE  /\ i \in Devices /\ i \in Nat /\ module = "coming" /\ held = DriverWide
         /\ pdev[i] = IF pc = "add" THEN "allocated" ELSE "added"
         /\ res[i] = Built(pc) /\ ~bound[i]
         /\ files[i] > 0 => "node" \in Built(pc)
<1>1. i \in Devices /\ i \in Nat
  BY LifecycleAssumption DEF LifeInv, TypeOK, Phase, Making, Devices
<1>2. module = "coming" /\ held = DriverWide
  BY Zenon DEF LifeInv, Phase
<1>3. DeviceInv(i)
  BY <1>1, Zenon DEF LifeInv
<1> QED BY <1>1, <1>2, <1>3, Zenon DEF DeviceInv

\* And of one that is about to be made.
LEMMA AtAlloc ==
  ASSUME LifeInv, pc = "alloc", i < DEVICE_COUNT
  PROVE  /\ i \in Devices /\ module = "coming" /\ held = DriverWide
         /\ pdev[i] = "none" /\ res[i] = {} /\ ~bound[i] /\ ~(files[i] > 0)
<1>1. i \in Devices /\ ~Ended(i) /\ pc \notin Making
  BY LifecycleAssumption DEF LifeInv, TypeOK, Ended, Making, Devices
<1>2. module = "coming" /\ held = DriverWide
  BY Zenon DEF LifeInv, Phase
<1>3. DeviceInv(i)
  BY <1>1, Zenon DEF LifeInv
<1> QED BY <1>1, <1>2, <1>3, Zenon DEF DeviceInv

\* Phase at the labels of the loop.
LEMMA LoopPhase ==
  ASSUME pc' \in InLoop, module' = "coming", held' = DriverWide,
         pc' \in Making => i' < DEVICE_COUNT
  PROVE  Phase'
<1>1. pc' \notin {"none", "destroy", "err_devices", "err_driver", "err_class", "failed",
                  "region", "class", "driver"}
  BY DEF InLoop, Making
<1> QED BY <1>1, Zenon DEF Phase, InLoop

LEMMA AllocStep ==
  ASSUME LifeInv, platform_device_alloc
  PROVE  LifeInv'
<1>1. /\ pc = "alloc" /\ i < DEVICE_COUNT
      /\ UNCHANGED <<module, i, held, bound, res, files, stale>>
      /\ \/ pdev' = [pdev EXCEPT ![i] = "allocated"] /\ pc' = "add"
         \/ UNCHANGED pdev /\ pc' = "cleanup"
  BY Zenon DEF platform_device_alloc, users
<1>2. /\ i \in Devices /\ module = "coming" /\ held = DriverWide
      /\ pdev[i] = "none" /\ res[i] = {} /\ ~bound[i] /\ ~(files[i] > 0)
  BY <1>1, AtAlloc, Zenon
<1>3. TypeOK'
  BY <1>1 DEF LifeInv, TypeOK
<1>4. pc \in InLoop /\ pc' \in InLoop
  BY <1>1, Zenon DEF InLoop, Making
<1>5. Phase'
  BY <1>1, <1>2, <1>4, LoopPhase, Zenon
<1>6. ASSUME NEW d \in Devices PROVE DeviceInv(d)'
  <2>1. CASE d # i
    <3>1. pdev'[d] = pdev[d]
      BY <1>1, <2>1 DEF LifeInv, TypeOK
    <3> QED BY <1>1, <1>4, <2>1, <3>1, OthersInLoop, Zenon
  <2>2. CASE d = i /\ pc' = "add"
    <3>1. pdev'[d] = "allocated" /\ res'[d] = Built("add") /\ ~bound'[d] /\ ~(files'[d] > 0)
      BY <1>1, <1>2, <2>2, BuiltSteps, Zenon DEF LifeInv, TypeOK
    <3>2. pc' \in Making /\ ~(Ended(d)')
      BY <1>1, <2>2 DEF Ended, Making, LifeInv, TypeOK
    <3> QED BY <1>1, <2>2, <3>1, <3>2, MadeDevice, Zenon
  <2>3. CASE d = i /\ pc' = "cleanup"
    <3>1. pdev'[d] = "none" /\ res'[d] = {} /\ ~bound'[d] /\ ~(files'[d] > 0)
      BY <1>1, <1>2, <2>3
    <3>2. pc' \notin Making /\ ~(Ended(d)')
      BY <1>1, <2>3 DEF Ended, Making, LifeInv, TypeOK
    <3> QED BY <3>1, <3>2, AbsentDevice, Zenon
  <2> QED BY <1>1, <2>1, <2>2, <2>3, Zenon
<1> QED BY <1>3, <1>5, <1>6, Zenon DEF LifeInv

LEMMA AddStep ==
  ASSUME LifeInv, platform_device_add
  PROVE  LifeInv'
<1>1. /\ pc = "add" /\ UNCHANGED <<module, i, held, bound, res, files, stale>>
      /\ \/ pdev' = [pdev EXCEPT ![i] = "added"] /\ pc' = "probe"
         \/ pdev' = [pdev EXCEPT ![i] = "none"] /\ pc' = "cleanup"
  BY Zenon DEF platform_device_add, users
<1>2. /\ i \in Devices /\ module = "coming" /\ held = DriverWide
      /\ res[i] = {} /\ ~bound[i] /\ ~(files[i] > 0)
  <2>1. pc \in Making /\ Built(pc) = {} /\ "node" \notin {}
    BY <1>1, BuiltSteps DEF Making
  <2> QED BY <2>1, AtMaking, Zenon
<1>3. TypeOK'
  BY <1>1 DEF LifeInv, TypeOK
<1>4. pc \in InLoop /\ pc' \in InLoop
  BY <1>1, Zenon DEF InLoop, Making
<1>5. Phase'
  <2>1. i' < DEVICE_COUNT
    BY <1>1 DEF LifeInv, Phase, Making
  <2> QED BY <1>1, <1>2, <1>4, <2>1, LoopPhase, Zenon
<1>6. ASSUME NEW d \in Devices PROVE DeviceInv(d)'
  <2>1. CASE d # i
    <3>1. pdev'[d] = pdev[d]
      BY <1>1, <2>1 DEF LifeInv, TypeOK
    <3> QED BY <1>1, <1>4, <2>1, <3>1, OthersInLoop, Zenon
  <2>2. CASE d = i /\ pc' = "probe"
    <3>1. pdev'[d] = "added" /\ res'[d] = Built("probe") /\ ~bound'[d] /\ ~(files'[d] > 0)
      BY <1>1, <1>2, <2>2, BuiltSteps DEF LifeInv, TypeOK
    <3>2. pc' \in Making /\ ~(Ended(d)') /\ pc' # "add"
      BY <1>1, <2>2 DEF Ended, Making, LifeInv, TypeOK
    <3> QED BY <1>1, <2>2, <3>1, <3>2, MadeDevice, Zenon
  <2>3. CASE d = i /\ pc' = "cleanup"
    <3>1. pdev'[d] = "none" /\ res'[d] = {} /\ ~bound'[d] /\ ~(files'[d] > 0)
      BY <1>1, <1>2, <2>3 DEF LifeInv, TypeOK
    <3>2. pc' \notin Making /\ ~(Ended(d)')
      BY <1>1, <2>3 DEF Ended, Making, LifeInv, TypeOK
    <3> QED BY <3>1, <3>2, AbsentDevice, Zenon
  <2> QED BY <1>1, <2>1, <2>2, <2>3, Zenon
<1> QED BY <1>3, <1>5, <1>6, Zenon DEF LifeInv

\* A step of the probe that adds R and goes on at label next.
LEMMA SetUpStep ==
  ASSUME LifeInv, NEW next \in {"cdev", "node", "dir", "stats"}, NEW R,
         pc \in Making \ {"add"}, pc' = next,
         res' = [res EXCEPT ![i] = @ \cup R], Built(next) = Built(pc) \cup R,
         UNCHANGED <<module, i, held, pdev, bound, files, stale>>
  PROVE  LifeInv'
<1>1. /\ i \in Devices /\ module = "coming" /\ held = DriverWide
      /\ pdev[i] = "added" /\ res[i] = Built(pc) /\ ~bound[i]
      /\ files[i] > 0 => "node" \in Built(pc)
  <2>1. pc \in Making /\ pc # "add"
    BY Zenon
  <2> QED BY <2>1, AtMaking, Zenon
<1>2. next \in Making /\ next # "add"
  BY DEF Making
<1>3. res'[i] = Built(next)
  BY <1>1 DEF LifeInv, TypeOK
<1>4. TypeOK'
  <2>1. Built(next) \in SUBSET PerDevice
    BY <1>2, BuiltTypes, Zenon
  <2>2. res' \in [Devices -> SUBSET PerDevice]
    BY <1>1, <2>1 DEF LifeInv, TypeOK
  <2>3. pc' \in {"cdev", "node", "dir", "stats"}
    OBVIOUS
  <2> QED BY <2>2, <2>3 DEF LifeInv, TypeOK
<1>5. pc \in InLoop /\ pc' \in InLoop
  BY <1>2, Zenon DEF InLoop
<1>6. Phase'
  <2>1. i' < DEVICE_COUNT
    BY Zenon DEF LifeInv, Phase
  <2> QED BY <1>1, <1>5, <2>1, LoopPhase, Zenon
<1>7. ASSUME NEW d \in Devices PROVE DeviceInv(d)'
  <2>1. CASE d # i
    <3>1. res'[d] = res[d]
      BY <2>1 DEF LifeInv, TypeOK
    <3> QED BY <1>5, <2>1, <3>1, OthersInLoop, Zenon
  <2>2. CASE d = i
    <3>1. ~(Ended(d)')
      BY <1>2, <2>2 DEF Ended, Making, LifeInv, TypeOK
    <3>2. files'[d] > 0 => "node" \in Built(next)
      BY <1>1, <2>2, Zenon
    <3> QED BY <1>1, <1>2, <1>3, <2>2, <3>1, <3>2, MadeDevice, Zenon
  <2> QED BY <2>1, <2>2, Zenon
<1> QED BY <1>4, <1>6, <1>7, Zenon DEF LifeInv

\* The end of a probe: the loop goes on to the next device, and what is left of
\* this one is all of it, bound, or nothing.
LEMMA ProbeEnds ==
  ASSUME LifeInv, pc \in Making \ {"add"}, pc' = "alloc", i' = i + 1,
         UNCHANGED <<module, held, pdev>>,
         bound' \in [Devices -> BOOLEAN], res' \in [Devices -> SUBSET PerDevice],
         files' \in [Devices -> Nat], stale' \in [Devices -> Nat],
         res'[i] = IF bound'[i] THEN PerDevice ELSE {},
         files'[i] > 0 => "node" \in res'[i],
         \A d \in Devices \ {i} : /\ bound'[d] = bound[d] /\ res'[d] = res[d]
                                  /\ files'[d] = files[d]
  PROVE  LifeInv'
<1>1. /\ i \in Devices /\ module = "coming" /\ held = DriverWide /\ pdev[i] = "added"
  <2>1. pc \in Making /\ pc # "add"
    BY Zenon
  <2> QED BY <2>1, AtMaking, Zenon
<1>2. pc \in InLoop /\ pc' \in InLoop /\ pc' \notin Making
  BY DEF InLoop, Making
<1>3. TypeOK'
  <2>1. i' \in 0 .. DEVICE_COUNT
    BY <1>1, LifecycleAssumption DEF Devices
  <2> QED BY <2>1 DEF LifeInv, TypeOK
<1>4. Phase'
  BY <1>1, <1>2, LoopPhase, Zenon
<1>5. ASSUME NEW d \in Devices PROVE DeviceInv(d)'
  <2>1. CASE d # i
    <3>1. bound'[d] = bound[d] /\ res'[d] = res[d] /\ files'[d] = files[d] /\ pdev'[d] = pdev[d]
      BY <2>1, Zenon
    <3> QED BY <1>2, <2>1, <3>1, OthersInLoop, Zenon
  <2>2. CASE d = i
    <3>1. Ended(d)'
      BY <1>1, <2>2, LifecycleAssumption DEF Ended, Devices
    <3> QED BY <1>1, <1>2, <2>2, <3>1, EndedDevice, Zenon
  <2> QED BY <2>1, <2>2, Zenon
<1> QED BY <1>3, <1>4, <1>5, Zenon DEF LifeInv

\* A probe that fails with R left before the structure is freed.
LEMMA FailStep ==
  ASSUME LifeInv, NEW l, NEW R, pc \in Making \ {"add"}, probe_fails(l, R),
         R \ {"slot", "mem"} = {}
  PROVE  LifeInv'
<1>1. /\ res' = [res EXCEPT ![i] = {}] /\ stale' = [stale EXCEPT ![i] = @ + files[i]]
      /\ files' = [files EXCEPT ![i] = 0] /\ pc' = "alloc" /\ i' = i + 1
      /\ UNCHANGED <<module, held, pdev, bound>>
  BY Zenon DEF probe_fails, Free, NextDevice
<1>2. i \in Devices /\ ~bound[i]
  <2>1. pc \in Making
    BY Zenon
  <2> QED BY <2>1, AtMaking, Zenon
<1>3. /\ bound' \in [Devices -> BOOLEAN] /\ res' \in [Devices -> SUBSET PerDevice]
      /\ files' \in [Devices -> Nat] /\ stale' \in [Devices -> Nat]
  BY <1>1, <1>2 DEF LifeInv, TypeOK
<1>4. res'[i] = {} /\ ~bound'[i] /\ ~(files'[i] > 0)
  BY <1>1, <1>2 DEF LifeInv, TypeOK
<1>5. \A d \in Devices \ {i} : /\ bound'[d] = bound[d] /\ res'[d] = res[d]
                               /\ files'[d] = files[d]
  BY <1>1 DEF LifeInv, TypeOK
<1> QED BY <1>1, <1>3, <1>4, <1>5, ProbeEnds

LEMMA ProbeStep ==
  ASSUME LifeInv, pcie_sim_probe
  PROVE  LifeInv'
<1>1. CASE probe_alloc
  <2>1. pc = "probe" /\ pc \in Making \ {"add"} /\ UNCHANGED <<module, held, pdev, bound, files, stale>>
    BY <1>1 DEF probe_alloc, users, Making
  <2>2. CASE res' = [res EXCEPT ![i] = @ \cup {"mem", "slot"}] /\ pc' = "cdev" /\ UNCHANGED i
    <3>1. Built("cdev") = Built(pc) \cup {"mem", "slot"}
      BY <2>1, BuiltSteps
    <3> QED BY <2>1, <2>2, <3>1, SetUpStep, Zenon
  <2>3. CASE NextDevice /\ UNCHANGED res
    <3>1. i \in Devices /\ ~bound[i] /\ res[i] = {} /\ (files[i] > 0 => "node" \in res[i])
      BY <2>1, AtMaking, BuiltSteps
    <3>2. pc' = "alloc" /\ i' = i + 1 /\ UNCHANGED res
      BY <2>3, Zenon DEF NextDevice
    <3>3. /\ bound' \in [Devices -> BOOLEAN] /\ res' \in [Devices -> SUBSET PerDevice]
          /\ files' \in [Devices -> Nat] /\ stale' \in [Devices -> Nat]
      BY <2>1, <3>2 DEF LifeInv, TypeOK
    <3>4. /\ res'[i] = IF bound'[i] THEN PerDevice ELSE {}
          /\ files'[i] > 0 => "node" \in res'[i]
          /\ \A d \in Devices \ {i} : /\ bound'[d] = bound[d] /\ res'[d] = res[d]
                                      /\ files'[d] = files[d]
      BY <2>1, <3>1, <3>2
    <3> QED BY <2>1, <3>2, <3>3, <3>4, ProbeEnds
  <2> QED BY <1>1, <2>2, <2>3, Zenon DEF probe_alloc
<1>2. CASE char_cdev_add
  <2>1. pc = "cdev" /\ pc \in Making \ {"add"} /\ res[i] = Built("cdev")
    <3>1. pc = "cdev" /\ pc \in Making \ {"add"}
      BY <1>2 DEF char_cdev_add, SetUp, err_char, probe_fails, Making
    <3> QED BY <3>1, AtMaking
  <2>2. CASE SetUp("cdev", "cdev", "node")
    BY <2>1, <2>2, BuiltSteps, SetUpStep, Zenon DEF SetUp, users
  <2>3. CASE err_char("cdev", res[i])
    BY <2>1, <2>3, ErrorPathsFree, FailStep, Zenon DEF err_char
  <2> QED BY <1>2, <2>2, <2>3, Zenon DEF char_cdev_add
<1>3. CASE char_device_create
  <2>1. pc = "node" /\ pc \in Making \ {"add"} /\ res[i] = Built("node")
    <3>1. pc = "node" /\ pc \in Making \ {"add"}
      BY <1>3 DEF char_device_create, SetUp, err_char, probe_fails, Making
    <3> QED BY <3>1, AtMaking
  <2>2. CASE SetUp("node", "node", "dir")
    BY <2>1, <2>2, BuiltSteps, SetUpStep, Zenon DEF SetUp, users
  <2>3. CASE err_char("node", res[i] \ {"cdev"})
    BY <2>1, <2>3, ErrorPathsFree, FailStep, Zenon DEF err_char
  <2> QED BY <1>3, <2>2, <2>3, Zenon DEF char_device_create
<1>4. CASE proc_mkdir
  <2>1. pc = "dir" /\ pc \in Making \ {"add"} /\ res[i] = Built("dir")
    <3>1. pc = "dir" /\ pc \in Making \ {"add"}
      BY <1>4 DEF proc_mkdir, SetUp, err_proc, probe_fails, Making
    <3> QED BY <3>1, AtMaking
  <2>2. CASE SetUp("dir", "dir", "stats")
    BY <2>1, <2>2, BuiltSteps, SetUpStep, Zenon DEF SetUp, users
  <2>3. CASE err_proc("dir", res[i])
    BY <2>1, <2>3, ErrorPathsFree, FailStep, Zenon DEF err_proc
  <2> QED BY <1>4, <2>2, <2>3, Zenon DEF proc_mkdir
<1>5. CASE proc_create_data
  <2>1. pc = "stats" /\ pc \in Making \ {"add"} /\ res[i] = Built("stats") /\ i \in Devices
    <3>1. pc = "stats" /\ pc \in Making \ {"add"}
      BY <1>5 DEF proc_create_data, err_proc, probe_fails, Making
    <3> QED BY <3>1, AtMaking
  <2>2. CASE /\ pc = "stats" /\ NextDevice
             /\ res' = [res EXCEPT ![i] = @ \cup {"stats"}]
             /\ bound' = [bound EXCEPT ![i] = TRUE]
             /\ UNCHANGED <<module, held, pdev, users>>
    <3>1. pc' = "alloc" /\ i' = i + 1 /\ UNCHANGED <<module, held, pdev, files, stale>>
      BY <2>2, Zenon DEF NextDevice, users
    <3>2. res'[i] = PerDevice /\ bound'[i] = TRUE
      BY <2>1, <2>2, BuiltSteps DEF LifeInv, TypeOK
    <3>3. /\ bound' \in [Devices -> BOOLEAN] /\ res' \in [Devices -> SUBSET PerDevice]
          /\ files' \in [Devices -> Nat] /\ stale' \in [Devices -> Nat]
      <4>1. PerDevice \in SUBSET PerDevice
        OBVIOUS
      <4> QED BY <2>1, <2>2, <3>1, <3>2, <4>1 DEF LifeInv, TypeOK
    <3>4. \A d \in Devices \ {i} : /\ bound'[d] = bound[d] /\ res'[d] = res[d]
                                   /\ files'[d] = files[d]
      BY <2>2, <3>1 DEF LifeInv, TypeOK
    <3>5. files'[i] > 0 => "node" \in res'[i]
      BY <3>2, NodeBuilt
    <3> QED BY <2>1, <3>1, <3>2, <3>3, <3>4, <3>5, ProbeEnds
  <2>3. CASE err_proc("stats", res[i] \ {"dir"})
    BY <2>1, <2>3, ErrorPathsFree, FailStep, Zenon DEF err_proc
  <2> QED BY <1>5, <2>2, <2>3, Zenon DEF proc_create_data
<1> QED BY <1>1, <1>2, <1>3, <1>4, <1>5, Zenon DEF pcie_sim_probe

-----------------------------------------------------------------------------
\* The loops that unregister devices, and open and close.

\* platform_device_unregister of a device whose probe has ended leaves nothing
\* of it, and nothing else is touched.
LEMMA Unregistered ==
  ASSUME LifeInv, NEW d \in Devices, Ended(d), Unregister(d)
  PROVE  /\ pdev'[d] = "none" /\ res'[d] = {} /\ ~bound'[d] /\ ~(files'[d] > 0)
         /\ \A e \in Devices \ {d} : /\ pdev'[e] = pdev[e] /\ bound'[e] = bound[e]
                                     /\ res'[e] = res[e] /\ files'[e] = files[e]
         /\ pdev' \in [Devices -> {"none", "allocated", "added"}]
         /\ bound' \in [Devices -> BOOLEAN] /\ res' \in [Devices -> SUBSET PerDevice]
         /\ files' \in [Devices -> Nat] /\ stale' \in [Devices -> Nat]
<1>1. DeviceInv(d)
  BY Zenon DEF LifeInv
<1>2. pdev' = [pdev EXCEPT ![d] = "none"] /\ bound' = [bound EXCEPT ![d] = FALSE]
  BY Zenon DEF Unregister
<1>3. CASE bound[d]
  <2>1. res[d] = PerDevice
    BY <1>1, <1>3, Zenon DEF DeviceInv
  <2>2. /\ res' = [res EXCEPT ![d] = {}] /\ stale' = [stale EXCEPT ![d] = @ + files[d]]
        /\ files' = [files EXCEPT ![d] = 0]
    BY <1>3, <2>1, ErrorPathsFree, Zenon DEF Unregister, pcie_sim_remove, Free
  <2> QED BY <1>2, <2>2 DEF LifeInv, TypeOK
<1>4. CASE ~bound[d]
  <2>1. res[d] = {} /\ ~(files[d] > 0)
    BY <1>1, <1>4 DEF DeviceInv
  <2>2. UNCHANGED <<res, files, stale>>
    BY <1>4, Zenon DEF Unregister, users
  <2> QED BY <1>2, <2>1, <2>2 DEF LifeInv, TypeOK
<1> QED BY <1>3, <1>4

LEMMA CleanupStep ==
  ASSUME LifeInv, cleanup_device
  PROVE  LifeInv'
<1>1. pc = "cleanup" /\ module = "coming" /\ held = DriverWide /\ UNCHANGED <<module, held>>
  BY DEF cleanup_device, LifeInv, Phase
<1>2. CASE i > 0 /\ Unregister(i - 1) /\ i' = i - 1 /\ UNCHANGED pc
  <2>1. i - 1 \in Devices /\ Ended(i - 1)
    BY <1>1, <1>2, LifecycleAssumption DEF LifeInv, TypeOK, Ended, Devices
  <2>2. TypeOK'
    <3>1. i' \in 0 .. DEVICE_COUNT
      BY <1>2, LifecycleAssumption DEF LifeInv, TypeOK
    <3> QED BY <1>1, <1>2, <2>1, <3>1, Unregistered DEF LifeInv, TypeOK
  <2>3. Phase'
    BY <1>1, <1>2, LoopPhase DEF InLoop, Making
  <2>4. pc \notin Making /\ pc' \notin Making
    BY <1>1, <1>2 DEF Making
  <2>5. ASSUME NEW e \in Devices PROVE DeviceInv(e)'
    <3>1. CASE e = i - 1
      <4>1. ~(Ended(e)')
        BY <1>1, <1>2, <3>1 DEF Ended, LifeInv, TypeOK, Making
      <4>2. pdev'[e] = "none" /\ res'[e] = {} /\ ~bound'[e] /\ ~(files'[e] > 0)
        BY <1>2, <2>1, <3>1, Unregistered, Zenon
      <4> QED BY <2>4, <4>1, <4>2, AbsentDevice, Zenon
    <3>2. CASE e # i - 1
      <4>1. Ended(e)' <=> Ended(e)
        BY <1>1, <1>2, <3>2 DEF Ended, LifeInv, TypeOK, Devices
      <4>2. /\ pdev'[e] = pdev[e] /\ bound'[e] = bound[e]
            /\ res'[e] = res[e] /\ files'[e] = files[e]
        <5>1. e \in Devices \ {i - 1}
          BY <3>2, Zenon
        <5> QED BY <1>2, <2>1, <5>1, Unregistered, Zenon
      <4>3. DeviceInv(e) /\ (files'[e] > 0 => "node" \in res'[e])
        BY <4>2, Zenon DEF LifeInv, DeviceInv
      <4> QED BY <2>4, <4>1, <4>2, <4>3, OtherDevice, Zenon
    <3> QED BY <3>1, <3>2, Zenon
  <2> QED BY <2>2, <2>3, <2>5, Zenon DEF LifeInv
<1>3. CASE i = 0 /\ pc' = "err_devices" /\ UNCHANGED <<i, pdev, bound, res, users>>
  <2>1. UNCHANGED <<i, pdev, bound, res, files, stale>>
    BY <1>3, Zenon DEF users
  <2>2. TypeOK' /\ Phase'
    BY <1>1, <1>3, <2>1 DEF LifeInv, TypeOK, Phase, Making
  <2>3. \A d \in Devices : ~Ended(d) /\ ~(Ended(d)')
    BY <1>1, <1>3, LifecycleAssumption DEF Ended, Devices, Making
  <2>4. pc \notin Making /\ pc' \notin Making
    BY <1>1, <1>3 DEF Making
  <2>5. \A d \in Devices : DeviceInv(d)'
    BY <2>1, <2>3, <2>4, NoDeviceStep, Zenon
  <2> QED BY <2>2, <2>5, Zenon DEF LifeInv
<1> QED BY <1>2, <1>3, Zenon DEF cleanup_device

LEMMA DestroyStep ==
  ASSUME LifeInv, destroy_device
  PROVE  LifeInv'
<1>1. /\ pc = "destroy" /\ module = "going" /\ held = DriverWide /\ UNCHANGED <<module, held>>
      /\ \A d \in Devices : files[d] = 0
  BY DEF destroy_device, LifeInv, Phase
<1>2. CASE i < DEVICE_COUNT /\ Unregister(i) /\ i' = i + 1 /\ UNCHANGED pc
  <2>1. i \in Devices /\ Ended(i)
    BY <1>1, <1>2, LifecycleAssumption DEF LifeInv, TypeOK, Ended, Devices
  <2>2. TypeOK'
    <3>1. i' \in 0 .. DEVICE_COUNT
      BY <1>2, LifecycleAssumption DEF LifeInv, TypeOK
    <3> QED BY <1>1, <1>2, <2>1, <3>1, Unregistered DEF LifeInv, TypeOK
  <2>3. Phase'
    <3>1. \A d \in Devices : files'[d] = 0
      <4> SUFFICES ASSUME NEW d \in Devices PROVE files'[d] = 0
        OBVIOUS
      <4>1. files' \in [Devices -> Nat] /\ ~(files'[i] > 0)
        BY <1>2, <2>1, Unregistered, Zenon
      <4>2. CASE d = i
        BY <4>1, <4>2
      <4>3. CASE d # i
        <5>1. d \in Devices \ {i}
          BY <4>3, Zenon
        <5>2. files'[d] = files[d]
          BY <1>2, <2>1, <5>1, Unregistered, Zenon
        <5> QED BY <1>1, <5>2, Zenon
      <4> QED BY <4>2, <4>3, Zenon
    <3> QED BY <1>1, <1>2, <3>1 DEF Phase, Making
  <2>4. pc \notin Making /\ pc' \notin Making
    BY <1>1, <1>2 DEF Making
  <2>5. ASSUME NEW e \in Devices PROVE DeviceInv(e)'
    <3>1. CASE e = i
      <4>1. ~(Ended(e)')
        BY <1>1, <1>2, <3>1 DEF Ended, LifeInv, TypeOK, Making
      <4>2. pdev'[e] = "none" /\ res'[e] = {} /\ ~bound'[e] /\ ~(files'[e] > 0)
        BY <1>2, <2>1, <3>1, Unregistered, Zenon
      <4> QED BY <2>4, <4>1, <4>2, AbsentDevice, Zenon
    <3>2. CASE e # i
      <4>1. Ended(e)' <=> Ended(e)
        BY <1>1, <1>2, <3>2 DEF Ended, LifeInv, TypeOK, Devices, Making
      <4>2. /\ pdev'[e] = pdev[e] /\ bound'[e] = bound[e]
            /\ res'[e] = res[e] /\ files'[e] = files[e]
        <5>1. e \in Devices \ {i}
          BY <3>2, Zenon
        <5> QED BY <1>2, <2>1, <5>1, Unregistered, Zenon
      <4>3. DeviceInv(e) /\ (files'[e] > 0 => "node" \in res'[e])
        BY <4>2, Zenon DEF LifeInv, DeviceInv
      <4> QED BY <2>4, <4>1, <4>2, <4>3, OtherDevice, Zenon
    <3> QED BY <3>1, <3>2, Zenon
  <2> QED BY <2>2, <2>3, <2>5, Zenon DEF LifeInv
<1>3. CASE i = DEVICE_COUNT /\ i' = 0 /\ pc' = "err_devices" /\ UNCHANGED <<pdev, bound, res, users>>
  <2>1. UNCHANGED <<pdev, bound, res, files, stale>>
    BY <1>3, Zenon DEF users
  <2>2. TypeOK' /\ Phase'
    BY <1>1, <1>3, <2>1, LifecycleAssumption DEF LifeInv, TypeOK, Phase, Making
  <2>3. \A d \in Devices : ~Ended(d) /\ ~(Ended(d)')
    BY <1>1, <1>3, LifecycleAssumption DEF Ended, Devices, Making
  <2>4. pc \notin Making /\ pc' \notin Making
    BY <1>1, <1>3 DEF Making
  <2>5. \A d \in Devices : DeviceInv(d)'
    BY <2>1, <2>3, <2>4, NoDeviceStep, Zenon
  <2> QED BY <2>2, <2>5, Zenon DEF LifeInv
<1> QED BY <1>2, <1>3, Zenon DEF destroy_device

LEMMA FileStep ==
  ASSUME LifeInv, NEW d \in Devices, pcie_sim_open(d) \/ pcie_sim_release(d)
  PROVE  LifeInv'
<1>1. UNCHANGED <<module, pc, i, held, pdev, bound, res>>
  BY Zenon DEF pcie_sim_open, pcie_sim_release
<1>2. files' \in [Devices -> Nat] /\ stale' \in [Devices -> Nat]
  BY DEF pcie_sim_open, pcie_sim_release, LifeInv, TypeOK
<1>3. \A e \in Devices : files'[e] > files[e] => module # "going" /\ "node" \in res[e]
  BY DEF pcie_sim_open, pcie_sim_release, LifeInv, TypeOK
<1>4. TypeOK'
  BY <1>1, <1>2 DEF LifeInv, TypeOK
<1>5. Phase'
  <2>1. module' = "going" => \A e \in Devices : files'[e] = 0
    BY <1>1, <1>2, <1>3 DEF LifeInv, TypeOK, Phase
  <2> QED BY <1>1, <2>1 DEF LifeInv, Phase
<1>6. ASSUME NEW e \in Devices PROVE DeviceInv(e)'
  <2>1. Ended(e)' <=> Ended(e)
    BY <1>1, Zenon DEF Ended
  <2>2. DeviceInv(e)
    BY Zenon DEF LifeInv
  <2>3. files'[e] > 0 => "node" \in res'[e]
    <3>1. files[e] > 0 => "node" \in res[e]
      BY <2>2, Zenon DEF DeviceInv
    <3> QED BY <1>1, <1>2, <1>3, <3>1 DEF LifeInv, TypeOK
  <2>4. /\ pc \in Making /\ e = i =>
             /\ pdev[e] = IF pc = "add" THEN "allocated" ELSE "added"
             /\ res[e] = Built(pc) /\ ~bound[e]
        /\ Ended(e) => pdev[e] = "added" /\ res[e] = IF bound[e] THEN PerDevice ELSE {}
        /\ ~Ended(e) /\ ~(pc \in Making /\ e = i) => pdev[e] = "none" /\ res[e] = {} /\ ~bound[e]
    BY <2>2, Zenon DEF DeviceInv
  <2> QED BY <1>1, <2>1, <2>3, <2>4, Zenon DEF DeviceInv
<1> QED BY <1>4, <1>5, <1>6, Zenon DEF LifeInv

-----------------------------------------------------------------------------
LEMMA LifeInvStep == LifeInv /\ [Next]_vars => LifeInv'
<1> SUFFICES ASSUME LifeInv, [Next]_vars PROVE LifeInv'
  OBVIOUS
<1>1. CASE pcie_sim_init \/ pcie_sim_exit
  BY <1>1, RegisterStep, LiveStep, Zenon
<1>2. CASE Loading
  BY <1>2, RegisterStep, LiveStep, AllocStep, AddStep, Zenon DEF Loading
<1>3. CASE pcie_sim_probe
  BY <1>3, ProbeStep, Zenon
<1>4. CASE Unwinding
  BY <1>4, RegisterStep, CleanupStep, DestroyStep, Zenon DEF Unwinding
<1>5. CASE \E d \in Devices : pcie_sim_open(d) \/ pcie_sim_release(d)
  BY <1>5, FileStep, Zenon
<1>6. CASE UNCHANGED vars
  <2>1. UNCHANGED <<module, pc, i, held, pdev, bound, res, files, stale>>
    BY <1>6, Zenon DEF vars, users
  <2>2. TypeOK'
    BY <2>1, Zenon DEF LifeInv, TypeOK
  <2>3. Phase'
    BY <2>1 DEF LifeInv, Phase
  <2>4. ASSUME NEW d \in Devices PROVE DeviceInv(d)'
    <3>1. DeviceInv(d) /\ (Ended(d)' <=> Ended(d))
      BY <2>1, Zenon DEF LifeInv, Ended
    <3> QED BY <2>1, <3>1 DEF DeviceInv
  <2> QED BY <2>2, <2>3, <2>4, Zenon DEF LifeInv
<1> QED BY <1>1, <1>2, <1>3, <1>4, <1>5, <1>6, Zenon DEF Next, Step

LEMMA LifeInvariant == Spec => []LifeInv
<1>1. Init => LifeInv
  BY LifeInvInit
<1>2. LifeInv /\ [Next]_vars => LifeInv'
  BY LifeInvStep
<1> QED BY <1>1, <1>2, PTL DEF Spec

\* Whichever step of a load failed, and after an unload, no registration, no
\* platform device and no resource of a device is left (driver.c:86-91, 147-154,
\* 214-236), for any number of devices.
THEOREM LoadsAndUnloadsLeaveNothing == Spec => []NothingIsLeft
<1>1. LifeInv => NothingIsLeft
  <2> SUFFICES ASSUME LifeInv, module = "absent" PROVE NothingIsLeft
    BY DEF NothingIsLeft
  <2>1. pc = "none" /\ held = {}
    BY DEF LifeInv, TypeOK, Phase, Making
  <2>2. ASSUME NEW d \in Devices
        PROVE  pdev[d] = "none" /\ res[d] = {} /\ ~bound[d] /\ files[d] = 0
    <3>1. DeviceInv(d) /\ ~Ended(d) /\ pc \notin Making
      BY <2>1 DEF LifeInv, Ended, Making
    <3> QED BY <3>1 DEF DeviceInv, LifeInv, TypeOK
  <2>3. res = Nothing
    BY <2>2 DEF LifeInv, TypeOK, Nothing
  <2> QED BY <2>1, <2>2, <2>3 DEF NothingIsLeft
<1> QED BY <1>1, LifeInvariant, PTL

\* In a loaded module every device is complete, or failed its probe and has left
\* nothing (driver.c:43-92, 130-145), for any number of devices.
THEOREM LoadedModulesAreWhole == Spec => []LoadedDevicesAreWhole
<1>1. LifeInv => LoadedDevicesAreWhole
  <2> SUFFICES ASSUME LifeInv PROVE LoadedDevicesAreWhole
    OBVIOUS
  <2>1. module = "live" => pc = "none" /\ held = DriverWide
    BY DEF LifeInv, TypeOK, Phase, Making
  <2>2. ASSUME module = "live", NEW d \in Devices
        PROVE  pdev[d] = "added" /\ res[d] = IF bound[d] THEN PerDevice ELSE {}
    BY <2>1, <2>2, Zenon DEF LifeInv, DeviceInv, Ended
  <2> QED BY <2>1, <2>2, Zenon DEF LifeInv, LoadedDevicesAreWhole
<1> QED BY <1>1, LifeInvariant, PTL

\* At every moment of a load, an unwinding or an unload, whatever exists still has
\* what it rests on (driver.c:86-91, 104-109, 214-233; chardev.c:169-186;
\* procfs.c:161-181), for any number of devices.
THEOREM DependentsGoFirst == Spec => []Rests
<1>1. LifeInv => Rests
  <2> SUFFICES ASSUME LifeInv PROVE Rests
    OBVIOUS
  <2>1. /\ "driver" \in held => "class" \in held
        /\ "class" \in held => "region" \in held
    BY DEF LifeInv, TypeOK, Phase, Making, DriverWide
  <2>2. ASSUME NEW d \in Devices
        PROVE  /\ pdev[d] # "none" => "driver" \in held
               /\ res[d] # {} => pdev[d] = "added"
               /\ bound[d] => res[d] = PerDevice
               /\ res[d] \in {{}, {"mem", "slot"}, {"mem", "slot", "cdev"},
                              {"mem", "slot", "cdev", "node"}, PerDevice \ {"stats"}, PerDevice}
               /\ files[d] > 0 => "node" \in res[d]
    <3>1. DeviceInv(d)
      BY Zenon DEF LifeInv
    <3>2. Ended(d) \/ pc \in Making => "driver" \in held
      BY DEF Ended, LifeInv, Phase, Making, DriverWide
    <3>3. CASE Ended(d)
      BY <3>1, <3>2, <3>3 DEF DeviceInv
    <3>4. CASE pc \in Making /\ d = i
      <4>1. /\ "driver" \in held /\ ~bound[d] /\ res[d] = Built(pc)
            /\ pdev[d] = IF pc = "add" THEN "allocated" ELSE "added"
            /\ files[d] > 0 => "node" \in res[d]
        BY <3>1, <3>2, <3>4, Zenon DEF DeviceInv
      <4>2. pc = "add" => res[d] = {}
        BY <4>1, BuiltSteps
      <4>3. Built("stats") = PerDevice \ {"stats"}
        BY DEF Built, PerDevice
      <4>4. res[d] \in {{}, {"mem", "slot"}, {"mem", "slot", "cdev"},
                        {"mem", "slot", "cdev", "node"}, PerDevice \ {"stats"}, PerDevice}
        BY <3>4, <4>1, <4>3 DEF Making, Built
      <4> QED BY <4>1, <4>2, <4>4
    <3>5. CASE ~Ended(d) /\ ~(pc \in Making /\ d = i)
      BY <3>1, <3>5 DEF DeviceInv
    <3> QED BY <3>3, <3>4, <3>5, Zenon
  <2> QED BY <2>1, <2>2, Zenon DEF Rests
<1> QED BY <1>1, LifeInvariant, PTL

\* A device structure is freed under an open file only by a load that fails:
\* rmmod finds every file closed (chardev.c:121 and 143; driver.c:70-90).
THEOREM UnloadsFreeNothingInUse == Spec => FreedUnderFilesOnlyByFailedLoads
<1> DEFINE Freed == \A d \in Devices :
             "mem" \in res[d] /\ "mem" \notin res'[d] /\ files[d] > 0 => module = "coming"
<1>1. LifeInv /\ [Next]_vars => [Freed]_vars
  <2> SUFFICES ASSUME LifeInv, Next, NEW d \in Devices, "mem" \in res[d], "mem" \notin res'[d],
                      files[d] > 0
               PROVE  module = "coming"
    OBVIOUS
  <2>1. res' # res
    OBVIOUS
  <2>2. pcie_sim_probe \/ cleanup_device \/ destroy_device
    BY <2>1, Zenon DEF Next, Step, Loading, Unwinding, pcie_sim_init, pcie_sim_exit,
       alloc_chrdev_region, class_create, platform_driver_register, Register,
       create_platform_devices_done, platform_device_alloc, platform_device_add,
       platform_driver_unregister, class_destroy, unregister_chrdev_region, Deregister, unloaded,
       pcie_sim_open, pcie_sim_release
  <2>3. CASE pcie_sim_probe
    <3>1. pc \in Making
      BY <2>3 DEF pcie_sim_probe, probe_alloc, char_cdev_add, char_device_create, proc_mkdir,
         proc_create_data, SetUp, err_char, err_proc, probe_fails, Making
    <3> QED BY <3>1, AtMaking, Zenon
  <2>4. CASE cleanup_device
    BY <2>4 DEF cleanup_device, LifeInv, Phase
  <2>5. CASE destroy_device
    <3>1. files[d] = 0
      BY <2>5 DEF destroy_device, LifeInv, Phase
    <3> QED BY <3>1
  <2> QED BY <2>2, <2>3, <2>4, <2>5, Zenon
<1> QED BY <1>1, LifeInvariant, PTL DEF Spec, FreedUnderFilesOnlyByFailedLoads
=============================================================================

-------------------------- MODULE DriverLifecycle --------------------------
(***************************************************************************)
(* Loading and unloading the kernel module: kernel/driver.c with the       *)
(* registrations of kernel/chardev.c and kernel/procfs.c.  One thread runs *)
(* pcie_sim_init or pcie_sim_exit; every call to the kernel in it may fail *)
(* and is unwound by the code's goto chains.  Users open and close         *)
(* /dev/pcie_simN as soon as the node exists, also while the module is     *)
(* still loading.  The driver core (external) probes a device inside       *)
(* platform_device_add, which succeeds whether or not the probe does, and  *)
(* calls remove only for a device whose probe succeeded.                   *)
(***************************************************************************)
EXTENDS Integers

CONSTANTS
  DEVICE_COUNT,  \* the number of platform devices
  MaxFiles       \* bound: open files of a device

Devices == 0 .. DEVICE_COUNT - 1

ASSUME LifecycleAssumption ==
  /\ DEVICE_COUNT \in Nat \ {0}
  /\ MaxFiles \in Nat

VARIABLES
  module,      \* the state of the module in the kernel
  pc,          \* where pcie_sim_init or pcie_sim_exit is
  i,           \* its loop variable
  held,        \* registrations of the whole driver
  pdev,        \* pcie_sim_devices[i]: none, allocated, added
  bound,       \* whether the driver core holds the device as probed
  res,         \* what the driver has set up for each device
  files,       \* open files whose private_data is the device's structure
  stale        \* open files whose private_data has been freed

vars == <<module, pc, i, held, pdev, bound, res, files, stale>>
users == <<files, stale>>

DriverWide == {"region", "class", "driver"}

\* The device structure, its entry in driver_state.devices, the character
\* device, its node in /dev, the directory in /proc and the file in it.
PerDevice == {"mem", "slot", "cdev", "node", "dir", "stats"}

Nothing == [d \in Devices |-> {}]
NoFiles == [d \in Devices |-> 0]

Init ==
  /\ module = "absent" /\ pc = "none" /\ i = 0
  /\ held = {}
  /\ pdev = [d \in Devices |-> "none"]
  /\ bound = [d \in Devices |-> FALSE]
  /\ res = Nothing
  /\ files = NoFiles /\ stale = NoFiles

-----------------------------------------------------------------------------
\* pcie_sim_init begins.
pcie_sim_init ==
  /\ module = "absent"
  /\ module' = "coming" /\ pc' = "region"
  /\ UNCHANGED <<i, held, pdev, bound, res, users>>

\* A step l of pcie_sim_init that registers r, or fails and jumps to label err.
Register(l, r, next, err) ==
  /\ pc = l
  /\ \/ held' = held \cup {r} /\ pc' = next
     \/ UNCHANGED held /\ pc' = err
  /\ UNCHANGED <<module, i, pdev, bound, res, users>>

alloc_chrdev_region == Register("region", "region", "class", "failed")
class_create == Register("class", "class", "driver", "err_class")
platform_driver_register == Register("driver", "driver", "alloc", "err_driver")

\* create_platform_devices, the loop: its end, platform_device_alloc and
\* platform_device_add, which may fail before the driver core probes.
create_platform_devices_done ==
  /\ pc = "alloc" /\ i = DEVICE_COUNT
  /\ module' = "live" /\ pc' = "none" /\ i' = 0
  /\ UNCHANGED <<held, pdev, bound, res, users>>

platform_device_alloc ==
  /\ pc = "alloc" /\ i < DEVICE_COUNT
  /\ \/ pdev' = [pdev EXCEPT ![i] = "allocated"] /\ pc' = "add"
     \/ UNCHANGED pdev /\ pc' = "cleanup"
  /\ UNCHANGED <<module, i, held, bound, res, users>>

platform_device_add ==
  /\ pc = "add"
  /\ \/ pdev' = [pdev EXCEPT ![i] = "added"] /\ pc' = "probe"
     \/ pdev' = [pdev EXCEPT ![i] = "none"] /\ pc' = "cleanup"
  /\ UNCHANGED <<module, i, held, bound, res, users>>

-----------------------------------------------------------------------------
\* What is left of a device's resources R after each piece of cleanup.
pcie_sim_proc_cleanup(R) == R \ {"stats", "dir"}
pcie_sim_char_cleanup(R) == R \ {"node", "cdev"}

\* The entry in driver_state.devices is cleared and device d, with R left of it,
\* is freed: files still open on it keep a pointer to it.
Free(d, R) ==
  /\ res' = [res EXCEPT ![d] = R \ {"slot", "mem"}]
  /\ stale' = [stale EXCEPT ![d] = @ + files[d]]
  /\ files' = [files EXCEPT ![d] = 0]

\* platform_device_add returns: the next device.
NextDevice == pc' = "alloc" /\ i' = i + 1

\* kzalloc, the initialisation of the structure, driver_state.devices[id].
probe_alloc ==
  /\ pc = "probe"
  /\ \/ /\ res' = [res EXCEPT ![i] = @ \cup {"mem", "slot"}]
        /\ pc' = "cdev" /\ UNCHANGED i
     \/ NextDevice /\ UNCHANGED res
  /\ UNCHANGED <<module, held, pdev, bound, users>>

\* A step l of the probe of device i that sets up r.
SetUp(l, r, next) ==
  /\ pc = l
  /\ res' = [res EXCEPT ![i] = @ \cup {r}] /\ pc' = next
  /\ UNCHANGED <<module, i, held, pdev, bound, users>>

\* A step l that fails, with R left when the structure is freed.
probe_fails(l, R) ==
  /\ pc = l
  /\ Free(i, R) /\ NextDevice
  /\ UNCHANGED <<module, held, pdev, bound>>

\* Labels err_char and err_proc.
err_char(l, R) == probe_fails(l, R)
err_proc(l, R) == probe_fails(l, pcie_sim_char_cleanup(R))

char_cdev_add == SetUp("cdev", "cdev", "node") \/ err_char("cdev", res[i])
char_device_create == SetUp("node", "node", "dir") \/ err_char("node", res[i] \ {"cdev"})

\* Mutant: a failing proc_mkdir jumps to err_char, past pcie_sim_char_cleanup.
proc_mkdir_err_char == SetUp("dir", "dir", "stats") \/ err_char("dir", res[i])

proc_mkdir == SetUp("dir", "dir", "stats") \/ err_proc("dir", res[i])

\* The last step; the driver core binds the device when the probe returns 0.
proc_create_data ==
  \/ /\ pc = "stats" /\ NextDevice
     /\ res' = [res EXCEPT ![i] = @ \cup {"stats"}]
     /\ bound' = [bound EXCEPT ![i] = TRUE]
     /\ UNCHANGED <<module, held, pdev, users>>
  \/ err_proc("stats", res[i] \ {"dir"})

-----------------------------------------------------------------------------
pcie_sim_remove(d) == Free(d, pcie_sim_char_cleanup(pcie_sim_proc_cleanup(res[d])))

\* platform_device_unregister(pcie_sim_devices[d]): the driver core calls
\* pcie_sim_remove for a bound device.
Unregister(d) ==
  /\ pdev' = [pdev EXCEPT ![d] = "none"]
  /\ bound' = [bound EXCEPT ![d] = FALSE]
  /\ IF bound[d] THEN pcie_sim_remove(d) ELSE UNCHANGED <<res, users>>

\* Label cleanup of create_platform_devices, downwards from the failed device.
cleanup_device ==
  /\ pc = "cleanup"
  /\ \/ /\ i > 0 /\ Unregister(i - 1) /\ i' = i - 1 /\ UNCHANGED pc
     \/ /\ i = 0 /\ pc' = "err_devices" /\ UNCHANGED <<i, pdev, bound, res, users>>
  /\ UNCHANGED <<module, held>>

\* Mutant: .owner is not set, open files do not pin the module.
pcie_sim_exit_unpinned ==
  /\ module = "live"
  /\ module' = "going" /\ pc' = "destroy" /\ i' = 0
  /\ UNCHANGED <<held, pdev, bound, res, users>>

\* pcie_sim_exit begins.  .owner = THIS_MODULE: an open file pins the module.
pcie_sim_exit ==
  /\ module = "live"
  /\ \A d \in Devices : files[d] = 0 /\ stale[d] = 0
  /\ module' = "going" /\ pc' = "destroy" /\ i' = 0
  /\ UNCHANGED <<held, pdev, bound, res, users>>

\* Mutant: the loop does not advance.
destroy_device_again ==
  /\ pc = "destroy"
  /\ \/ /\ i < DEVICE_COUNT /\ Unregister(i) /\ UNCHANGED <<i, pc>>
     \/ /\ i = DEVICE_COUNT /\ i' = 0 /\ pc' = "err_devices"
        /\ UNCHANGED <<pdev, bound, res, users>>
  /\ UNCHANGED <<module, held>>

\* destroy_platform_devices, upwards.
destroy_device ==
  /\ pc = "destroy"
  /\ \/ /\ i < DEVICE_COUNT /\ Unregister(i) /\ i' = i + 1 /\ UNCHANGED pc
     \/ /\ i = DEVICE_COUNT /\ i' = 0 /\ pc' = "err_devices"
        /\ UNCHANGED <<pdev, bound, res, users>>
  /\ UNCHANGED <<module, held>>

\* Labels err_devices, err_driver and err_class, and the same calls of
\* pcie_sim_exit.
Deregister(l, r, next) ==
  /\ pc = l
  /\ held' = held \ {r} /\ pc' = next
  /\ UNCHANGED <<module, i, pdev, bound, res, users>>

\* Mutant: the device numbers are given back before the class is destroyed.
platform_driver_unregister_region_first ==
  /\ pc = "err_devices"
  /\ held' = held \ {"driver", "region"} /\ pc' = "err_driver"
  /\ UNCHANGED <<module, i, pdev, bound, res, users>>

platform_driver_unregister == Deregister("err_devices", "driver", "err_driver")
\* Mutant: label err_driver is past class_destroy.
class_destroy_skipped ==
  /\ pc = "err_driver" /\ pc' = "err_class"
  /\ UNCHANGED <<module, i, held, pdev, bound, res, users>>

class_destroy == Deregister("err_driver", "class", "err_class")
unregister_chrdev_region == Deregister("err_class", "region", "failed")

\* The module is gone.  (External: files still open after a failed load hold
\* nothing of a later load, and are followed no further.)
unloaded ==
  /\ pc = "failed"
  /\ module' = "absent" /\ pc' = "none" /\ i' = 0
  /\ stale' = NoFiles
  /\ UNCHANGED <<held, pdev, bound, res, files>>

-----------------------------------------------------------------------------
\* The node is in /dev and its device number is mapped to a cdev; the module can
\* be pinned as long as it is not going.  dev->enabled is TRUE from the probe on.
pcie_sim_open(d) ==
  /\ {"cdev", "node"} \subseteq res[d]
  /\ module \in {"coming", "live"}
  /\ files[d] + stale[d] < MaxFiles
  /\ files' = [files EXCEPT ![d] = @ + 1]
  /\ UNCHANGED <<module, pc, i, held, pdev, bound, res, stale>>

pcie_sim_release(d) ==
  /\ \/ files[d] > 0 /\ files' = [files EXCEPT ![d] = @ - 1] /\ UNCHANGED stale
     \/ stale[d] > 0 /\ stale' = [stale EXCEPT ![d] = @ - 1] /\ UNCHANGED files
  /\ UNCHANGED <<module, pc, i, held, pdev, bound, res>>

-----------------------------------------------------------------------------
Loading ==
  \/ alloc_chrdev_region
  \/ class_create
  \/ platform_driver_register
  \/ create_platform_devices_done
  \/ platform_device_alloc
  \/ platform_device_add

pcie_sim_probe ==
  \/ probe_alloc
  \/ char_cdev_add
  \/ char_device_create
  \/ proc_mkdir
  \/ proc_create_data

Unwinding ==
  \/ cleanup_device
  \/ destroy_device
  \/ platform_driver_unregister
  \/ class_destroy
  \/ unregister_chrdev_region
  \/ unloaded

Step == Loading \/ pcie_sim_probe \/ Unwinding

Next ==
  \/ pcie_sim_init
  \/ pcie_sim_exit
  \/ Step
  \/ \E d \in Devices : pcie_sim_open(d) \/ pcie_sim_release(d)

Spec == Init /\ [][Next]_vars

\* insmod or rmmod runs on; nobody need load, unload, open or close.
FairSpec == Spec /\ WF_vars(Step)

-----------------------------------------------------------------------------
TypeOK ==
  /\ module \in {"absent", "coming", "live", "going"}
  /\ pc \in {"none", "region", "class", "driver", "alloc", "add", "probe", "cdev", "node",
             "dir", "stats", "cleanup", "destroy", "err_devices", "err_driver",
             "err_class", "failed"}
  /\ i \in 0 .. DEVICE_COUNT
  /\ held \in SUBSET DriverWide
  /\ pdev \in [Devices -> {"none", "allocated", "added"}]
  /\ bound \in [Devices -> BOOLEAN]
  /\ res \in [Devices -> SUBSET PerDevice]
  /\ files \in [Devices -> Nat] /\ stale \in [Devices -> Nat]

\* Whichever step of a load failed, and after an unload, nothing is left: no
\* registration, no platform device, no resource of a device (driver.c:86-91,
\* 147-154, 214-220 and 226-236).
NothingIsLeft ==
  module = "absent" =>
    /\ held = {} /\ res = Nothing
    /\ \A d \in Devices : pdev[d] = "none" /\ ~bound[d] /\ files[d] = 0

\* In a loaded module each device either is complete, or failed its probe and
\* has left nothing; a failed probe costs no other device (driver.c:43-92,
\* 130-145).
LoadedDevicesAreWhole ==
  /\ TypeOK
  /\ module = "live" =>
       /\ held = DriverWide
       /\ \A d \in Devices :
            /\ pdev[d] = "added"
            /\ res[d] = IF bound[d] THEN PerDevice ELSE {}

\* At every moment, half-way through a load, an unwinding or an unload, whatever
\* exists still has what it rests on: device nodes their class and the device
\* numbers, a bound device its driver, a character device the structure it is
\* part of, the file in /proc its directory (driver.c:86-91, 104-109, 214-233;
\* chardev.c:169-186; procfs.c:161-181).
Rests ==
  /\ "driver" \in held => "class" \in held
  /\ "class" \in held => "region" \in held
  /\ \A d \in Devices :
       /\ pdev[d] # "none" => "driver" \in held
       /\ res[d] # {} => pdev[d] = "added"
       /\ bound[d] => res[d] = PerDevice
       /\ res[d] \in {{}, {"mem", "slot"}, {"mem", "slot", "cdev"},
                      {"mem", "slot", "cdev", "node"}, PerDevice \ {"stats"}, PerDevice}
       /\ files[d] > 0 => "node" \in res[d]

\* A device is freed under an open file only when a load fails after the node
\* was created: in a step of pcie_sim_init, never while the module is live or
\* unloading (chardev.c:121 and 143 pin it; driver.c:70-90 has the window).
FreedUnderFilesOnlyByFailedLoads ==
  [][\A d \in Devices :
       "mem" \in res[d] /\ "mem" \notin res'[d] /\ files[d] > 0 => module = "coming"]_vars

\* A load ends, with the module live or absent, and so does an unload, however
\* users open and close files meanwhile (driver.c:130-154, 164-169).
LoadsAndUnloadsEnd ==
  /\ module = "coming" ~> module \in {"live", "absent"}
  /\ module = "going" ~> module = "absent"
=============================================================================

----------------------------- MODULE Sysupgrade -----------------------------
(* Firmware upgrade (base-files: sbin/sysupgrade, lib/upgrade/stage2 and    *)
(* common.sh, lib/preinit/80_mount_root) on top of the mtd tool. The model  *)
(* starts with a mtd command given by hand, or with a running system on     *)
(* which callers use sysupgrade; then stage 2 gives the mtd command.        *)
EXTENDS MtdWrite

CONSTANTS
    Caller,     \* shells and web sessions that may call sysupgrade
    MaxEdit     \* bound: changes of the running configuration

ASSUME EditAssumption == MaxEdit \in Nat
\* An image that is not cut has data, see Layout.
ASSUME DataAssumption == MaxData > 0

VARIABLES
    phase,      \* how far the upgrade is
    img,        \* /tmp/sysupgrade.img, where an image is fetched to
    tar,        \* CONF_TAR, /tmp/sysupgrade.tgz
    cfg,        \* the running configuration
    at,         \* caller -> where it is in the script
    arg,        \* caller -> its options
    keep,       \* SAVE_CONFIG in stage 2
    want,       \* history: -F of the call that stage 2 serves, and the archive
                \* that it asked for
    runs,       \* what the device has come up with
    mixed,      \* history: two calls have overlapped
    lost        \* history: power loss, or a tar or wget that failed

callVars == <<img, tar, at, arg, mixed>>
histVars == <<want, runs, lost>>
sysVars == <<phase, cfg, keep, callVars, histVars>>

Images == {"none", "cut", "good", "bad"}
None == <<"none", 0>>
Cut == <<"cut", 0>>              \* the first part of an archive
Given == <<"given", 0>>          \* the archive of -f
Running(v) == <<"cfg", v>>
Archives == {None, Cut, Given} \union {Running(v) : v \in 0 .. MaxEdit}

\* -F, -T, and -n or -f.
Options == [force : BOOLEAN, test : BOOLEAN, conf : {"keep", "drop", "given"}]
NoOptions == [force |-> FALSE, test |-> FALSE, conf |-> "keep"]
Nothing == [force |-> FALSE, conf |-> None]

NoCommand == [data |-> 0, marks |-> 0, join |-> FALSE, conf |-> 0, devs |-> 1, start |-> 0,
              noErase |-> FALSE, nand |-> FALSE, bad |-> {}, worn |-> {}]

Blank == [d \in Dev |-> [b \in Block |-> Old]]

UpgradeTypeOK ==
    /\ TypeOK
    /\ phase \in {"byhand", "shell", "kill", "ramfs", "ready", "write", "up"}
    /\ img \in Images
    /\ tar \in Archives
    /\ cfg \in 0 .. MaxEdit
    /\ at \in [Caller -> {"idle", "fetch", "fetching", "check", "save", "saving",
                          "call", "killed"}]
    /\ arg \in [Caller -> Options]
    /\ keep \in BOOLEAN
    /\ want \in [force : BOOLEAN, conf : Archives]
    /\ runs \in {"old", "new", "dead"} \X Archives
    /\ mixed \in BOOLEAN /\ lost \in BOOLEAN

UpgradeInit ==
    /\ \/ phase = "byhand" /\ Init
       \/ /\ phase = "shell"
          /\ cmd = NoCommand /\ flash = Blank
          /\ dev = 1 /\ pos = 0 /\ w = 0 /\ e = 0 /\ skipBad = 0
          /\ rd = 0 /\ buf = <<>> /\ off = 0 /\ skip = 0 /\ append = FALSE
          /\ mtdofs = 0 /\ left = 0 /\ pc = "loop" /\ fault = "none"
    /\ img = "none" /\ tar = None /\ cfg = 0
    /\ at = [c \in Caller |-> "idle"]
    /\ arg = [c \in Caller |-> NoOptions]
    /\ keep = TRUE
    /\ want = Nothing
    /\ runs = <<"old", Running(0)>>
    /\ mixed = FALSE /\ lost = FALSE

----------------------------------------------------------------------------
(* /sbin/sysupgrade, run by caller c. Callers go on until stage 2 kills     *)
(* them.                                                                    *)

Alive == phase \in {"shell", "kill"}
Busy == {c \in Caller : at[c] \notin {"idle", "killed"}}

\* Bound: the configuration is changed a few times.
EditConfig ==
    /\ Alive /\ cfg < MaxEdit
    /\ cfg' = cfg + 1
    /\ UNCHANGED <<vars, phase, keep, callVars, histVars>>

\* Bound: of two calls that overlap only the rest is followed.
MayCall == Alive /\ ~mixed

\* The image is an URL or not in /tmp, or it is the one in /tmp.
Call(c) ==
    /\ MayCall /\ at[c] = "idle"
    /\ \E o \in Options, fetch \in BOOLEAN :
          /\ fetch \/ img # "none"
          /\ arg' = [arg EXCEPT ![c] = o]
          /\ at' = [at EXCEPT ![c] = IF fetch THEN "fetch" ELSE "check"]
    /\ mixed' = (mixed \/ Busy # {} \/ phase # "shell")
    /\ UNCHANGED <<vars, phase, cfg, keep, img, tar, histVars>>

\* wget -O or cp truncates the file and fills it; how it ends is not looked at.
FetchBegin(c) ==
    /\ Alive /\ at[c] = "fetch"
    /\ img' = "cut"
    /\ at' = [at EXCEPT ![c] = "fetching"]
    /\ UNCHANGED <<vars, phase, cfg, keep, tar, arg, mixed, histVars>>

FetchEnd(c) ==
    /\ Alive /\ at[c] = "fetching"
    /\ img' \in {"cut", "good", "bad"}
    /\ at' = [at EXCEPT ![c] = "check"]
    /\ UNCHANGED <<vars, phase, cfg, keep, tar, arg, mixed, histVars>>

Checked(c) == img = "good" \/ arg[c].force

GoesTo(c, l) ==
    /\ at' = [at EXCEPT ![c] = l]
    /\ arg' = IF l = "idle" THEN [arg EXCEPT ![c] = NoOptions] ELSE arg

\* The image checks; one that is cut off or for another board fails them.
Check(c) ==
    /\ Alive /\ at[c] = "check"
    /\ GoesTo(c, IF Checked(c) THEN "save" ELSE "idle")
    /\ UNCHANGED <<vars, phase, cfg, keep, img, tar, mixed, histVars>>

SaveKeepsOld(c) ==                      \* mutant: -n leaves an old archive
    IF arg[c].test /\ arg[c].conf # "given"
      THEN UNCHANGED tar /\ GoesTo(c, "idle")
      ELSE IF arg[c].conf = "drop"
      THEN UNCHANGED tar /\ GoesTo(c, "call")
      ELSE tar' = Cut /\ GoesTo(c, "saving")

\* A test run neither saves nor removes, but it copies the archive of -f.
SaveChoice(c) ==
    IF arg[c].test /\ arg[c].conf # "given"
      THEN UNCHANGED tar /\ GoesTo(c, "idle")
      ELSE IF arg[c].conf = "drop"
      THEN tar' = None /\ GoesTo(c, "call")
      ELSE tar' = Cut /\ GoesTo(c, "saving")

SaveBegin(c) ==
    /\ Alive /\ at[c] = "save"
    /\ SaveChoice(c)
    /\ UNCHANGED <<vars, phase, cfg, keep, img, mixed, histVars>>

\* do_save_conffiles or the copy of -f. That tar fails, for want of space, is
\* not looked at.
SaveEnd(c) ==
    /\ Alive /\ at[c] = "saving"
    /\ \/ /\ tar' = IF arg[c].conf = "given" THEN Given ELSE Running(cfg)
          /\ UNCHANGED lost
       \/ tar' = Cut /\ lost' = TRUE
    /\ GoesTo(c, IF arg[c].test THEN "idle" ELSE "call")
    /\ UNCHANGED <<vars, phase, cfg, keep, img, mixed, want, runs>>

\* ubus call system sysupgrade: process 1 becomes upgraded, which runs stage 2
\* and answers no further call.
UbusCall(c) ==
    /\ Alive /\ at[c] = "call"
    /\ GoesTo(c, "idle")
    /\ IF phase = "shell"
         THEN /\ phase' = "kill"
              /\ want' = [force |-> arg[c].force,
                         conf |-> CASE arg[c].conf = "given" -> Given
                                    [] arg[c].conf = "keep" -> tar
                                    [] arg[c].conf = "drop" -> None]
              /\ keep' = (tar # None)
         ELSE UNCHANGED <<phase, want, keep>>
    /\ UNCHANGED <<vars, cfg, img, tar, mixed, runs, lost>>

----------------------------------------------------------------------------
(* stage2, and do_upgrade_stage2                                            *)

\* kill_remaining TERM, then KILL until nothing is left.
KillAll ==
    /\ phase = "kill"
    /\ at' = [c \in Caller |-> "killed"]
    /\ arg' = [c \in Caller |-> NoOptions]
    /\ phase' = "ramfs"
    /\ UNCHANGED <<vars, cfg, keep, img, tar, mixed, histVars>>

SwitchToRamfs ==
    /\ phase = "ramfs"
    /\ phase' = "ready"
    /\ UNCHANGED <<vars, cfg, keep, callVars, histVars>>

\* The files in /tmp are gone, and so is every process.
Restarted ==
    /\ img' = "none" /\ tar' = None
    /\ at' = [c \in Caller |-> "idle"]
    /\ arg' = [c \in Caller |-> NoOptions]
    /\ keep' = TRUE
    /\ mixed' = FALSE

\* Ten rounds of KILL did not do, or pivot_root failed: stage 2 exits, and
\* upgraded restarts the device.
Stage2Fails ==
    /\ phase \in {"kill", "ramfs"}
    /\ phase' = "shell"
    /\ Restarted
    /\ want' = Nothing /\ lost' = FALSE
    /\ UNCHANGED <<vars, cfg, runs>>

\* The image as a sequence of blocks: one that is cut lacks the end markers.
Layout(i, n, m) ==
    CASE i = "none" -> n = 0 /\ m = 0
      [] i = "cut" -> n < MaxData /\ m = 0
      [] OTHER -> n = MaxData

\* get_image | mtd -j CONF_TAR write - image, or without -j.
MtdBegin ==
    /\ phase = "ready"
    /\ \E n \in 0 .. MaxData, m \in 0 .. MaxMark, k \in 0 .. MaxConf, f \in Few(1, MaxWorn) :
          /\ Layout(img, n, m)
          /\ (k > 0) <=> keep /\ tar # None
          /\ cmd' = [NoCommand EXCEPT !.data = n, !.marks = m, !.join = keep,
                                      !.conf = k, !.worn = f]
    /\ append' = keep
    /\ phase' = "write"
    /\ UNCHANGED <<fault, flash, rd, buf, skip, placeVars, appendVars, pc, cfg, keep,
                   callVars, want, runs, lost>>

\* A step of the mtd command. Its exit status is not looked at.
MtdStep ==
    /\ phase \in {"byhand", "write"}
    /\ Next
    /\ UNCHANGED sysVars

----------------------------------------------------------------------------
(* What the device comes up with.                                           *)

Holds(f, b, s) == b + Len(s) <= Size /\ \A i \in 1 .. Len(s) : f[1][b + i - 1] = s[i]

\* 80_mount_root unpacks the archive it finds in the jffs2 data, whole or not.
Restored(f) ==
    LET archive == [i \in 1 .. cmd.conf |-> Conf(i)]
    IN  IF cmd.conf = 0 \/ cmd.data >= Size \/ f[1][cmd.data] # Conf(1)
          THEN None
        ELSE IF Holds(f, cmd.data, archive \o <<Mark>>) THEN tar ELSE Cut

Booted(f) ==
    IF f = Blank THEN <<"old", Running(cfg)>>
    ELSE IF img = "good" /\ Holds(f, 0, Image(cmd.data, 0))
      THEN <<"new", Restored(f)>>
    ELSE <<"dead", None>>

\* umount -a; reboot -f. Of a mtd command that changed nothing no trace is left.
Reboot ==
    /\ phase = "write" /\ pc \in {"done", "failed"}
    /\ phase' = "up"
    /\ runs' = Booted(flash)
    /\ UNCHANGED <<vars, cfg, keep, callVars, want, lost>>

\* Power loss: before the mtd command the old system comes up again. Then the
\* block that was being written may hold anything.
PowerLossEarly ==
    /\ phase \in {"shell", "kill", "ramfs", "ready"}
    /\ phase' = "shell"
    /\ Restarted
    /\ want' = Nothing /\ lost' = FALSE
    /\ UNCHANGED <<vars, cfg, runs>>

PowerLoss ==
    /\ phase = "write"
    /\ flash' \in {flash} \union
          {[flash EXCEPT ![1][b] = Garbage] :
              b \in {c \in Block : c \in {pos, e} /\ flash[1][c] = Erased}}
    /\ phase' = "up"
    /\ runs' = Booted(flash')
    /\ lost' = TRUE
    /\ UNCHANGED <<setupVars, imageVars, placeVars, appendVars, pc, cfg, keep,
                   callVars, want>>

Stage2 == KillAll \/ SwitchToRamfs \/ Stage2Fails \/ MtdBegin \/ Reboot

UpgradeNext ==
    \/ EditConfig
    \/ \E c \in Caller : Call(c) \/ FetchBegin(c) \/ FetchEnd(c) \/ Check(c)
                         \/ SaveBegin(c) \/ SaveEnd(c) \/ UbusCall(c)
    \/ Stage2 \/ MtdStep \/ PowerLossEarly \/ PowerLoss

upgradeVars == <<vars, sysVars>>

UpgradeSpec == UpgradeInit /\ [][UpgradeNext]_upgradeVars

\* Stage 2 is a script that goes on, and the mtd command does.
UpgradeFairSpec == UpgradeSpec /\ WF_upgradeVars(Stage2) /\ WF_upgradeVars(MtdStep)

----------------------------------------------------------------------------
(* Properties                                                               *)

\* A call that no other one overlapped, without -F, and neither a power loss, a
\* failure of tar nor of the flash: the device comes up with the new system if
\* there is room for it, and with the configuration that was asked for: the one
\* that ran when it was saved, the one of -f, or none. An archive that a test
\* run or an earlier call left in /tmp does not come up in the new system.
Faultless == ~mixed /\ ~lost /\ fault = "none" /\ cmd.worn = {} /\ ~want.force
UpgradeArrives ==
    phase = "up" /\ Faultless =>
        /\ Size >= cmd.data + cmd.marks => runs[1] = "new"
        /\ Fits /\ cmd.marks > 0 /\ runs[1] = "new" => runs[2] = want.conf

\* Every upgrade that stage 2 begins ends with a restart, and every command
\* given by hand ends.
EveryRunEnds ==
    /\ phase = "byhand" ~> pc \in {"done", "failed"}
    /\ phase = "kill" ~> phase \in {"shell", "up"}
=============================================================================

-------------------------- MODULE MCBundleManager --------------------------
(***************************************************************************)
(* Instances of BundleManager for TLC: two valid bundles, one of them with *)
(* no policies, one bundle that fails validation.                          *)
(***************************************************************************)
EXTENDS BundleManager

CONSTANTS b1, b2, bad

MCBundle   == {b1, b2, bad}
MCValid    == {b1, b2}
MCNonEmpty == {b1, bad}
MCDamage   == {b2, bad, Garbage}

\* Managed mode on a disk that may fail, and on one that does not.
MCFaultyDisk  == [mode : {"managed"}, fail_mode : {"open"},
                  require_signed : {FALSE}, disk_fails : {TRUE}]
MCWorkingDisk == [mode : {"managed"}, fail_mode : {"open"},
                  require_signed : {FALSE}, disk_fails : {FALSE}]

\* Fail-open and unsigned on a working disk, fail-closed and signed on a faulty
\* one, fail-closed local.
MCConfigs ==
    MCWorkingDisk
    \cup [mode : {"managed"}, fail_mode : {"closed"},
          require_signed : {TRUE}, disk_fails : {TRUE}]
    \cup [mode : {"local"}, fail_mode : {"closed"},
          require_signed : {FALSE}, disk_fails : {FALSE}]

MCFiles    == {b1, bad, Garbage, Yaml, None}
=============================================================================

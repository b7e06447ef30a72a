-------------------------- MODULE MCClientReports --------------------------
(***************************************************************************)
(* ClientReports on a small instance: two clients that run both systems    *)
(* and share an id, and two jobs of one of them, a master and an erasure.  *)
(***************************************************************************)
EXTENDS ClientReports

CONSTANTS a, b, x1, x2

\* Nothing keeps b from reporting under the id a was given.
MCChecks == {[tx |-> "xa", tag |-> a, tpm |-> TRUE, bios |-> FALSE],
             [tx |-> "xa", tag |-> None, tpm |-> TRUE, bios |-> TRUE]}

MCHardwareReports == {[tx |-> "xa", serial |-> a, tpm |-> FALSE, bios |-> TRUE,
                       battery |-> TRUE],
                      [tx |-> "xa", serial |-> b, tpm |-> FALSE, bios |-> FALSE,
                       battery |-> FALSE]}

Windows(tag, serial, full) ==
    [tag |-> tag, serial |-> serial, tpm |-> FALSE, bios |-> full, memory |-> full,
     disk |-> full, battery |-> FALSE, name |-> full]

MCWindowsReports == {Windows(a, a, TRUE), Windows(b, a, FALSE),
                     Windows(None, b, TRUE)}

Report(j, start, erased, cloned, master, image) ==
    [job |-> j, client |-> a, start |-> start, erased |-> erased, cloned |-> cloned,
     master |-> master, image |-> image]

MCJobReports ==
    {Report("j1", 1, None, None, TRUE, "i1"),
     Report("j1", 1, None, TRUE, FALSE, None),
     Report("j2", 2, TRUE, None, FALSE, None),
     Report("j2", 2, None, None, FALSE, "i2"),
     Report("j2", 0, TRUE, FALSE, FALSE, None)}
=============================================================================

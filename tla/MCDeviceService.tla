--------------------------- MODULE MCDeviceService --------------------------
(* Small instances of DeviceService.                                       *)
EXTENDS DeviceService, TLC

CONSTANT j1

MCKinds == {"update", "reboot", "run", "pull", "clear"}
MCKind(r) == r.kind

Plain(kind) == [kind |-> kind]
Run(j, n) == [kind |-> "run", job |-> j, num |-> n]

(* Requests that write the status word, and a run.                         *)
StatusRequests == {Plain("update"), Plain("reboot"), Plain("pull"),
                   Plain("clear"), Run(j1, 1)}
(* One run, and one update.                                                *)
OneJob == {Run(j1, 1)}
OneUpdate == {Plain("update")}

TerminatorSymmetry == Permutations(Terminators)
=============================================================================

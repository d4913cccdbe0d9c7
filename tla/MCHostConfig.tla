---------------------------- MODULE MCHostConfig ----------------------------
(* Two processes; every text of up to MaxLines hand-written lines, with     *)
(* legal and illegal values of each key.                                    *)
EXTENDS HostConfig

CONSTANT MaxLines

MCLines ==
  {Line("version", v) : v \in {Version, Version + 1}}
  \cup {Line("timeout", v) : v \in {MaxTimeout, MaxTimeout + 1}}
  \cup {Line("default", v) : v \in {"poweroff", "bogus"}}
  \cup {Line("bogus", ""), Junk, Blank}

MCHandWritten == UNION {[1..n -> MCLines] : n \in 0..MaxLines}

MCFormatted == {HostFormat(config) : config \in HostConfigs}

MCValues == MCHandWritten \cup MCFormatted

MCRequests ==
  {[timeout |-> MaxTimeout], [default |-> "poweroff"],
   [timeout |-> MaxTimeout + 1, default |-> "poweroff"]}

Processes == Permutations(Procs)
=============================================================================

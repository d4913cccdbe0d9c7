-------------------------------- MODULE Disk --------------------------------
(***************************************************************************)
(* What a power failure leaves of a file system, as every module about     *)
(* files uses it.  Two functions from path to content are kept: the live   *)
(* one, which the running programs see, and the durable one, which a crash *)
(* falls back to.  fsync of a directory makes every entry of it durable;   *)
(* the kernel may also write an entry back whenever it likes, in any       *)
(* order.  A file is fsynced before it is renamed into place, so a durable *)
(* entry always has its whole content.                                     *)
(***************************************************************************)

\* The durable view once the directory entries in names have been written.
Persist(live, disk, names) ==
  [path \in DOMAIN disk |-> IF path \in names THEN live[path] ELSE disk[path]]
=============================================================================

----------------------------- MODULE TwoServers -----------------------------
(***************************************************************************)
(* Two server processes that are started with one path for their sockets,  *)
(* as when a service is started by hand while it runs.                     *)
(***************************************************************************)
EXTENDS Naturals

CONSTANTS Inodes1, Inodes2  \* of the sockets of either

VARIABLES file, target, listen1, socket1, inode1, listen2, socket2, inode2

vars == <<file, target, listen1, socket1, inode1, listen2, socket2, inode2>>

First == INSTANCE Listener WITH
  Inodes <- Inodes1, listen <- listen1, socket <- socket1, inode <- inode1
Second == INSTANCE Listener WITH
  Inodes <- Inodes2, listen <- listen2, socket <- socket2, inode <- inode2

TwoInit == First!ListenerInit({"unix"}) /\ Second!ListenerInit({"unix"})

FirstNext ==
  /\ \/ First!StartListening \/ First!Binding \/ First!ListenerFails
     \/ First!DropListener \/ First!Unlink \/ First!KillListener
  /\ UNCHANGED <<listen2, socket2, inode2>>

SecondNext ==
  /\ \/ Second!StartListening \/ Second!Binding \/ Second!ListenerFails
     \/ Second!DropListener \/ Second!Unlink \/ Second!KillListener
  /\ UNCHANGED <<listen1, socket1, inode1>>

TwoSpec == TwoInit /\ [][FirstNext \/ SecondNext]_vars

\* lib.rs:315-316, of bind: "This avoids unlinking a socket another process is
\* still actively using."  A file of a socket that its process has open is
\* removed by nobody but that process.
LiveSocketIsKept ==
  /\ [][socket1 # 0 /\ file = socket1 /\ socket1' = socket1 => file' = file]_vars
  /\ [][socket2 # 0 /\ file = socket2 /\ socket2' = socket2 => file' = file]_vars
=============================================================================

------------------------------ MODULE Listener ------------------------------
(***************************************************************************)
(* The listening socket of one server process (Listener and BindTarget of  *)
(* src/crates/server/src/lib.rs).  Other processes use the same path: each *)
(* step is one system call.  A socket file is known by its inode, which    *)
(* the kernel does not give to another file as long as the socket is open. *)
(***************************************************************************)
EXTENDS Naturals

CONSTANT Inodes  \* those that this process' own sockets get

VARIABLES
  file,    \* the inode of the file at the socket's path, 0 when there is none
  target,  \* "tcp", "unix", "systemd": a socket systemd has passed, or "bad"
  listen,  \* how far the process is in binding or dropping its listener
  socket,  \* the inode of the socket it has open, 0 for none
  inode    \* what it read of the path just after it bound

listenerVars == <<file, target, listen, socket, inode>>

SystemdInode == 99

\* Where systemd has no part, nothing is at the path before the first start.
ListenerInit(targets) ==
  /\ target \in targets
  /\ file = IF target = "systemd" THEN SystemdInode ELSE 0
  /\ listen = "none" /\ socket = 0 /\ inode = 0

IsOpen == listen = "bound"

-----------------------------------------------------------------------------
(***************************************************************************)
(* systemd_listen_fd, resolve_bind_target, then from_systemd_fd or bind    *)
(***************************************************************************)
StartListening ==
  /\ listen = "none"
  /\ listen' = "bind"
  /\ UNCHANGED <<file, target, socket, inode>>

\* A TCP socket leaves no file; the file of systemd's is not looked at.
BindTcp ==
  /\ listen = "bind" /\ target = "tcp"
  /\ listen' = "bound"
  /\ UNCHANGED <<file, target, socket, inode>>

FromSystemdFd ==
  /\ listen = "bind" /\ target = "systemd"
  /\ listen' = "bound"
  /\ socket' = SystemdInode
  /\ UNCHANGED <<file, target, inode>>

BindUnix ==
  /\ target = "unix"
  /\ file = 0
  /\ \E i \in Inodes : file' = i /\ socket' = i
  /\ listen' = "stat"
  /\ UNCHANGED <<target, inode>>

Bind == listen = "bind" /\ BindUnix

AddrInUse ==
  /\ listen = "bind" /\ target = "unix"
  /\ file # 0
  /\ listen' = "remove"
  /\ UNCHANGED <<file, target, socket, inode>>

RemoveFile ==
  /\ listen = "remove"
  /\ file # 0
  /\ file' = 0
  /\ listen' = "rebind"
  /\ UNCHANGED <<target, socket, inode>>

Rebind == listen = "rebind" /\ BindUnix

\* Whatever is at the path by now.
SocketInode ==
  /\ listen = "stat"
  /\ file # 0
  /\ inode' = file
  /\ listen' = "bound"
  /\ UNCHANGED <<file, target, socket>>

\* Any of these calls fails, for its own reason (a second AddrInUse, a file
\* that is gone) or for another.  A socket that was bound leaves its file.
ListenerFails ==
  /\ listen \in {"bind", "remove", "rebind", "stat"}
  /\ listen' = "none"
  /\ socket' = 0 /\ inode' = 0
  /\ UNCHANGED <<file, target>>

Binding ==
  \/ BindTcp \/ FromSystemdFd \/ Bind \/ AddrInUse \/ RemoveFile \/ Rebind
  \/ SocketInode

-----------------------------------------------------------------------------
(***************************************************************************)
(* Drop for Listener, then for its socket                                  *)
(***************************************************************************)
\* Mutant of Owned: systemd's file is removed like any other.
OwnedFromSystemd == file = socket

Owned == target = "unix" /\ file = inode

DropListener ==
  /\ listen = "bound"
  /\ listen' = IF Owned THEN "unlink" ELSE "none"
  /\ IF Owned THEN UNCHANGED <<socket, inode>> ELSE socket' = 0 /\ inode' = 0
  /\ UNCHANGED <<file, target>>

\* A file that is gone by now is no error.
Unlink ==
  /\ listen = "unlink"
  /\ file' = 0
  /\ listen' = "none"
  /\ socket' = 0 /\ inode' = 0
  /\ UNCHANGED target

\* The process is killed: the kernel closes its socket, nobody unlinks it.
KillListener ==
  /\ listen' = "none"
  /\ socket' = 0 /\ inode' = 0
  /\ UNCHANGED <<file, target>>
=============================================================================

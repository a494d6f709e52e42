---------------------------- MODULE SyscallTable ----------------------------
(***************************************************************************)
(* The system calls strace-macos knows: syscalls/definitions/*.py, one row *)
(* for each SyscallDef, in the order of the lists, with the Param classes  *)
(* the rows are built from.                                                *)
(*                                                                         *)
(* A parameter is [arg, other, null, label, inner, dir, count]: the class  *)
(* of argument its decode() returns, the classes it falls back to, whether *)
(* the value may be given a name, whether what it points to may show one,  *)
(* when memory is read for it, and the argument that holds its size, its   *)
(* count or its discriminator (from 1; 0 for none).  Indices are written   *)
(* as in the code, from 0.  A name is [stem, bars]: what lstrip("_")       *)
(* leaves, and how many underscores it takes away.                         *)
(***************************************************************************)
EXTENDS Integers, Sequences

In  == "IN"    \* read when the call begins
Out == "OUT"   \* read when it has succeeded
Both == "ANY"   \* decoded both times

\* A value that is held in the argument itself: "plain" has no name, "named"
\* is a number without one under --no-abbrev, and "hexed" is shown in hex.
Register(arg, label) ==
    [arg |-> arg, other |-> arg, null |-> arg, label |-> label, inner |-> "none", dir |-> Both,
     count |-> 0]

Signed   == Register("IntArg", "plain")
Unsigned == Register("UnsignedArg", "plain")
Id       == Register("UnsignedArg", "plain")
Ptr      == Register("PointerArg", "plain")
Fd       == Register("FileDescriptorArg", "plain")
Flags    == Register("FlagsArg", "named")
Const    == Register("IntArg", "named")
Custom   == Register("IntArg", "hexed")
Octal    == Register("IntArg", "hexed")
DirFd    == Register("IntArg", "hexed")
FlockOp  == Register("FlagsArg", "hexed")

\* A value that the argument points to, if it can be read; if it cannot; if
\* the argument is NULL, or not looked at yet.
Memory(arg, other, null, dir, i) ==
    [arg |-> arg, other |-> other, null |-> null, label |-> "memory", inner |-> "none",
     dir |-> dir, count |-> i + 1]
Pointed(arg, dir)    == Memory(arg, "PointerArg", "PointerArg", dir, -1)
Sized(arg, dir, i)   == Memory(arg, "PointerArg", "PointerArg", dir, i)

\* What shows names of what it read: "named" does so without --no-abbrev only,
\* "always" never looks at no_abbrev.
Naming(p) == [p EXCEPT !.inner = "named"]
Always(p) == [p EXCEPT !.inner = "always"]

Str             == Memory("StringArg", "StringArg", "StringArg", Both, -1)
Strs            == Pointed("StringArrayArg", Both)
Struct(dir)     == Pointed("StructArg", dir)
NamedStruct(dir) == Naming(Struct(dir))    \* stat, aiocb, sigevent, termios
AlwaysNamed(dir) == Always(Struct(dir))    \* sockaddr, sigaction, stack, rlimit, attrlist
IntPtr(dir)     == Pointed("IntPtrArg", dir)
Sigset(dir)     == Always(Pointed("StringArg", dir))
FdSet           == Pointed("StringArg", In)
FdPair          == Pointed("StringArg", Out)
Buffer(i, dir)  == Sized("BufferArg", dir, i)
Kevents(i, dir) == Always(Sized("StructArrayArg", dir, i))
Iovecs(i, dir)  == Sized("StructArrayArg", dir, i)
Pollfds(i)      == Always(Sized("StructArrayArg", In, i))
Ints(i, dir)    == Sized("StringArg", dir, i)
Aiocbs(i, dir)  == Always(Memory("StructArrayArg", "UnknownArg", "UnknownArg", dir, i))
Mib             == Always(Memory("StringArg", "StringArg", "PointerArg", Both, 1))
MibValue        == Pointed("IntArg", Out)
SizePtr         == Pointed("StringArg", Both)
Uuid            == Memory("UuidArg", "UuidArg", "PointerArg", Out, -1)
Timespec        == Pointed("StructArg", Both)

\* VariantParam: decoded by one of params, or by the default, or left out.
Variant(i, params, default) ==
    [arg |-> "Variant", other |-> "PointerArg", null |-> "PointerArg", label |-> "variant",
     inner |-> "none", dir |-> Both, count |-> i + 1, params |-> params, default |-> default]

\* The parameters that may decode an argument.
Alternatives(p) == IF p.label = "variant" THEN p.params \cup {p.default} ELSE {p}

Name(stem, bars) == [stem |-> stem, bars |-> bars]

\* SyscallDef.  Arguments from variadic on are variable ones.
Definition(number, name, params) ==
    [number |-> number, name |-> name, params |-> params, variadic |-> Len(params),
     decoder |-> FALSE]
Sys(number, stem, params)    == Definition(number, Name(stem, 0), params)
Dunder(number, stem, params) == Definition(number, Name(stem, 2), params)
Vararg(i, d)                 == [d EXCEPT !.variadic = i]
Worded(d)                    == [d EXCEPT !.decoder = TRUE]

-----------------------------------------------------------------------------
FILE_1 == <<
  Sys(3, "read", <<Fd, Buffer(2, Out), Unsigned>>),
  Sys(4, "write", <<Fd, Buffer(2, In), Unsigned>>),
  Vararg(2, Sys(5, "open", <<Str, Custom, Variant(1, {}, Octal)>>)),
  Sys(6, "close", <<Fd>>),
  Sys(9, "link", <<Str, Str>>),
  Sys(10, "unlink", <<Str>>),
  Sys(12, "chdir", <<Str>>),
  Sys(13, "fchdir", <<Fd>>),
  Sys(14, "mknod", <<Str, Octal, Signed>>),
  Sys(15, "chmod", <<Str, Octal>>),
  Sys(16, "chown", <<Str, Id, Id>>),
  Sys(34, "chflags", <<Str, Flags>>),
  Sys(18, "getfsstat", <<Ptr, Signed, Flags>>),
  Sys(33, "access", <<Str, Custom>>),
  Sys(36, "sync", <<>>),
  Sys(41, "dup", <<Fd>>),
  Sys(42, "pipe", <<>>),
  Vararg(2, Sys(54, "ioctl", <<Fd, Custom,
                               Variant(1, {IntPtr(Out), Struct(Out), NamedStruct(Out)}, Ptr)>>)),
  Sys(56, "revoke", <<Str>>),
  Sys(57, "symlink", <<Str, Str>>),
  Sys(58, "readlink", <<Str, Buffer(2, Out), Unsigned>>),
  Sys(60, "umask", <<Octal>>),
  Sys(61, "chroot", <<Str>>),
  Sys(65, "msync", <<Ptr, Unsigned, Flags>>),
  Sys(90, "dup2", <<Fd, Fd>>),
  Worded(Vararg(2, Sys(92, "fcntl", <<Fd, Const, Variant(1, {Fd, Flags, Custom}, Signed)>>))),
  Sys(95, "fsync", <<Fd>>),
  Sys(120, "readv", <<Fd, Iovecs(2, Out), Signed>>),
  Sys(121, "writev", <<Fd, Iovecs(2, In), Signed>>),
  Sys(123, "fchown", <<Fd, Id, Id>>),
  Sys(124, "fchmod", <<Fd, Octal>>) >>

FILE_2 == <<
  Sys(128, "rename", <<Str, Str>>),
  Sys(131, "flock", <<Fd, FlockOp>>),
  Sys(132, "mkfifo", <<Str, Octal>>),
  Sys(136, "mkdir", <<Str, Octal>>),
  Sys(137, "rmdir", <<Str>>),
  Sys(153, "pread", <<Fd, Buffer(2, Out), Unsigned, Signed>>),
  Sys(154, "pwrite", <<Fd, Buffer(2, In), Unsigned, Signed>>),
  Sys(540, "preadv", <<Fd, Iovecs(2, Out), Signed, Signed>>),
  Sys(541, "pwritev", <<Fd, Iovecs(2, In), Signed, Signed>>),
  Sys(155, "nfssvc", <<Flags, Ptr>>),
  Sys(157, "statfs", <<Str, Struct(Out)>>),
  Sys(158, "fstatfs", <<Fd, Struct(Out)>>),
  Sys(159, "unmount", <<Str, Flags>>),
  Sys(161, "getfh", <<Str, Ptr>>),
  Sys(165, "quotactl", <<Str, Const, Signed, Ptr>>),
  Sys(167, "mount", <<Str, Str, Flags, Ptr>>),
  Sys(187, "fdatasync", <<Fd>>),
  Sys(188, "stat", <<Str, NamedStruct(Out)>>),
  Sys(189, "fstat", <<Fd, NamedStruct(Out)>>),
  Sys(190, "lstat", <<Str, NamedStruct(Out)>>),
  Sys(191, "pathconf", <<Str, Const>>),
  Sys(192, "fpathconf", <<Fd, Const>>),
  Sys(196, "getdirentries", <<Fd, Buffer(2, Out), Unsigned, IntPtr(Out)>>),
  Sys(199, "lseek", <<Fd, Signed, Const>>),
  Sys(200, "truncate", <<Str, Signed>>),
  Sys(201, "ftruncate", <<Fd, Signed>>),
  Sys(205, "undelete", <<Str>>),
  Vararg(2, Sys(216, "open_dprotected_np",
                <<Str, Custom, Variant(1, {}, Octal), Signed, Signed>>)) >>

FILE_3 == <<
  Sys(217, "fsgetpath_ext", <<Ptr, Unsigned, Ptr, Unsigned>>),
  Vararg(3, Sys(218, "openat_dprotected_np", <<DirFd, Str, Custom, Variant(2, {}, Octal), Signed,
                                               Signed>>)),
  Sys(220, "getattrlist", <<Str, AlwaysNamed(In), Ptr, Unsigned, Flags>>),
  Sys(221, "setattrlist", <<Str, AlwaysNamed(In), Ptr, Unsigned, Flags>>),
  Sys(222, "getdirentriesattr", <<Fd, Ptr, Ptr, Unsigned, Ptr, Ptr, Ptr, Unsigned>>),
  Sys(223, "exchangedata", <<Str, Str, Flags>>),
  Sys(225, "searchfs", <<Str, Struct(In), Ptr, Flags, Unsigned, Ptr>>),
  Sys(226, "delete", <<Str>>),
  Sys(227, "copyfile", <<Str, Str, Signed, Flags>>),
  Sys(228, "fgetattrlist", <<Fd, AlwaysNamed(In), Ptr, Unsigned, Flags>>),
  Sys(229, "fsetattrlist", <<Fd, AlwaysNamed(In), Ptr, Unsigned, Flags>>),
  Sys(234, "getxattr", <<Str, Str, Ptr, Unsigned, Unsigned, Flags>>),
  Sys(235, "fgetxattr", <<Fd, Str, Ptr, Unsigned, Unsigned, Flags>>),
  Sys(236, "setxattr", <<Str, Str, Ptr, Unsigned, Unsigned, Flags>>) >>

FILE_4 == <<
  Sys(237, "fsetxattr", <<Fd, Str, Ptr, Unsigned, Unsigned, Flags>>),
  Sys(238, "removexattr", <<Str, Str, Flags>>),
  Sys(239, "fremovexattr", <<Fd, Str, Flags>>),
  Sys(240, "listxattr", <<Str, Ptr, Unsigned, Flags>>),
  Sys(241, "flistxattr", <<Fd, Ptr, Unsigned, Flags>>),
  Sys(242, "fsctl", <<Str, Unsigned, Ptr, Unsigned>>),
  Sys(245, "ffsctl", <<Fd, Unsigned, Ptr, Unsigned>>),
  Sys(248, "fhopen", <<Ptr, Custom>>),
  Vararg(2, Sys(266, "shm_open", <<Str, Custom, Variant(1, {}, Octal)>>)),
  Sys(267, "shm_unlink", <<Str>>),
  Sys(268, "sem_open", <<Str, Custom, Octal, Unsigned>>),
  Sys(269, "sem_close", <<Ptr>>),
  Sys(270, "sem_unlink", <<Str>>),
  Sys(277, "open_extended", <<Str, Custom, Id, Id, Octal, Ptr>>),
  Sys(279, "stat_extended", <<Str, Ptr, Ptr, Ptr>>),
  Sys(280, "lstat_extended", <<Str, Ptr, Ptr, Ptr>>),
  Sys(281, "fstat_extended", <<Fd, Ptr, Ptr, Ptr>>),
  Sys(282, "chmod_extended", <<Str, Id, Id, Octal, Ptr>>),
  Sys(283, "fchmod_extended", <<Fd, Id, Id, Octal, Ptr>>) >>

FILE_5 == <<
  Sys(284, "access_extended", <<Str, Custom, Ptr, Unsigned>>),
  Sys(291, "mkfifo_extended", <<Str, Id, Id, Octal, Ptr>>),
  Sys(292, "mkdir_extended", <<Str, Id, Id, Octal, Ptr>>),
  Sys(297, "psynch_rw_longrdlock", <<Ptr, Unsigned, Unsigned, Unsigned, Signed>>),
  Sys(298, "psynch_rw_yieldwrlock", <<Ptr, Unsigned, Unsigned, Unsigned, Signed>>),
  Sys(299, "psynch_rw_downgrade", <<Ptr, Unsigned, Unsigned, Unsigned, Signed>>),
  Sys(300, "psynch_rw_upgrade", <<Ptr, Unsigned, Unsigned, Unsigned, Signed>>),
  Sys(350, "audit", <<Buffer(1, In), Unsigned>>),
  Sys(351, "auditon", <<Const, Ptr, Unsigned>>),
  Sys(353, "getauid", <<Ptr>>),
  Sys(354, "setauid", <<Ptr>>),
  Sys(357, "getaudit_addr", <<Ptr, Signed>>),
  Sys(358, "setaudit_addr", <<Ptr, Signed>>),
  Sys(359, "auditctl", <<Str>>),
  Vararg(3, Sys(463, "openat", <<DirFd, Str, Custom, Variant(2, {}, Octal)>>)),
  Sys(479, "openbyid_np", <<Ptr, Unsigned, Custom>>),
  Sys(469, "fstatat", <<DirFd, Str, NamedStruct(Out), Flags>>),
  Sys(471, "linkat", <<DirFd, Str, DirFd, Str, Flags>>),
  Sys(472, "unlinkat", <<DirFd, Str, Flags>>) >>

FILE_6 == <<
  Sys(473, "readlinkat", <<DirFd, Str, Buffer(3, Out), Unsigned>>),
  Sys(474, "symlinkat", <<Str, DirFd, Str>>),
  Sys(475, "mkdirat", <<DirFd, Str, Octal>>),
  Sys(476, "getattrlistat", <<DirFd, Str, AlwaysNamed(In), Ptr, Unsigned, Flags>>),
  Sys(467, "fchmodat", <<DirFd, Str, Octal, Flags>>),
  Sys(468, "fchownat", <<DirFd, Str, Id, Id, Flags>>),
  Sys(470, "fstatat64", <<DirFd, Str, NamedStruct(Out), Flags>>),
  Sys(465, "renameat", <<DirFd, Str, DirFd, Str>>),
  Sys(466, "faccessat", <<DirFd, Str, Custom, Flags>>),
  Sys(35, "fchflags", <<Fd, Flags>>),
  Sys(461, "getattrlistbulk", <<Fd, AlwaysNamed(In), Ptr, Unsigned, Unsigned>>),
  Sys(441, "guarded_open_np", <<Str, Ptr, Custom, Signed>>),
  Sys(442, "guarded_close_np", <<Fd, Ptr>>),
  Sys(484, "guarded_open_dprotected_np", <<Str, Ptr, Custom, Const, Flags, Octal>>),
  Sys(444, "change_fdguard_np", <<Fd, Ptr, Unsigned, Ptr, Unsigned, Ptr>>),
  Sys(487, "guarded_writev_np", <<Fd, Ptr, Ptr, Signed>>) >>

FILE_7 == <<
  Sys(427, "fsgetpath", <<Ptr, Unsigned, Ptr, Unsigned>>),
  Sys(526, "fmount", <<Str, Fd, Flags, Ptr>>),
  Sys(517, "fclonefileat", <<Fd, DirFd, Str, Flags>>),
  Sys(553, "mkfifoat", <<DirFd, Str, Octal>>),
  Sys(554, "mknodat", <<DirFd, Str, Octal, Signed>>),
  Sys(488, "renameatx_np", <<DirFd, Str, DirFd, Str, Flags>>),
  Sys(489, "mremap_encrypted", <<Ptr, Unsigned, Unsigned, Unsigned, Unsigned>>),
  Sys(338, "stat64", <<Str, NamedStruct(Out)>>),
  Sys(339, "fstat64", <<Fd, NamedStruct(Out)>>),
  Sys(340, "lstat64", <<Str, NamedStruct(Out)>>),
  Sys(341, "stat64_extended", <<Str, Ptr, Ptr, Ptr>>),
  Sys(342, "lstat64_extended", <<Str, Ptr, Ptr, Ptr>>),
  Sys(343, "fstat64_extended", <<Fd, Ptr, Ptr, Ptr>>),
  Sys(344, "getdirentries64", <<Fd, Buffer(2, Out), Unsigned, IntPtr(Out)>>),
  Sys(345, "statfs64", <<Str, Struct(Out)>>),
  Sys(346, "fstatfs64", <<Fd, Struct(Out)>>),
  Sys(347, "getfsstat64", <<Ptr, Signed, Flags>>),
  Sys(462, "clonefileat", <<DirFd, Str, DirFd, Str, Flags>>),
  Sys(524, "setattrlistat", <<DirFd, Str, AlwaysNamed(In), Ptr, Unsigned, Flags>>) >>

FILE_SYSCALLS == FILE_1 \o FILE_2 \o FILE_3 \o FILE_4 \o FILE_5 \o FILE_6 \o FILE_7

NETWORK_1 == <<
  Sys(27, "recvmsg", <<Fd, Struct(Out), Flags>>),
  Sys(28, "sendmsg", <<Fd, Struct(In), Flags>>),
  Sys(29, "recvfrom", <<Fd, Buffer(2, Out), Unsigned, Flags, AlwaysNamed(Out), IntPtr(Out)>>),
  Sys(30, "accept", <<Fd, AlwaysNamed(Out), IntPtr(Out)>>),
  Sys(31, "getpeername", <<Fd, AlwaysNamed(Out), IntPtr(Out)>>),
  Sys(32, "getsockname", <<Fd, AlwaysNamed(Out), IntPtr(Out)>>),
  Sys(97, "socket", <<Const, Const, Const>>),
  Sys(98, "connect", <<Fd, AlwaysNamed(In), Unsigned>>),
  Sys(104, "bind", <<Fd, AlwaysNamed(In), Unsigned>>),
  Sys(105, "setsockopt", <<Fd, Const, Const, Buffer(4, In), Unsigned>>),
  Sys(106, "listen", <<Fd, Signed>>),
  Sys(118, "getsockopt", <<Fd, Const, Const, Ptr, IntPtr(Out)>>),
  Sys(133, "sendto", <<Fd, Buffer(2, In), Unsigned, Flags, AlwaysNamed(In), Unsigned>>),
  Sys(134, "shutdown", <<Fd, Const>>),
  Sys(135, "socketpair", <<Const, Const, Const, FdPair>>),
  Sys(436, "pid_shutdown_sockets", <<Signed, Signed>>) >>

NETWORK_2 == <<
  Sys(447, "connectx", <<Fd, Ptr, Unsigned, Ptr, Unsigned, Unsigned, Ptr, Ptr>>),
  Sys(448, "disconnectx", <<Fd, Unsigned, Unsigned>>),
  Sys(449, "peeloff", <<Fd, Unsigned>>),
  Sys(450, "socket_delegate", <<Const, Const, Const, Signed>>),
  Sys(460, "necp_match_policy", <<Ptr, Unsigned, Ptr>>),
  Sys(480, "recvmsg_x", <<Fd, Ptr, Unsigned, Flags>>),
  Sys(481, "sendmsg_x", <<Fd, Ptr, Unsigned, Flags>>),
  Sys(490, "netagent_trigger", <<Ptr, Unsigned>>),
  Sys(502, "necp_client_action", <<Signed, Unsigned, Ptr, Unsigned, Ptr, Unsigned>>),
  Sys(523, "necp_session_action", <<Signed, Unsigned, Ptr, Unsigned>>),
  Sys(525, "net_qos_guideline", <<Ptr, Ptr>>) >>

NETWORK_SYSCALLS == NETWORK_1 \o NETWORK_2

PROCESS_1 == <<
  Sys(1, "exit", <<Signed>>),
  Sys(2, "fork", <<>>),
  Sys(7, "wait4", <<Signed, IntPtr(Out), Flags, Struct(Out)>>),
  Sys(20, "getpid", <<>>),
  Sys(23, "setuid", <<Id>>),
  Sys(24, "getuid", <<>>),
  Sys(25, "geteuid", <<>>),
  Sys(39, "getppid", <<>>),
  Sys(43, "getegid", <<>>),
  Sys(47, "getgid", <<>>),
  Sys(49, "getlogin", <<Buffer(1, Out), Unsigned>>),
  Sys(50, "setlogin", <<Str>>),
  Sys(59, "execve", <<Str, Strs, Strs>>),
  Sys(66, "vfork", <<>>),
  Sys(67, "oslog_coproc_reg", <<Ptr, Unsigned>>),
  Sys(68, "oslog_coproc", <<Ptr, Unsigned, Unsigned>>),
  Sys(79, "getgroups", <<Unsigned, Ints(0, Out)>>),
  Sys(80, "setgroups", <<Unsigned, Ints(0, In)>>),
  Sys(81, "getpgrp", <<>>),
  Sys(82, "setpgid", <<Signed, Signed>>),
  Sys(126, "setreuid", <<Id, Id>>),
  Sys(127, "setregid", <<Id, Id>>),
  Sys(96, "setpriority", <<Const, Signed, Signed>>),
  Sys(100, "getpriority", <<Const, Signed>>),
  Sys(117, "getrusage", <<Const, Struct(Out)>>),
  Sys(147, "setsid", <<>>),
  Sys(151, "getpgid", <<Signed>>),
  Sys(152, "setprivexec", <<Signed>>),
  Sys(173, "waitid", <<Const, Unsigned, Ptr, Flags>>),
  Sys(181, "setgid", <<Id>>),
  Sys(182, "setegid", <<Id>>),
  Sys(183, "seteuid", <<Id>>),
  Sys(194, "getrlimit", <<Const, AlwaysNamed(Out)>>),
  Sys(195, "setrlimit", <<Const, AlwaysNamed(In)>>),
  Sys(243, "initgroups", <<Str, Signed, Ptr, Unsigned>>),
  Sys(244, "posix_spawn", <<IntPtr(Out), Str, Ptr, Ptr, Strs, Strs>>),
  Sys(271, "sem_wait", <<Ptr>>),
  Sys(272, "sem_trywait", <<Ptr>>),
  Sys(310, "getsid", <<Signed>>),
  Sys(327, "issetugid", <<>>),
  Dunder(334, "semwait_signal", <<Signed, Signed, Signed, Signed, Signed, Signed>>),
  Sys(368, "workq_kernreturn", <<Signed, Ptr, Signed, Signed>>),
  Dunder(380, "mac_execve", <<Str, Strs, Strs, Ptr>>),
  Dunder(386, "mac_get_proc", <<Ptr>>),
  Dunder(387, "mac_set_proc", <<Ptr>>) >>

PROCESS_2 == <<
  Dunder(390, "mac_get_pid", <<Signed, Ptr>>),
  Sys(457, "sfi_pidctl", <<Unsigned, Signed, Unsigned>>),
  Sys(458, "coalition", <<Unsigned, Ptr, Unsigned>>),
  Sys(459, "coalition_info", <<Unsigned, Ptr, Ptr, Unsigned>>),
  Sys(494, "persona", <<Unsigned, Unsigned, Ptr, Ptr, Unsigned, Ptr>>),
  Sys(515, "ulock_wait", <<Unsigned, Ptr, Unsigned, Unsigned>>),
  Sys(532, "coalition_ledger", <<Unsigned, Unsigned, Ptr, Unsigned>>),
  Sys(538, "task_inspect_for_pid", <<Signed, Signed, Unsigned>>),
  Sys(544, "ulock_wait2", <<Unsigned, Ptr, Unsigned, Unsigned, Unsigned>>),
  Sys(556, "coalition_policy_set", <<Unsigned, Unsigned, Ptr, Unsigned>>),
  Sys(557, "coalition_policy_get", <<Unsigned, Unsigned, Ptr, Unsigned>>) >>

PROCESS_SYSCALLS == PROCESS_1 \o PROCESS_2

MEMORY_SYSCALLS == <<
  Sys(73, "munmap", <<Ptr, Unsigned>>),
  Sys(74, "mprotect", <<Ptr, Unsigned, Flags>>),
  Sys(75, "madvise", <<Ptr, Unsigned, Const>>),
  Sys(78, "mincore", <<Ptr, Unsigned, Ptr>>),
  Sys(197, "mmap", <<Ptr, Unsigned, Flags, Flags, Fd, Unsigned>>),
  Sys(203, "mlock", <<Ptr, Unsigned>>),
  Sys(204, "munlock", <<Ptr, Unsigned>>),
  Sys(250, "minherit", <<Ptr, Unsigned, Const>>),
  Sys(294, "shared_region_check_np", <<Ptr>>),
  Sys(296, "vm_pressure_monitor", <<Signed, Signed, Ptr>>),
  Sys(324, "mlockall", <<Flags>>),
  Sys(325, "munlockall", <<>>),
  Sys(536, "shared_region_map_and_slide_2_np",
      <<Unsigned, Unsigned, Ptr, Unsigned, Ptr, Unsigned>>),
  Sys(65, "msync", <<Ptr, Unsigned, Flags>>),
  Sys(489, "mremap_encrypted", <<Ptr, Unsigned, Unsigned, Unsigned, Unsigned>>) >>

SIGNAL_SYSCALLS == <<
  Sys(37, "kill", <<Signed, Const>>),
  Sys(46, "sigaction", <<Const, AlwaysNamed(In), AlwaysNamed(Out)>>),
  Sys(52, "sigpending", <<Sigset(Out)>>),
  Sys(53, "sigaltstack", <<AlwaysNamed(In), AlwaysNamed(Out)>>),
  Sys(111, "sigsuspend", <<Sigset(In)>>),
  Sys(328, "pthread_kill", <<Ptr, Const>>),
  Sys(329, "pthread_sigmask", <<Const, Sigset(In), Sigset(Out)>>),
  Sys(48, "sigprocmask", <<Const, Sigset(In), Sigset(Out)>>),
  Sys(330, "sigwait", <<Sigset(In), IntPtr(Out)>>) >>

IPC_1 == <<
  Sys(93, "select", <<Signed, FdSet, FdSet, FdSet, Struct(In)>>),
  Sys(230, "poll", <<Pollfds(1), Unsigned, Signed>>),
  Sys(394, "pselect", <<Signed, FdSet, FdSet, FdSet, Struct(In), Ptr>>),
  Sys(251, "semsys", <<Signed, Signed, Signed, Signed, Signed>>),
  Sys(252, "msgsys", <<Signed, Signed, Signed, Signed, Signed>>),
  Sys(253, "shmsys", <<Signed, Signed, Signed, Signed>>),
  Vararg(3, Sys(254, "semctl", <<Signed, Signed, Const, Struct(Out)>>)),
  Sys(255, "semget", <<Signed, Signed, Custom>>),
  Sys(256, "semop", <<Signed, Ptr, Unsigned>>),
  Sys(258, "msgctl", <<Signed, Const, Struct(Out)>>),
  Sys(259, "msgget", <<Signed, Custom>>),
  Sys(260, "msgsnd", <<Signed, Ptr, Unsigned, Flags>>),
  Sys(261, "msgrcv", <<Signed, Ptr, Unsigned, Signed, Flags>>),
  Sys(262, "shmat", <<Signed, Ptr, Flags>>),
  Sys(263, "shmctl", <<Signed, Const, Struct(Out)>>),
  Sys(264, "shmdt", <<Ptr>>),
  Sys(265, "shmget", <<Signed, Unsigned, Custom>>),
  Sys(271, "sem_wait", <<Ptr>>),
  Sys(272, "sem_trywait", <<Ptr>>),
  Sys(273, "sem_post", <<Ptr>>),
  Sys(314, "aio_return", <<NamedStruct(In)>>) >>

IPC_2 == <<
  Sys(315, "aio_suspend", <<Aiocbs(1, In), Signed, Ptr>>),
  Sys(316, "aio_cancel", <<Fd, NamedStruct(In)>>),
  Sys(317, "aio_error", <<NamedStruct(In)>>),
  Sys(320, "lio_listio", <<Const, Aiocbs(2, In), Signed, NamedStruct(In)>>),
  Sys(362, "kqueue", <<>>),
  Sys(363, "kevent", <<Fd, Kevents(2, In), Signed, Kevents(4, Out), Signed, Struct(In)>>),
  Sys(369, "kevent64", <<Fd, Kevents(2, In), Signed, Kevents(4, Out), Signed, Unsigned,
                         Struct(In)>>),
  Sys(374, "kevent_qos", <<Signed, Ptr, Signed, Ptr, Signed, Ptr, Ptr, Unsigned>>),
  Sys(375, "kevent_id", <<Unsigned, Ptr, Signed, Ptr, Signed, Ptr, Ptr, Unsigned>>),
  Sys(306, "psynch_rw_rdlock", <<Ptr, Unsigned, Unsigned, Unsigned, Signed>>),
  Sys(307, "psynch_rw_wrlock", <<Ptr, Unsigned, Unsigned, Unsigned, Signed>>),
  Sys(308, "psynch_rw_unlock", <<Ptr, Unsigned, Unsigned, Unsigned, Signed>>),
  Sys(305, "psynch_cvwait", <<Ptr, Unsigned, Unsigned, Ptr, Unsigned, Unsigned, Unsigned,
                              Unsigned>>),
  Sys(303, "psynch_cvbroad", <<Ptr, Unsigned, Unsigned, Ptr, Unsigned, Unsigned, Unsigned,
                               Unsigned>>) >>

IPC_3 == <<
  Sys(304, "psynch_cvsignal", <<Ptr, Unsigned, Unsigned, Ptr, Unsigned, Unsigned, Unsigned,
                                Unsigned>>),
  Sys(301, "psynch_mutexwait", <<Ptr, Unsigned, Unsigned, Unsigned, Unsigned>>),
  Sys(302, "psynch_mutexdrop", <<Ptr, Unsigned, Unsigned, Unsigned, Unsigned>>),
  Sys(443, "guarded_kqueue_np", <<Ptr, Signed>>),
  Sys(516, "ulock_wake", <<Unsigned, Ptr, Unsigned>>),
  Sys(530, "kqueue_workloop_ctl", <<Ptr, Unsigned, Ptr, Unsigned>>) >>

IPC_SYSCALLS == IPC_1 \o IPC_2 \o IPC_3

MISC_SYSCALLS == <<
  Sys(0, "syscall", <<Signed, Ptr>>),
  Sys(38, "crossarch_trap", <<Unsigned, Unsigned, Unsigned, Unsigned>>),
  Sys(51, "acct", <<Str>>),
  Sys(55, "reboot", <<Flags, Str>>),
  Sys(85, "swapon", <<>>),
  Sys(493, "grab_pgo_data", <<Ptr, Signed, Ptr, Unsigned, Ptr, Ptr>>),
  Sys(550, "map_with_linking_np", <<Ptr, Unsigned, Signed, Signed, Signed, Unsigned, Ptr>>),
  Sys(430, "fileport_makeport", <<Fd, Ptr>>),
  Sys(431, "fileport_makefd", <<Ptr>>),
  Sys(501, "necp_open", <<Signed>>),
  Sys(446, "proc_rlimit_control", <<Signed, Signed, Ptr>>),
  Sys(170, "csops_audittoken", <<Signed, Unsigned, Ptr, Unsigned, Ptr>>),
  Sys(186, "thread_selfcounts", <<Signed, Ptr, Unsigned>>) >>

SYSINFO_SYSCALLS == <<
  Sys(89, "getdtablesize", <<>>),
  Sys(142, "gethostuuid", <<Uuid, Timespec>>),
  Sys(202, "sysctl", <<Mib, Unsigned, MibValue, SizePtr, Ptr, Unsigned>>),
  Sys(274, "sysctlbyname", <<Str, MibValue, SizePtr, Ptr, Unsigned>>),
  Sys(445, "usrctl", <<Unsigned>>),
  Sys(500, "getentropy", <<Ptr, Unsigned>>) >>

THREAD_SYSCALLS == <<
  Dunder(333, "pthread_canceled", <<Signed>>),
  Dunder(332, "pthread_markcancel", <<Signed>>),
  Dunder(348, "pthread_chdir", <<Str>>),
  Dunder(349, "pthread_fchdir", <<Signed>>),
  Sys(360, "bsdthread_create", <<Ptr, Ptr, Ptr, Ptr, Unsigned>>),
  Sys(361, "bsdthread_terminate", <<Ptr, Unsigned, Unsigned, Unsigned>>),
  Sys(366, "bsdthread_register", <<Ptr, Ptr, Signed>>),
  Sys(478, "bsdthread_ctl", <<Ptr, Unsigned, Ptr, Ptr>>),
  Sys(482, "thread_selfusage", <<>>),
  Sys(372, "thread_selfid", <<>>) >>

TIME_SYSCALLS == <<
  Sys(83, "setitimer", <<Const, Ptr, Ptr>>),
  Sys(86, "getitimer", <<Const, Ptr>>),
  Sys(116, "gettimeofday", <<Ptr, Ptr>>),
  Sys(122, "settimeofday", <<Ptr, Ptr>>),
  Sys(138, "utimes", <<Str, Ptr>>),
  Sys(139, "futimes", <<Signed, Ptr>>),
  Sys(140, "adjtime", <<Ptr, Ptr>>) >>

SECURITY_SYSCALLS == <<
  Dunder(381, "mac_syscall", <<Str, Signed, Ptr>>),
  Dunder(382, "mac_get_file", <<Str, Ptr>>),
  Dunder(383, "mac_set_file", <<Str, Ptr>>),
  Dunder(384, "mac_get_link", <<Str, Ptr>>),
  Dunder(385, "mac_set_link", <<Str, Ptr>>),
  Dunder(388, "mac_get_fd", <<Fd, Ptr>>),
  Dunder(389, "mac_set_fd", <<Fd, Ptr>>),
  Dunder(424, "mac_mount", <<Str, Str, Signed, Ptr, Ptr>>),
  Dunder(426, "mac_getfsstat", <<Ptr, Signed, Signed>>),
  Sys(169, "csops", <<Signed, Unsigned, Ptr, Unsigned>>),
  Sys(483, "csrctl", <<Unsigned, Ptr, Unsigned>>) >>

DEBUG_SYSCALLS == <<
  Sys(26, "ptrace", <<Const, Signed, Ptr, Signed>>),
  Sys(177, "kdebug_typefilter", <<Ptr, Ptr>>),
  Sys(178, "kdebug_trace_string", <<Unsigned, Unsigned, Str>>),
  Sys(179, "kdebug_trace64", <<Unsigned, Unsigned, Unsigned, Unsigned, Unsigned>>),
  Sys(180, "kdebug_trace", <<Unsigned, Unsigned, Unsigned, Unsigned, Unsigned>>),
  Sys(185, "panic_with_data", <<Ptr, Ptr, Unsigned, Unsigned>>),
  Sys(492, "microstackshot", <<Ptr, Unsigned, Unsigned>>),
  Sys(491, "stack_snapshot_with_config", <<Signed, Ptr, Unsigned>>),
  Sys(520, "terminate_with_payload", <<Signed, Unsigned, Ptr, Unsigned, Ptr, Unsigned, Unsigned>>),
  Sys(521, "abort_with_payload", <<Signed, Unsigned, Ptr, Unsigned, Ptr, Unsigned, Unsigned>>),
  Sys(529, "os_fault_with_payload", <<Unsigned, Ptr, Unsigned, Ptr, Unsigned>>),
  Sys(533, "log_data", <<Unsigned, Unsigned, Ptr, Unsigned>>),
  Sys(535, "objc_bp_assist_cfg_np", <<Ptr>>),
  Sys(547, "debug_syscall_reject", <<Ptr>>),
  Sys(548, "debug_syscall_reject_config", <<Ptr, Unsigned>>) >>
=============================================================================

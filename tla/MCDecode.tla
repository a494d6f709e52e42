------------------------------ MODULE MCDecode ------------------------------
\* Instances of Decode for TLC: parameter lists of the registry, with as many
\* raw values as tell its decoders apart.
EXTENDS Decode, TLC

P(class, dir, count) == [class |-> class, dir |-> dir, count |-> count]
Number      == P("scalar", "ANY", 0)   \* integers, flags, descriptors
Path        == P("string", "ANY", 0)
Address     == P("pointer", "ANY", 0)  \* PointerParam
Strings     == P("strings", "ANY", 0)
Struct(dir) == P("struct", dir, 0)
FdSet       == P("fdset", "IN", 0)

Varies(count, skip, bit, variants, default) ==
    [class |-> "variant", count |-> count, skip |-> skip, bit |-> bit,
     variants |-> variants, default |-> default]

Shape(params, inputs) ==
    [params |-> params, inputs |-> inputs, counting |-> FALSE, fails |-> "minus", decoder |-> FALSE]
Counts(s)  == [s EXCEPT !.counting = TRUE]
Errno(s)   == [s EXCEPT !.fails = "errno"]
Decodes(s) == [s EXCEPT !.decoder = TRUE]

One   == {1}
Ptr   == {1}
Null  == {0, 1}
Sizes == 0..MaxRaw
Few   == {0, 1, 3}   \* nothing, a little, more than is shown

\* file.py, process.py and network.py
read        == Counts(Shape(<<Number, P("buffer", "OUT", 3), Number>>, <<One, Null, Sizes>>))
write       == Counts(Shape(<<Number, P("buffer", "IN", 3), Number>>, <<One, Null, Few>>))
readlink    == Counts(Shape(<<Path, P("buffer", "OUT", 3), Number>>, <<Ptr, Ptr, Few>>))
readv       == Counts(Shape(<<Number, P("iovec", "OUT", 3), Number>>, <<One, Ptr, Few>>))
writev      == Counts(Shape(<<Number, P("iovec", "IN", 3), Number>>, <<One, Null, Few>>))
recvmsg     == Counts(Shape(<<Number, P("msghdr", "OUT", 0), Number>>, <<One, Null, One>>))
sendmsg     == Counts(Shape(<<Number, P("msghdr", "IN", 0), Number>>, <<One, Null, One>>))
getgroups   == Counts(Shape(<<Number, P("ints", "OUT", 1)>>, <<Sizes, Null>>))
getlogin    == Shape(<<P("buffer", "OUT", 2), Number>>, <<Ptr, Few>>)
posix_spawn == Errno(Shape(<<Struct("OUT"), Path, Address, Address, Strings, Strings>>,
                           <<Ptr, Ptr, One, One, Ptr, {0}>>))

\* open's mode is there if O_CREAT, here 1, is set.  Of ioctl's requests 1 fills
\* a struct, 0 takes no argument, and 3 is not in the table.  F_DUPFD, F_GETFD,
\* F_SETFD and F_GETFL are 0, 1, 2 and 3; F_GETFD and F_GETFL take no argument.
open  == Shape(<<Path, Number, Varies(2, {}, 1, <<>>, Number)>>, <<Null, {0, 1}, One>>)
ioctl == Shape(<<Number, Number, Varies(2, {0}, 0, 1 :> Struct("OUT"), Address)>>,
               <<One, {0, 1, 3}, Null>>)
fcntl == Decodes(Shape(<<Number, Number, Varies(2, {1, 3}, 0, 0 :> Number @@ 2 :> Number, Number)>>,
                       <<One, Sizes, One>>))

\* ipc.py
kevent     == Counts(Shape(<<Number, P("kevent", "IN", 3), Number, P("kevent", "OUT", 5), Number,
                             Struct("IN")>>,
                           <<One, Ptr, {1, 3}, Ptr, Few, {0}>>))
poll       == Shape(<<P("pollfd", "IN", 2), Number, Number>>, <<Null, Few, One>>)
select     == Shape(<<Number, FdSet, FdSet, FdSet, Struct("IN")>>, <<One, Ptr, {0}, {0}, Null>>)
lio_listio == Shape(<<Number, P("aiocb", "IN", 3), Number, Struct("IN")>>, <<One, Null, Few, {0}>>)

\* signal.py
sigprocmask     == Shape(<<Number, Struct("IN"), Struct("OUT")>>, <<One, Null, Ptr>>)
pthread_sigmask == Errno(sigprocmask)
sigwait         == Errno(Shape(<<Struct("IN"), Struct("OUT")>>, <<Ptr, Ptr>>))

\* sysinfo.py; a sysctl that sets a value: how oldp is decoded depends on what
\* the MIB was found to be, so oldp is NULL.
gethostuuid == Shape(<<P("uuid", "OUT", 0), Struct("ANY")>>, <<Null, Null>>)
sysctl      == Shape(<<P("mib", "ANY", 2), Number, Struct("OUT"), Struct("ANY"), Address, Number>>,
                     <<Null, Few, {0}, {0}, One, One>>)

\* The call of another thread: its third argument is larger than most.
pread == Counts(Shape(<<Number, P("buffer", "OUT", 3), Number, Number>>, <<{2}, Ptr, {3}, {3}>>))

MCShapes == [c \in Calls |->
    IF c = "other" THEN {pread}
    ELSE {read, write, readlink, readv, writev, recvmsg, sendmsg, getgroups, getlogin, posix_spawn,
          open, ioctl, fcntl, kevent, poll, select, lio_listio, sigprocmask, pthread_sigmask, sigwait,
          gethostuuid, sysctl}]

OnlyWritev == [c \in Calls |-> {writev}]
=============================================================================

------------------------------ MODULE Registry ------------------------------
(***************************************************************************)
(* SyscallRegistry (syscalls/registry.py) and the filter of the command    *)
(* line (tracer.py 94-143).  A registry is built by registering the rows   *)
(* of every category in turn; three dictionaries are kept, and a later row *)
(* replaces an earlier one with the same key.                              *)
(***************************************************************************)
EXTENDS SyscallTable, FiniteSets, TLC, Functions

\* SyscallCategory, in the order in which __init__ registers the lists.
CategoryOrder == <<"file", "network", "process", "memory", "signal", "ipc", "misc",
                   "sysinfo", "thread", "time", "security", "debug">>
Categories == Range(CategoryOrder)

Rows(c) ==
    CASE c = "file"     -> FILE_SYSCALLS
      [] c = "network"  -> NETWORK_SYSCALLS
      [] c = "process"  -> PROCESS_SYSCALLS
      [] c = "memory"   -> MEMORY_SYSCALLS
      [] c = "signal"   -> SIGNAL_SYSCALLS
      [] c = "ipc"      -> IPC_SYSCALLS
      [] c = "misc"     -> MISC_SYSCALLS
      [] c = "sysinfo"  -> SYSINFO_SYSCALLS
      [] c = "thread"   -> THREAD_SYSCALLS
      [] c = "time"     -> TIME_SYSCALLS
      [] c = "security" -> SECURITY_SYSCALLS
      [] c = "debug"    -> DEBUG_SYSCALLS

NoRegistry == [byNumber |-> << >>, byName |-> << >>, categories |-> << >>]

\* A list as a dictionary: no name and no number is in a list twice.
RowOf(rows, Key(_)) ==
    [k \in {Key(rows[i]) : i \in DOMAIN rows} |->
        rows[CHOOSE i \in DOMAIN rows : Key(rows[i]) = k]]
ByNumber(rows) == RowOf(rows, LAMBDA d : d.number)
ByName(rows)   == RowOf(rows, LAMBDA d : d.name)
Labels(rows, c) == [n \in {rows[i].name : i \in DOMAIN rows} |-> c]

\* _register, for every row of a category.
RegisterRows(reg, c) ==
    [byNumber   |-> ByNumber(Rows(c)) @@ reg.byNumber,
     byName     |-> ByName(Rows(c)) @@ reg.byName,
     categories |-> Labels(Rows(c), c) @@ reg.categories]

\* SyscallRegistry.__init__: the dictionaries when i categories are registered.
Registered[i \in 0..Len(CategoryOrder)] ==
    IF i = 0 THEN NoRegistry ELSE RegisterRows(Registered[i - 1], CategoryOrder[i])

Library == Registered[Len(CategoryOrder)]

\* lookup_by_name (of a name that is known), get_category.
KnownNames         == DOMAIN Library.byName
LookupByName(name) == Library.byName[name]
GetCategory(name)  == Library.categories[name]

\* The breakpoints are set on the names of get_all_syscalls.
Breakpoints == LET reg == Library IN {reg.byNumber[n].name : n \in DOMAIN reg.byNumber}

\* function_name.lstrip("_")
Stripped(symbol) == Name(symbol.stem, 0)

-----------------------------------------------------------------------------
\* A filter expression is [prefixed, words]: whether it begins with "trace=",
\* and what stands between its commas; no words stand for no expression.
NoExpression == [prefixed |-> FALSE, words |-> {}]

\* What _parse_filter leaves in filter_category or in filtered_syscalls.
NoFilter         == [kind |-> "none"]
BadFilter        == [kind |-> "error"]
ByCategory(c)    == [kind |-> "category", category |-> c]
ByNames(names)   == [kind |-> "names", names |-> names]

ParseFilter(e) ==
    IF e = NoExpression THEN NoFilter
    ELSE IF ~e.prefixed THEN BadFilter
    ELSE IF \E c \in Categories : e.words = {Name(c, 0)}
    THEN ByCategory(CHOOSE c \in Categories : e.words = {Name(c, 0)})
    ELSE ByNames(e.words)

\* mutant: the names of a filter are not looked at.
ShouldTraceCategory(filter, name) ==
    filter.kind = "category" => GetCategory(name) = filter.category

ShouldTrace(filter, name) ==
    /\ filter.kind = "category" => GetCategory(name) = filter.category
    /\ filter.kind = "names" => name \in filter.names
=============================================================================

------------------------------ MODULE Startup ------------------------------
(***************************************************************************)
(* main of cpu-miner.c: the options in any order, the address file, and    *)
(* the creation of the threads, each of which may run as soon as it is     *)
(* there.  An argument is one of the keys below; the keys "url ..." are    *)
(* --url with an address of that kind, "config" is a configuration file    *)
(* with the members ConfigKeys, "bad" any argument parse_arg refuses, and  *)
(* "other" an option that none of this depends on.                         *)
(***************************************************************************)
EXTENDS Addresses

CONSTANTS Files,        \* address files: [name, text |-> codes, scripts |-> what it lists]
          ConfigKeys,   \* the members of the configuration file, in options[] order
          MaxArgs,      \* arguments on the command line
          Threads,      \* opt_n_threads, at most 3
          LineSize      \* sizeof(line) in load_addresses_from_file

PkSize == 42            \* sizeof(pk_script)
Urls == {"url http", "url https", "url pool", "url pools"}
Keys == Urls \cup {"config", "bad", "other", "benchmark", "no-longpoll", "no-stratum",
                   "no-getwork", "no-gbt", "afile", "coinbase-sig"}

\* A configuration file cannot name another one; lines have room for text;
\* files have names of their own.
ASSUME StartupAssumption ==
  /\ ConfigKeys \in Seq(Keys \ {"config"})
  /\ LineSize \in Nat /\ LineSize > 1
  /\ \A f \in Files : f.text \in Seq(Nat) /\ f.name \notin {"none", "missing"}
  /\ \A f, g \in Files : f.name = g.name => f = g

VARIABLES mpc,        \* where main is
          args,       \* number of arguments parsed
          opt,        \* the settings, globals of cpu-miner.c
          file,       \* the name of the address file, once read
          addrs,      \* coinbase_addresses, as scripts
          pk,         \* pk_script and pk_script_size
          queues,     \* the thr_info[] entries with a queue
          threads,    \* the threads created
          pushed      \* the queues that something was pushed to

startVars == <<mpc, args, opt, file, addrs, pk, queues, threads, pushed>>

----------------------------------------------------------------------------
(* Options                                                                 *)

Defaults ==
  [url |-> "none", benchmark |-> FALSE, want_longpoll |-> TRUE, want_stratum |-> TRUE,
   have_stratum |-> FALSE, have_gbt |-> TRUE, allow_getwork |-> TRUE,
   have_longpoll |-> FALSE, afile |-> FALSE, sig |-> 0, refused |-> FALSE]

\* --url: the last one counts, and it says whether this is a pool.
parse_url(o, key) ==
  [o EXCEPT !.url = key,
            !.have_stratum = ~o.benchmark /\ key \in {"url pool", "url pools"}]

\* Mutant: --benchmark after the URL of a pool stays with the pool.
parse_benchmark_only(o) ==
  [o EXCEPT !.benchmark = TRUE, !.want_longpoll = FALSE, !.want_stratum = FALSE]

parse_benchmark(o) ==
  [o EXCEPT !.benchmark = TRUE, !.want_longpoll = FALSE, !.want_stratum = FALSE,
            !.have_stratum = FALSE]

parse_arg(o, key) ==
  CASE key \in Urls         -> parse_url(o, key)
    [] key = "benchmark"    -> parse_benchmark(o)
    [] key = "no-longpoll"  -> [o EXCEPT !.want_longpoll = FALSE]
    [] key = "no-stratum"   -> [o EXCEPT !.want_stratum = FALSE]
    [] key = "no-getwork"   -> [o EXCEPT !.allow_getwork = FALSE]
    [] key = "no-gbt"       -> [o EXCEPT !.have_gbt = FALSE]
    [] key = "afile"        -> [o EXCEPT !.afile = TRUE]
    [] key = "coinbase-sig" -> [o EXCEPT !.sig = 30]
    [] key = "bad"          -> [o EXCEPT !.refused = TRUE]
    [] OTHER                -> o

\* A configuration file: its members in the order of options[].
parse_config(o) ==
  LET parsed[i \in 0 .. Len(ConfigKeys)] ==
        IF i = 0 THEN o ELSE parse_arg(parsed[i - 1], ConfigKeys[i])
  IN  parsed[Len(ConfigKeys)]

\* One argument; one that is refused ends the program.
parse_cmdline(key) ==
  /\ mpc = "parse" /\ args < MaxArgs
  /\ args' = args + 1
  /\ opt' = IF key = "config" THEN parse_config(opt) ELSE parse_arg(opt, key)
  /\ mpc' = IF opt'.refused THEN "exit" ELSE "parse"
  /\ UNCHANGED <<file, addrs, pk, queues, threads, pushed>>

----------------------------------------------------------------------------
(* The address file                                                        *)

isspace(ch) == ch \in {9, 10, 11, 12, 13, 32}

\* fgets: at most LineSize - 1 characters, up to a newline.
fgets[text \in Seq(Nat)] ==
  LET nl  == SelectInSeq(text, LAMBDA ch : ch = 10)
      end == IF nl = 0 THEN Len(text) ELSE nl
      n   == IF end < LineSize THEN end ELSE LineSize - 1
  IN  IF text = <<>> THEN <<>>
      ELSE <<SubSeq(text, 1, n)>> \o fgets[SubSeq(text, n + 1, Len(text))]

\* A line up to its newline and its comment, without the spaces around it.
trim(line) ==
  LET cut   == SelectInSeq(line, LAMBDA ch : ch \in {10, 35})
      body  == IF cut = 0 THEN line ELSE SubSeq(line, 1, cut - 1)
      start == SelectInSeq(body, LAMBDA ch : ~isspace(ch))
      end   == SelectLastInSeq(body, LAMBDA ch : ~isspace(ch))
  IN  IF start = 0 THEN <<>> ELSE SubSeq(body, start, end)

\* The addresses of a file, line by line, each as the script that
\* address_to_script makes of its text, which is a function of the text.  (The
\* buffer a text is checked with is larger than pk_script, but no script is:
\* one size serves both.)
load_addresses_from_file(text) ==
  LET lines == fgets[text]
      loaded[i \in 0 .. Len(lines)] ==
        IF i = 0 THEN <<>>
        ELSE LET addr   == trim(lines[i])
                 script == IF addr = <<>> THEN <<>> ELSE address_to_script(PkSize, addr)
             IN  IF script = <<>> THEN loaded[i - 1] ELSE Append(loaded[i - 1], script)
  IN  loaded[Len(lines)]

\* No line outgrows the buffer.
ShortLines(text) ==
  LET lines == fgets[text]
  IN  \A i \in 1 .. Len(lines) : Len(lines[i]) < LineSize - 1

\* The files beside what the program reads in them.
Disk == {[name |-> f.name, addrs |-> load_addresses_from_file(f.text),
          scripts |-> f.scripts, short |-> ShortLines(f.text)] : f \in Files}

\* Copying the script into pk_script leaves what lies behind it.
overwrite(bytes, s, from) ==
  [i \in 1 .. PkSize |-> IF i \in from .. Len(s) THEN s[i] ELSE bytes[i]]

select_random_address(script) ==
  [bytes |-> overwrite(pk.bytes, script, 1), size |-> Len(script)]

----------------------------------------------------------------------------
(* main                                                                    *)

StartInit ==
  /\ mpc = "parse" /\ args = 0
  /\ opt = Defaults
  /\ file = "none" /\ addrs = <<>>
  /\ pk = [bytes |-> [i \in 1 .. PkSize |-> 0], size |-> 0]
  /\ queues = {} /\ threads = {} /\ pushed = {}

Solo == ~opt.benchmark /\ ~opt.have_stratum

\* No URL, or a solo miner without an address file.
main_refuses ==
  /\ mpc = "parse"
  /\ \/ ~opt.benchmark /\ opt.url = "none"
     \/ Solo /\ ~opt.afile
  /\ mpc' = "exit"
  /\ UNCHANGED <<args, opt, file, addrs, pk, queues, threads, pushed>>

\* A file that cannot be opened or lists no address ends the program.
main_loads ==
  /\ mpc = "parse"
  /\ opt.url # "none" /\ Solo /\ opt.afile
  /\ \/ file' = "missing" /\ addrs' = <<>>
     \/ \E f \in Disk : file' = f.name /\ addrs' = f.addrs
  /\ IF addrs' = <<>>
     THEN mpc' = "exit" /\ pk' = pk
     ELSE /\ mpc' = "init"
          /\ \E i \in 1 .. Len(addrs') : pk' = select_random_address(addrs'[i])
  /\ UNCHANGED <<args, opt, queues, threads, pushed>>

main_goes_on ==
  /\ mpc = "parse"
  /\ opt.benchmark \/ (opt.url # "none" /\ ~Solo)
  /\ mpc' = "init"
  /\ UNCHANGED <<args, opt, file, addrs, pk, queues, threads, pushed>>

\* Locks, libcurl, going into the background, the number of processors, the
\* flags of RandomX, the barrier and the arrays; the parts that can fail
\* end the program.
main_inits ==
  /\ mpc = "init"
  /\ mpc' \in {"workio", "exit"}
  /\ UNCHANGED <<args, opt, file, addrs, pk, queues, threads, pushed>>

\* A thread with its queue; pthread_create may fail, and main returns.
start_thread(who, then) ==
  /\ queues' = queues \cup {who}
  /\ \/ threads' = threads \cup {who} /\ mpc' = then
     \/ threads' = threads /\ mpc' = "exit"
  /\ UNCHANGED <<args, opt, file, addrs, pk>>

start_workio ==
  /\ mpc = "workio"
  /\ start_thread("workio", "longpoll") /\ UNCHANGED pushed

start_longpoll ==
  /\ mpc = "longpoll"
  /\ IF opt.want_longpoll /\ ~opt.have_stratum
     THEN start_thread("longpoll", "stratum") /\ UNCHANGED pushed
     ELSE /\ mpc' = "stratum"
          /\ UNCHANGED <<args, opt, file, addrs, pk, queues, threads, pushed>>

\* The stratum thread is given the URL when it is a pool's.
start_stratum ==
  /\ mpc = "stratum"
  /\ IF opt.want_stratum
     THEN /\ start_thread("stratum", "miners")
          /\ pushed' = pushed \cup
                         (IF opt.have_stratum /\ mpc' = "miners" THEN {"stratum"} ELSE {})
     ELSE /\ mpc' = "miners"
          /\ UNCHANGED <<args, opt, file, addrs, pk, queues, threads, pushed>>

MinerNames == {"miner 1", "miner 2", "miner 3"}
Miners == threads \cap MinerNames

start_miner ==
  /\ mpc = "miners"
  /\ LET i == Cardinality(Miners) + 1
     IN  start_thread(<<"miner 1", "miner 2", "miner 3">>[i],
                      IF i = Threads THEN "join" ELSE "miners")
  /\ UNCHANGED pushed

main == \/ \E key \in Keys : parse_cmdline(key)
        \/ main_refuses \/ main_loads \/ main_goes_on \/ main_inits
        \/ start_workio \/ start_longpoll \/ start_stratum \/ start_miner
============================================================================

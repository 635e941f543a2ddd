------------------------------ MODULE Startup ------------------------------
(***************************************************************************)
(* Invocations of the program, one after another, up to the point where it *)
(* launches the backend: main (rpi_cam_ts.cpp), the first half of          *)
(* RpiCamTsApp::run (app.cpp), the generation of a default configuration   *)
(* (default_config.cpp) and the directories paths are relative to          *)
(* (path_utils.cpp).  The operator may change a configuration file between *)
(* any two steps of a run.                                                 *)
(*                                                                         *)
(* A configuration file is what matters of it here: whether it can be      *)
(* loaded, and the Width in it.  A change of the operator puts another     *)
(* file, or none, at the name; a file that is being generated goes on      *)
(* without a name then.                                                    *)
(***************************************************************************)
EXTENDS Integers, Sequences, FiniteSets

CONSTANTS
  Arguments, \* the argument lists the program may be started with
  Widths     \* what the operator may give as the Width, or "unset"

Width == {"unset", "positive", "useless"}

Argument == {"--verbose", "--generate-default-config", "--storage",
             "camera.yml", "RpiCamTs.yml", "out.264", "out.ts", "other", ""}

ASSUME StartupAssumption ==
  /\ Arguments \subseteq Seq(Argument)
  /\ Widths \subseteq Width

VARIABLES
  home,        \* the directory chdir_to_project_root chooses
  environment, \* the Width in the environment
  config,      \* the configuration files, by place
  phase,       \* where the program is
  options,     \* RpiCamTsOptions
  cwd,         \* its current directory
  own,         \* the name still leads to the file it is generating
  used,        \* the configuration it has loaded, and from where
  backendPath, \* backend_path: "none", or "found"
  overwritten, \* the output files this invocation has truncated
  code         \* how the last invocation has ended

vars == <<home, environment, config, phase, options, cwd, own, used,
          backendPath, overwritten, code>>

Directory == {"launch", "dst"}
Place == [dir : Directory, name : {"camera.yml", "RpiCamTs.yml"}]

Readable == [text : {"written", "generated"}, width : Width]
\* What open() finds at a place.
Absent    == [text |-> "absent", width |-> "unset"]
Partial   == [text |-> "partial", width |-> "unset"] \* generation was killed
Invalid   == [text |-> "invalid", width |-> "unset"]
Generated == [text |-> "generated", width |-> "positive"]
Edited    == {Absent, Invalid} \cup [text : {"written"}, width : Widths]

Unused   == [from |-> "nowhere", text |-> "absent", width |-> "unset"]
Defaults == [from |-> "defaults", text |-> "absent", width |-> "unset"]

-----------------------------------------------------------------------------
(* main                                                                    *)

DefaultOptions ==
  [config |-> "RpiCamTs.yml", explicitConfig |-> FALSE,
   output |-> "video.264", explicitOutput |-> FALSE,
   mode |-> "raw", generate |-> FALSE]

UsageError == [DefaultOptions EXCEPT !.mode = "usage"]

IsConfigPath(a) == a \in {"camera.yml", "RpiCamTs.yml"}
IsOutputPath(a) == a \in {"out.264", "out.ts"}

WithConfig(o, a) == [o EXCEPT !.config = a, !.explicitConfig = TRUE]
WithOutput(o, a) ==
  [o EXCEPT !.output = a, !.explicitOutput = TRUE,
            !.mode = IF a = "out.ts" THEN "mpegts" ELSE "raw"]
WithStorage(o, a) == [o EXCEPT !.output = a, !.mode = "storage"]

OptionsOf(arguments) ==
  LET a == SelectSeq(arguments, LAMBDA x : x # "--verbose")
  IN CASE Len(a) = 0 -> DefaultOptions
       [] Len(a) = 1 /\ IsConfigPath(a[1]) -> WithConfig(DefaultOptions, a[1])
       [] Len(a) = 1 /\ IsOutputPath(a[1]) -> WithOutput(DefaultOptions, a[1])
       [] /\ Len(a) = 2
          /\ a[1] = "--generate-default-config" /\ IsConfigPath(a[2]) ->
            [DefaultOptions EXCEPT !.generate = TRUE, !.config = a[2]]
       [] Len(a) = 2 /\ IsConfigPath(a[1]) /\ IsOutputPath(a[2]) ->
            WithConfig(WithOutput(DefaultOptions, a[2]), a[1])
       [] Len(a) = 2 /\ a[1] = "--storage" /\ a[2] # "" ->
            WithStorage(DefaultOptions, a[2])
       [] /\ Len(a) = 3
          /\ IsConfigPath(a[1]) /\ a[2] = "--storage" /\ a[3] # "" ->
            WithStorage(WithConfig(DefaultOptions, a[1]), a[3])
       [] OTHER -> UsageError

Init ==
  /\ home \in Directory
  /\ environment \in Widths
  /\ config = [p \in Place |-> Absent]
  /\ phase = "off"
  /\ options = DefaultOptions
  /\ cwd = "launch"
  /\ own = FALSE
  /\ used = Unused
  /\ backendPath = "none"
  /\ overwritten = {}
  /\ code = "none"

\* Its descriptors are gone with the program.
Exit(how) ==
  /\ phase' = "off"
  /\ own' = FALSE
  /\ code' = how

Invoke ==
  /\ phase = "off"
  /\ \E arguments \in Arguments :
       /\ options' = OptionsOf(arguments)
       /\ IF OptionsOf(arguments) = UsageError THEN Exit("error")
          ELSE /\ phase' = IF OptionsOf(arguments).generate THEN "generating"
                           ELSE "resolving"
               /\ code' = "none"
               /\ UNCHANGED own
  /\ cwd' = "launch"
  /\ used' = Unused
  /\ backendPath' = "none"
  /\ overwritten' = {}
  /\ UNCHANGED <<home, environment, config>>

-----------------------------------------------------------------------------
(* write_default_config_file                                               *)

Target == [dir |-> "launch", name |-> options.config]

CreateConfig_Truncate ==
  /\ phase = "generating"
  /\ config' = [config EXCEPT ![Target] = Partial]
  /\ own' = TRUE
  /\ phase' = "writing"
  /\ UNCHANGED <<home, environment, options, cwd, used, backendPath,
                 overwritten, code>>

\* open(O_CREAT | O_EXCL).
CreateConfig ==
  /\ phase = "generating"
  /\ config[Target] = Absent
  /\ config' = [config EXCEPT ![Target] = Partial]
  /\ own' = TRUE
  /\ phase' = "writing"
  /\ UNCHANGED <<home, environment, options, cwd, used, backendPath,
                 overwritten, code>>

\* It exists, or the directory cannot be written to.
CreateConfigFails ==
  /\ phase = "generating"
  /\ Exit("error")
  /\ UNCHANGED <<home, environment, config, options, cwd, used, backendPath,
                 overwritten>>

\* The last write and the close; they reach the file that was created.
FinishConfig ==
  /\ phase = "writing"
  /\ config' = IF own THEN [config EXCEPT ![Target] = Generated] ELSE config
  /\ Exit("ok")
  /\ UNCHANGED <<home, environment, options, cwd, used, backendPath,
                 overwritten>>

\* unlink(path), which may fail: it goes by the name, whatever is there now.
WriteConfigFails ==
  /\ phase = "writing"
  /\ config' \in {config, [config EXCEPT ![Target] = Absent]}
  /\ Exit("error")
  /\ UNCHANGED <<home, environment, options, cwd, used, backendPath,
                 overwritten>>

-----------------------------------------------------------------------------
(* run()                                                                   *)

\* realpath of an explicit configuration file; the paths of the outputs.
ResolvePaths ==
  /\ phase = "resolving"
  /\ options.explicitConfig => config[Target] # Absent
  /\ phase' = "entering"
  /\ UNCHANGED <<home, environment, config, options, cwd, own, used,
                 backendPath, overwritten, code>>

\* The configuration file is missing, or a path cannot be made absolute.
ResolveFails ==
  /\ phase = "resolving"
  /\ options.explicitConfig \/ options.explicitOutput \/ options.mode = "storage"
  /\ Exit("error")
  /\ UNCHANGED <<home, environment, config, options, cwd, used, backendPath,
                 overwritten>>

\* chdir_to_project_root: an error is reported and ignored.
ChangeDirectory ==
  /\ phase = "entering"
  /\ cwd' \in {home, cwd}
  /\ phase' = "loading"
  /\ UNCHANGED <<home, environment, config, options, own, used, backendPath,
                 overwritten, code>>

ConfigPlace_Relative == [dir |-> cwd, name |-> options.config]

\* An explicit path is absolute by now, the default one is not.
ConfigPlace ==
  [dir  |-> IF options.explicitConfig THEN "launch" ELSE cwd,
   name |-> options.config]

Loaded(content) ==
  used' = [from |-> ConfigPlace.dir, text |-> content.text,
           width |-> content.width]

\* A partial file may happen to end between two lines.
LoadConfig ==
  /\ phase = "loading"
  /\ config[ConfigPlace] \in Readable \cup {Partial}
  /\ Loaded(config[ConfigPlace])
  /\ phase' = "searching"
  /\ UNCHANGED <<home, environment, config, options, cwd, own, backendPath,
                 overwritten, code>>

\* The file is not valid, cannot be read, or has been removed in between.
LoadFails ==
  /\ phase = "loading"
  /\ Exit("error")
  /\ UNCHANGED <<home, environment, config, options, cwd, used, backendPath,
                 overwritten>>

UseDefaults ==
  /\ phase = "loading"
  /\ config[ConfigPlace] = Absent
  /\ ~options.explicitConfig
  /\ used' = Defaults
  /\ phase' = "searching"
  /\ UNCHANGED <<home, environment, config, options, cwd, own, backendPath,
                 overwritten, code>>

FindBackend ==
  /\ phase = "searching"
  /\ backendPath' = "found"
  /\ phase' = "opening"
  /\ UNCHANGED <<home, environment, config, options, cwd, own, used,
                 overwritten, code>>

\* MtxRpiCamPath is not executable, or no backend is found.
BackendMissing ==
  /\ phase = "searching"
  /\ Exit("error")
  /\ UNCHANGED <<home, environment, config, options, cwd, used, backendPath,
                 overwritten>>

\* parameter_value and get_camera_param_int.
CameraWidth ==
  CASE used.width # "unset"  -> used.width
    [] environment # "unset" -> environment
    [] OTHER                 -> "positive"

OutputPlace ==
  [dir  |-> IF options.explicitOutput THEN "launch" ELSE cwd,
   name |-> options.output]

OpenOutput_BeforeBackend ==
  /\ phase \in {"searching", "opening"}
  /\ options.mode # "raw" => CameraWidth = "positive"
  /\ overwritten' = IF options.mode = "storage" THEN {} ELSE {OutputPlace}
  /\ phase' = "camera"
  /\ UNCHANGED <<home, environment, config, options, cwd, own, used,
                 backendPath, code>>

\* The muxer looks at the size of the picture before it opens its file; a raw
\* file is opened whatever it is.  A recorder only adds files.
OpenOutput ==
  /\ phase = "opening"
  /\ options.mode # "raw" => CameraWidth = "positive"
  /\ overwritten' = IF options.mode = "storage" THEN {} ELSE {OutputPlace}
  /\ phase' = "camera"
  /\ UNCHANGED <<home, environment, config, options, cwd, own, used,
                 backendPath, code>>

\* The header of an MPEG-TS file may be what cannot be written.
OpenOutputFails ==
  /\ phase = "opening"
  /\ \/ UNCHANGED overwritten
     \/ /\ options.mode = "mpegts" /\ CameraWidth = "positive"
        /\ overwritten' = {OutputPlace}
  /\ Exit("error")
  /\ UNCHANGED <<home, environment, config, options, cwd, used, backendPath>>

\* What follows is in Pipeline.
Finish ==
  /\ phase = "camera"
  /\ \E how \in {"ok", "error"} : Exit(how)
  /\ UNCHANGED <<home, environment, config, options, cwd, used, backendPath,
                 overwritten>>

Kill ==
  /\ phase # "off"
  /\ Exit("killed")
  /\ UNCHANGED <<home, environment, config, options, cwd, used, backendPath,
                 overwritten>>

\* The operator, or another program, creates, replaces or removes a
\* configuration file.
EditConfig ==
  /\ \E p \in Place, content \in Edited :
       /\ config' = [config EXCEPT ![p] = content]
       /\ own' = (own /\ p # Target)
  /\ UNCHANGED <<home, environment, phase, options, cwd, used, backendPath,
                 overwritten, code>>

Next ==
  \/ Invoke
  \/ CreateConfig \/ CreateConfigFails \/ FinishConfig \/ WriteConfigFails
  \/ ResolvePaths \/ ResolveFails
  \/ ChangeDirectory
  \/ LoadConfig \/ LoadFails \/ UseDefaults
  \/ FindBackend \/ BackendMissing
  \/ OpenOutput \/ OpenOutputFails
  \/ Finish
  \/ Kill
  \/ EditConfig

Spec == Init /\ [][Next]_vars

-----------------------------------------------------------------------------
(* Properties                                                              *)

\* README "An explicitly requested missing or invalid config is an error":
\* a run that goes on has loaded the file that was named, from the directory
\* it was launched in, even if that file is removed after it has been found.
ExplicitConfigUsed ==
  phase \in {"opening", "camera"} /\ options.explicitConfig
    => used.from = "launch"

\* An error in the arguments, in the configuration, in the picture size of an
\* MPEG-TS output or in the search for the backend leaves every earlier
\* recording as it is: a run has truncated a file only once it has its
\* configuration (the file that was named, if one was) and its backend, and
\* then only the file it was asked for, or video.264.
OutputsKept ==
  /\ overwritten # {} =>
       /\ ~options.generate
       /\ used # Unused
       /\ options.explicitConfig => used.from = "launch"
       /\ backendPath = "found"
       /\ \/ options.mode = "raw"
          \/ options.mode = "mpegts" /\ CameraWidth = "positive"
  /\ \A place \in overwritten :
       IF options.explicitOutput
         THEN place = [dir |-> "launch", name |-> options.output]
         ELSE place.name = "video.264"

\* README "RpiCamTs will not overwrite an existing config file": whatever is
\* created, replaced or removed in between, the program creates a file only
\* where there is none, gives content only to the file it has created, and
\* removes one only after a failed write.  What it removes then is what bears
\* the name: its own file, or the one that has replaced it meanwhile.
ConfigsKept ==
  [][phase' # phase =>
       \A p \in Place :
         config'[p] # config[p] =>
           /\ options.generate /\ p = Target
           /\ \/ phase = "generating" /\ config[p] = Absent
              \/ phase = "writing" /\ own /\ config[p] = Partial
              \/ /\ phase = "writing" /\ code' = "error"
                 /\ config'[p] = Absent]_vars

\* README "Generate a default YAML config file ... Then run with the default
\* filename": a RpiCamTs.yml that was generated is the one a run without a
\* configuration argument loads.
GeneratedConfigUsed ==
  /\ phase = "camera"
  /\ options = DefaultOptions
  /\ config[[dir |-> "launch", name |-> "RpiCamTs.yml"]] = Generated
  => used.text = "generated"
=============================================================================

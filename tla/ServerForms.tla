----------------------------- MODULE ServerForms ----------------------------
(***************************************************************************)
(* The forms and buttons about the server itself (ServerSettings.tsx,      *)
(* Overrides.tsx, Extensions.tsx, Replication.tsx, Activity.tsx,           *)
(* TableStats.tsx, Statements.tsx, ClientAuth.tsx), with the interface of  *)
(* GrantForms.                                                             *)
(***************************************************************************)
EXTENDS FiniteSets, Naturals, Sequences

CONSTANT None

(* Two settings, "a" by default: a reload takes up the first, the other    *)
(* needs a restart                                                         *)
Setting == {"sighup", "postmaster"}
(* Extension "dep" needs extension "base"; versions 1 and 2, or 0          *)
Extension == {"base", "dep"}
Version == 2
(* A setting for a role, for a database, or for the role in the database   *)
Scope == {<<"r", None>>, <<None, "d">>, <<"r", "d">>}

ConfCell == {"conf", "running"} \X Setting
OverrideCell == {"override"} \X Scope
ExtensionCell == {"extension"} \X Extension
SlotCell == {<<"slot", "s">>}
BackendCell == {<<"backend", "pid">>}
StatsCell == {"stats"} \X {"table", "statements"}
Cell == ConfCell \cup OverrideCell \cup ExtensionCell \cup SlotCell \cup BackendCell \cup StatsCell

Reads(cat, c) == cat[c]
Conf(s) == <<"conf", s>>
Running(s) == <<"running", s>>
Ext(e) == <<"extension", e>>

-----------------------------------------------------------------------------
(* The server                                                              *)
Set(cell, value) == [op |-> "set", cell |-> cell, value |-> value, cascade |-> FALSE]
ReloadConf == [op |-> "reload_conf"]
CreateExtension(e, v, cascade) == [op |-> "create_extension", cell |-> Ext(e), value |-> v, cascade |-> cascade]
UpdateExtension(e, v) == [op |-> "update_extension", cell |-> Ext(e), value |-> v, cascade |-> FALSE]
DropExtension(e, cascade) == [op |-> "drop_extension", cell |-> Ext(e), value |-> 0, cascade |-> cascade]
DropSlot == [op |-> "drop_replication_slot", cell |-> <<"slot", "s">>, value |-> None, cascade |-> FALSE]
Signal(c) == [op |-> "terminate_backend", cell |-> c, value |-> None, cascade |-> FALSE]
Analyze == Set(<<"stats", "table">>, "new")
ResetStatements == Set(<<"stats", "statements">>, "new")
Vacuum == [op |-> "vacuum", cell |-> <<"stats", "table">>, value |-> "new", cascade |-> FALSE]

Refused(cat, op) ==
    CASE op.op = "create_extension" ->
            op.cell = Ext("dep") /\ cat[op.cell] = 0 /\ cat[Ext("base")] = 0 /\ ~op.cascade
      [] op.op = "update_extension" -> cat[op.cell] = 0
      [] op.op = "drop_extension" ->
            cat[op.cell] = 0 \/ (op.cell = Ext("base") /\ cat[Ext("dep")] # 0 /\ ~op.cascade)
      [] op.op = "drop_replication_slot" -> cat[op.cell] # "inactive"
      [] OTHER -> FALSE

(* CREATE EXTENSION IF NOT EXISTS; a reload takes up what does not need a  *)
(* restart                                                                 *)
Effect(cat, op) ==
    CASE op.op = "reload_conf" ->
            [cat EXCEPT ![Running("sighup")] = IF cat[Conf("sighup")] = "default" THEN "a" ELSE cat[Conf("sighup")]]
      [] op.op = "create_extension" ->
            IF cat[op.cell] # 0 THEN cat
            ELSE [cat EXCEPT ![Ext("base")] = IF @ = 0 THEN Version ELSE @, ![op.cell] = op.value]
      [] op.op = "drop_extension" ->
            [cat EXCEPT ![op.cell] = 0, ![Ext("dep")] = IF op.cell = Ext("base") THEN 0 ELSE @]
      [] OTHER -> [cat EXCEPT ![op.cell] = op.value]

Reach(cat, op) ==
    CASE op.op = "reload_conf" -> {Running("sighup")}
      [] op.op \in {"create_extension", "drop_extension"} /\ op.cascade -> ExtensionCell
      [] OTHER -> {}

Group(op) == IF op.op # "reload_conf" /\ op.cell \in ExtensionCell \cup StatsCell THEN "db" ELSE "any"

(* All but ALTER SYSTEM and VACUUM: Statement.transactional                *)
Transactional(op) == op.op # "vacuum" /\ (op.op = "set" => op.cell \notin ConfCell)

(* What a rollback does not undo: a reload, a dropped slot, a terminated   *)
(* backend, reset counters, and the time of an ANALYZE                     *)
Lasting == {Running("sighup")} \cup SlotCell \cup BackendCell \cup StatsCell
Undone(old, new) == [c \in Cell |-> IF c \in Lasting THEN new[c] ELSE old[c]]

Commands ==
    {Set(Conf(s), v) : s \in Setting, v \in {"b", "default"}} \cup {ReloadConf}
    \cup {Set(<<"override", s>>, v) : s \in Scope, v \in {"b", None}}
    \cup {CreateExtension(e, 1, TRUE) : e \in Extension}
    \cup {DropExtension(e, FALSE) : e \in Extension}
    \cup {Set(<<"slot", "s">>, v) : v \in {"active", "inactive", None}}
    \cup {Set(<<"backend", "pid">>, v) : v \in {"other", None}}

Foreign(cat) == {Effect(cat, op) : op \in {o \in Commands : ~Refused(cat, o)}}

-----------------------------------------------------------------------------
(* The forms.  `value` is the field; "" is an empty one.                   *)
Draft(editor, row, value) ==
    [editor |-> editor, row |-> row, value |-> value, reset |-> FALSE, cascade |-> FALSE]

(* An override's form opened without a row picks its scope                 *)
OpensSettings(seen) == {Draft("SettingEditor", s, seen[Running(s)]) : s \in Setting}

OpensOverrides(seen) ==
    {Draft("OverrideEditor", c, seen[c]) : c \in {x \in OverrideCell : seen[x] # None}}
    \cup {Draft("NewOverride", <<"override", <<None, None>>>>, "")}

OpensExtensions(seen) ==
    {Draft("InstallExtension", e, 0) : e \in {x \in Extension : seen[Ext(x)] = 0}}
    \cup {Draft("DropExtension", e, 0) : e \in {x \in Extension : seen[Ext(x)] # 0}}

OpensSlots(seen) == {Draft("DropSlot", c, seen[c]) : c \in {x \in SlotCell : seen[x] # None}}

Opens(seen) == OpensSettings(seen) \cup OpensOverrides(seen) \cup OpensExtensions(seen) \cup OpensSlots(seen)

SettingEdits(d) ==
    {[d EXCEPT !.reset = ~@]} \cup {e \in {[d EXCEPT !.value = v] : v \in {"a", "b", ""}} : ~d.reset}

OverrideEdits(d) ==
    {[d EXCEPT !.value = v] : v \in {"a", "b", ""}}
    \cup (IF d.editor = "NewOverride" THEN {[d EXCEPT !.row = c] : c \in OverrideCell} ELSE {})

InstallEdits(d) == {[d EXCEPT !.value = v] : v \in {0, 1}} \cup {[d EXCEPT !.cascade = ~@]}

Edits(from, d) ==
    CASE d.editor = "SettingEditor" -> SettingEdits(d)
      [] d.editor \in {"OverrideEditor", "NewOverride"} -> OverrideEdits(d)
      [] d.editor = "InstallExtension" -> InstallEdits(d)
      [] d.editor = "DropExtension" -> {[d EXCEPT !.cascade = ~@]}
      [] OTHER -> {}

(* These forms show what they would do, not what is                        *)
Loaded(from, d) == [d EXCEPT !.editor = ""]

CanSave(d) ==
    CASE d.editor = "SettingEditor" -> d.reset \/ d.value # ""
      [] d.editor \in {"OverrideEditor", "NewOverride"} -> d.value # "" /\ d.row \in OverrideCell
      [] d.editor = "DropSlot" -> d.value # "active"
      [] OTHER -> TRUE

(* An empty version field means the default one                            *)
Chosen(d) == IF d.value = 0 THEN Version ELSE d.value

Sends(from, d) ==
    CASE d.editor = "SettingEditor" -> <<Set(Conf(d.row), IF d.reset THEN "default" ELSE d.value)>>
      [] d.editor \in {"OverrideEditor", "NewOverride"} -> <<Set(d.row, d.value)>>
      [] d.editor = "InstallExtension" -> <<CreateExtension(d.row, Chosen(d), d.cascade)>>
      [] d.editor = "DropExtension" -> <<DropExtension(d.row, d.cascade)>>
      [] OTHER -> <<DropSlot>>

Only(cell, value) == [c \in {cell} |-> {value}]

Asks(from, d) ==
    CASE d.editor = "SettingEditor" -> Only(Conf(d.row), IF d.reset THEN "default" ELSE d.value)
      [] d.editor \in {"OverrideEditor", "NewOverride"} -> Only(d.row, d.value)
      [] d.editor = "InstallExtension" -> Only(Ext(d.row), Chosen(d))
      [] d.editor = "DropExtension" -> Only(Ext(d.row), 0)
      [] d.editor = "DropSlot" -> Only(d.row, None)
      [] OTHER -> <<>>

Direct(from, d) == TRUE

Button(op, v) == [op |-> op, asks |-> Only(op.cell, v), direct |-> TRUE]

(* What a row offers: Terminate a backend, Analyze or Vacuum a table,      *)
(* Reset an override, Update an extension; for the server, Reset of the    *)
(* statement statistics and Reload                                         *)
SignalButtons(seen) == {Button(Signal(c), None) : c \in {x \in BackendCell : seen[x] # None}}
AnalyzeButton == Button(Analyze, "new")
VacuumButton == Button(Vacuum, "new")
ResetStatementsButton == Button(ResetStatements, "new")
ReloadButton == [op |-> ReloadConf, asks |-> <<>>, direct |-> TRUE]
ResetButtons(seen) == {Button(Set(c, None), None) : c \in {x \in OverrideCell : seen[x] # None}}
UpdateButtons(seen) == {Button(UpdateExtension(e, Version), Version) : e \in {x \in Extension : seen[Ext(x)] = 1}}

Buttons(seen) ==
    SignalButtons(seen) \cup ResetButtons(seen) \cup UpdateButtons(seen)
    \cup {AnalyzeButton, VacuumButton, ResetStatementsButton, ReloadButton}

=============================================================================

------------------------------ MODULE MCAgents ------------------------------
EXTENDS Agents

MCChain ==
  [full |-> [d \in Disk |-> CASE d = "s1" -> <<1, 1>> [] d = "s2" -> <<2, 0>>
                              [] d = HeadDisk -> <<0, 3>> [] OTHER -> None],
   short |-> [d \in Disk |-> CASE d = "s1" -> <<1, 1>> [] d = HeadDisk -> <<0, 3>>
                               [] OTHER -> None],
   part |-> [d \in Disk |-> CASE d = "s1" -> <<9, 0>> [] d = HeadDisk -> <<0, 0>>
                              [] OTHER -> None],
   base |-> [d \in Disk |-> IF d = HeadDisk THEN <<0, 0>> ELSE None]]

MCUuidSnap == <<"u1", "u2">>
MCSizeSnap == <<"e1", "e2", "e3">>
MCBackupData == [b \in Backup |-> IF b = "b1" THEN <<4, 4>> ELSE <<4, 5>>]
MCLastBackup == [s1 |-> <<1, 1>>, s2 |-> <<2, 1>>]
MCCloneData == <<6, 6>>

Make(kind) == [kind |-> kind, snap |-> "s1", rehash |-> FALSE, backup |-> "b1",
               target |-> 3, skip |-> FALSE, size |-> 1, base |-> None]
Del(s) == [Make("delete") EXCEPT !.snap = s]
Purge == Make("purge")
PurgeSkip == [Make("purge") EXCEPT !.skip = TRUE]
Hash(s) == [Make("hash") EXCEPT !.snap = s]
Rehash(s) == [Hash(s) EXCEPT !.rehash = TRUE]
Cancel(s) == [Make("cancel") EXCEPT !.snap = s]
Save(s) == [Make("backup") EXCEPT !.snap = s]
SaveAs(s, b, base) == [Save(s) EXCEPT !.backup = b, !.base = base]
HashStatus(s) == [Make("hashstatus") EXCEPT !.snap = s]
SaveStatus(b) == [Make("backupstatus") EXCEPT !.backup = b, !.target = 1]
RevertTo(s) == [Make("revert") EXCEPT !.snap = s]
ExpandTo(n) == [Make("expand") EXCEPT !.size = n]
Restore(b) == [Make("restore") EXCEPT !.backup = b]
Rebuild == Make("rebuild")
Reset_ == Make("reset")
Clone == Make("clone")

One == <<"RW", "none", "none">>
Two == <<"RW", "RW", "none">>

Load(calls, modes, chain, n, rot) ==
  [calls |-> calls, modes |-> modes, chain |-> chain, faults |-> n, rot |-> rot,
   gone |-> {}, stale |-> {}]
Stale(l) == [l EXCEPT !.stale = {3}]
Deleted(s, l) == [l EXCEPT !.gone = {s}]

MCWorkload ==
  { Load(<<Del("s1"), Purge, Purge>>, One, "full", 1, FALSE),
    Deleted("s1", Load(<<Purge>>, Two, "full", 2, FALSE)),
    Load(<<Del("s2"), Del("s1"), Purge>>, One, "full", 1, FALSE),
    Load(<<Del("s1"), Purge, Hash("s2")>>, One, "full", 1, FALSE),
    Load(<<Del("s1"), Purge, Save("s2")>>, One, "full", 1, FALSE),
    Deleted("s1", Load(<<Purge, Save("s1")>>, One, "full", 0, FALSE)),
    Deleted("s2", Load(<<Purge, PurgeSkip>>, One, "full", 0, FALSE)),
    Deleted("s2", Load(<<PurgeSkip>>, <<"RW", "WO", "ERR">>, "full", 0, FALSE)),
    Load(<<Hash("s1"), Rehash("s1"), Hash("s1")>>, One, "short", 1, TRUE),
    Load(<<Hash("s1"), Hash("s1"), Cancel("s1")>>, One, "short", 1, FALSE),
    Load(<<Restore("b1"), Restore("b2"), Reset_>>, One, "base", 1, FALSE),
    Load(<<Restore("b1"), Restore("b2")>>, Two, "base", 0, FALSE),
    Load(<<Restore("b1"), Restore("b2")>>, <<"RW", "WO", "none">>, "base", 0, FALSE),
    Load(<<Restore("b1"), Rebuild>>, One, "base", 0, FALSE),
    Load(<<Restore("b1")>>, <<"RW", "WO", "ERR">>, "base", 1, FALSE),
    Load(<<Restore("b1"), Purge>>, One, "base", 1, FALSE),
    Load(<<Restore("b1"), Del("s1")>>, One, "full", 0, FALSE),
    Load(<<Clone, Clone>>, One, "base", 1, FALSE),
    Load(<<Clone>>, Two, "base", 1, FALSE),
    Load(<<Clone, Purge>>, One, "base", 1, FALSE),
    Load(<<Rebuild>>, Two, "short", 2, FALSE),
    Load(<<Rebuild, Del("s1")>>, One, "short", 0, FALSE),
    Load(<<Rebuild, Hash("s1")>>, One, "short", 0, FALSE),
    Load(<<Rebuild, HashStatus("s1")>>, One, "short", 0, FALSE),
    Load(<<Rebuild, Rebuild>>, One, "short", 1, FALSE),
    Load(<<Rebuild, Purge>>, One, "base", 0, FALSE),
    Deleted("s1", Load(<<Purge, Hash("s1")>>, One, "full", 1, FALSE)),
    Load(<<Restore("b1"), Restore("b2"), Purge>>, One, "base", 0, FALSE),
    Load(<<Clone, Rebuild>>, <<"RW", "WO", "none">>, "base", 0, FALSE),
    Load(<<Restore("b1"), Save("s1"), Hash("s1")>>, <<"ERR", "ERR", "none">>, "short", 0, FALSE),
    Deleted("s1", Load(<<Purge, SaveAs("s2", "b1", "s1")>>, One, "full", 1, FALSE)),
    Load(<<SaveAs("s2", "b1", "s1"), SaveAs("s1", "b2", None), SaveStatus("b1")>>, One, "full", 1, FALSE),
    Load(<<SaveAs("s2", "b1", "s1"), SaveAs("s2", "b1", "s1"), SaveStatus("b1")>>, One, "full", 0, FALSE),
    Load(<<Hash("s1"), Hash("s2"), HashStatus("s1")>>, One, "full", 0, FALSE),
    Stale(Load(<<Rebuild>>, One, "full", 1, FALSE)),
    Stale(Load(<<Rebuild, Rebuild>>, One, "short", 0, FALSE)),
    Load(<<RevertTo("s1"), Del("s2"), Purge>>, One, "full", 0, FALSE),
    Deleted("s2", Load(<<RevertTo("s1"), Purge>>, Two, "full", 0, FALSE)),
    Deleted("s2", Load(<<RevertTo("s1"), Purge>>, One, "full", 1, FALSE)),
    Load(<<RevertTo("s1"), Del("s1"), Purge>>, One, "full", 0, FALSE),
    Load(<<ExpandTo(1), ExpandTo(2), ExpandTo(3)>>, Two, "short", 0, FALSE),
    Load(<<ExpandTo(1), ExpandTo(2)>>, Two, "short", 2, FALSE),
    Deleted("s1", Load(<<ExpandTo(2), Purge>>, One, "full", 1, FALSE)),
    Load(<<ExpandTo(2), Rebuild>>, One, "short", 1, FALSE),
    Load(<<RevertTo("s1"), ExpandTo(2)>>, Two, "full", 1, FALSE),
    Load(<<RevertTo("s1"), Rebuild>>, One, "short", 0, FALSE) }
=============================================================================

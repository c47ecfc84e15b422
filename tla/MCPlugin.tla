------------------------------ MODULE MCPlugin ------------------------------
(* Checks the plugin runtime together with the UI that uses it.            *)
EXTENDS PluginHost

-----------------------------------------------------------------------------
\* Nothing but the approval it was started under entitles a process to run: it
\* must be the one in force, enabled, and the one on disk.
Entitled == ~closing /\ entry.on /\ file = entry /\ session[last].appr = entry

\* A process that is no longer entitled to run ends: when hrdx quits, with the UI
\* that answered its requests already gone, so that Close returns (runtime.go:
\* 296, 308), and when its approval is changed, disabled or revoked, also by a
\* watcher that compares with a copy that is out of date, unless the file is
\* changed back before the watcher looks (watch.go:11, 50).
AuthorityEnds == (Live(last) /\ ~Entitled) ~> (~Live(last) \/ Entitled)

\* What a plugin added to the screen goes with its generation although the
\* notices of its end may be dropped, and the UI comes to know whether the
\* plugin is there (runtime.go:389, plugins.go:72).
Behind == \/ uiStatus # View(status)
          \/ \E k \in Kinds : contrib[k] # 0 /\ ~Live(contrib[k])

UiFollows == Behind ~> (~Behind \/ uiPc = "quit")

\* Expected to fail, with MaxEdits = 2: after a reload the plugin that runs, and
\* is not being stopped, runs under the approval the reload installed
\* (runtime.go:251, "then starts a new generation").
RunsAsRegistered ==
    Live(last) /\ ~session[last].stop /\ entry.on => session[last].appr = entry
=============================================================================

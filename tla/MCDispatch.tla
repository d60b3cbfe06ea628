----------------------------- MODULE MCDispatch -----------------------------
(* Model-checking instances of Dispatch.                                   *)
EXTENDS Dispatch

App(calls, max) == [calls |-> calls, max |-> max, lossy |-> FALSE, slow |-> FALSE]

(* One call of each kind: attributes and a large reply, attributes that    *)
(* are not released, a payload of any size, always data, a raw reply, a    *)
(* plain question, a command nobody waits for.                             *)
MCCalls == {"eglChooseConfig", "eglGetPlatformDisplay", "glBufferData",
            "glDeleteBuffers", "glGenTextures", "eglSwapBuffers", "glClear"}

(* Calls that do not get their reply: no handler, or it is looked for too  *)
(* early.                                                                  *)
MCUnanswered == {"eglBindTexImage", "eglReleaseTexImage", "eglSurfaceAttrib"}

(* Every pair of calls, the two sides' tables against each other.          *)
MCAllCalls == ClientCalls \ (MCUnanswered \cup EarlyRet)

MCFaultCalls == {"eglChooseConfig", "eglGetPlatformDisplay", "glBufferData",
                 "glShaderSource", "glGenTextures", "eglBindTexImage"}

MCApplications ==
  {App(MCCalls, 4), App(MCAllCalls, 2),
   [App(MCFaultCalls, 4) EXCEPT !.lossy = TRUE, !.slow = TRUE]}

MCStaleApplications == {App({"glGenTextures", "glGetActiveAttrib"}, 2)}
=============================================================================

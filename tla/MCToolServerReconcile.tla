----------------------- MODULE MCToolServerReconcile -----------------------
(* Servers of the three kinds; each run takes some of them. *)
EXTENDS ToolServerReconcile, TLC

RemoteAndService == "remote" :> "RemoteMCPServer" @@ "service" :> "Service"
RemoteAndMCP     == "remote" :> "RemoteMCPServer" @@ "mcp" :> "MCPServer"
ToolSymmetry     == Permutations(Tools)
=============================================================================
